----------------------- MODULE ThreeDSecureFlowProofs -----------------------
(***************************************************************************)
(* Proofs about ThreeDSecureFlow, for any number of flows, any browsers    *)
(* and a process that is killed at any time.                               *)
(***************************************************************************)
EXTENDS ThreeDSecureFlow, TLAPS

(* What is in the hands of the process, or in its saved state, belongs to  *)
(* the flow that is going on; and the holder tells of its redirect.        *)
OwnHolder ==
  /\ step = "open" => Resource = {flows} /\ intentHolder = {}
  /\ step = "finishing" => intentHolder = (IF redirected THEN {flows} ELSE {})
  /\ redirected => step \in {"none", "finishing"}

(* What the web view shows is what the client knows.                       *)
DisplayTrue ==
  /\ progressBar <=> loadingState = "LOADING"
  /\ errorView => loadingState # "LOADING"

FlowInv == TypeOK /\ DisplayTrue /\ OwnHolder

(* No flow has been started at first; the holder may be full.              *)
LEMMA FlowInitial == Init => FlowInv
<1> SUFFICES ASSUME Init PROVE FlowInv
  OBVIOUS
<1>1. WebTypeOK /\ DisplayTrue
  BY DEF Init, WebOpened, WebTypeOK, DisplayTrue
<1>2. intentHolder \subseteq Nat /\ step \in Step
  BY DEF Init, Step
<1> QED
  BY <1>1, <1>2 DEF Init, FlowInv, TypeOK, OwnHolder, Browser

(* The resource of a flow is a set of numbers, like all that is made of it.*)
LEMMA ResourceType == TypeOK => Resource \subseteq Nat
  BY DEF TypeOK, Resource

(* The callbacks of the WebView keep the types and the display true.       *)
LEMMA WebStep ==
  ASSUME WebTypeOK, DisplayTrue, onPageStarted \/ PageCallback
  PROVE  WebTypeOK' /\ DisplayTrue'
<1>0. loadingState \in {"STOPPED", "LOADING", "ERROR"}
  BY DEF WebTypeOK
<1>1. CASE onPageStarted
  <2>1. CASE UNCHANGED web
    BY <2>1 DEF web, WebTypeOK, DisplayTrue
  <2>2. CASE ~UNCHANGED web
    <3>1. /\ loadingState' = "LOADING" /\ progressBar' = TRUE /\ errorView' = FALSE
          /\ pageView' = pageView
      BY <1>1, <2>2 DEF onPageStarted
    <3> QED
      BY <3>1 DEF WebTypeOK, DisplayTrue
  <2> QED
    BY <2>1, <2>2
<1>2. CASE onPageFinished
  <2>1. CASE loadingState = "LOADING"
    BY <1>2, <2>1 DEF onPageFinished, WebTypeOK, DisplayTrue
  <2>2. CASE loadingState # "LOADING"
    BY <1>2, <2>2 DEF onPageFinished, WebTypeOK, DisplayTrue
  <2> QED
    BY <2>1, <2>2
<1>3. CASE onReceivedError
  BY <1>3 DEF onReceivedError, WebTypeOK, DisplayTrue
<1>4. CASE onReceivedSslError
  BY <1>4 DEF onReceivedSslError, WebTypeOK, DisplayTrue
<1>5. CASE onProgressChanged
  BY <1>5 DEF onProgressChanged, WebTypeOK, DisplayTrue
<1> QED
  BY <1>1, <1>2, <1>3, <1>4, <1>5 DEF PageCallback

(* Every step of a flow keeps the invariant.                               *)
LEMMA FlowStep == FlowInv /\ [Next]_flowVars => FlowInv'
<1> SUFFICES ASSUME FlowInv, [Next]_flowVars PROVE FlowInv'
  OBVIOUS
<1>0. TypeOK /\ WebTypeOK /\ DisplayTrue /\ OwnHolder /\ Resource \subseteq Nat
  BY ResourceType DEF FlowInv, TypeOK
<1>1. ASSUME WebReopened PROVE WebTypeOK' /\ DisplayTrue'
  <2>1. /\ loadingState' = "STOPPED" /\ progressBar' = FALSE /\ errorView' = FALSE
        /\ pageView' = TRUE
    BY <1>1 DEF WebReopened
  <2> QED
    BY <2>1 DEF WebTypeOK, DisplayTrue
<1>2. ASSUME UNCHANGED web PROVE WebTypeOK' /\ DisplayTrue'
  BY <1>0, <1>2 DEF web, WebTypeOK, DisplayTrue
<1>3. CASE StartFlow
  <2>1. WebTypeOK' /\ DisplayTrue'
    BY <1>2, <1>3 DEF StartFlow
  <2>2. TypeOK'
    <3>1. /\ browser = "none" /\ flows' = flows + 1 /\ step' = "launched"
          /\ redirected' = FALSE
          /\ UNCHANGED <<browser, current, savedId, intentHolder, result>>
      BY <1>0, <1>3 DEF StartFlow, TypeOK
    <3>2. flows' \in Nat /\ step' \in Step /\ browser' \in Browser
      BY <1>0, <3>1 DEF TypeOK, Step
    <3>3. current' \subseteq Nat /\ savedId' \subseteq Nat /\ intentHolder' \subseteq Nat
          /\ result' \subseteq Nat
      BY <1>0, <3>1 DEF TypeOK
    <3> QED
      BY <2>1, <3>1, <3>2, <3>3 DEF TypeOK
  <2>3. OwnHolder'
    BY <1>3 DEF StartFlow, OwnHolder
  <2> QED
    BY <2>1, <2>2, <2>3 DEF FlowInv
<1>4. ASSUME NEW b \in Browser, Create(b) PROVE FlowInv'
  <2>1. Resource' = {flows'}
    BY <1>4 DEF Create, Resource
  <2>2. WebTypeOK' /\ DisplayTrue'
    BY <1>1, <1>4 DEF Create
  <2>3. browser' \in Browser
    BY <1>4 DEF Create
  <2> QED
    BY <1>0, <1>4, <2>1, <2>2, <2>3 DEF Create, FlowInv, TypeOK, Step, OwnHolder
<1>5. CASE TabRedirects \/ WebRedirects
  <2>1. WebTypeOK' /\ DisplayTrue'
    BY <1>0, <1>2, <1>5, WebStep DEF TabRedirects, WebRedirects
  <2>2. step = "open" /\ Redirected
    BY <1>0, <1>5 DEF TabRedirects, WebRedirects, TypeOK
  <2> QED
    BY <1>0, <2>1, <2>2 DEF Redirected, FlowInv, TypeOK, Step, OwnHolder, Browser
<1>6. CASE WebPage
  <2>1. WebTypeOK' /\ DisplayTrue'
    BY <1>0, <1>6, WebStep DEF WebPage
  <2> QED
    BY <1>0, <1>6, <2>1 DEF WebPage, FlowInv, TypeOK, OwnHolder, Resource
<1>7. CASE Close
  BY <1>0, <1>2, <1>7 DEF Close, FlowInv, TypeOK, Step, OwnHolder, Browser
<1>8. CASE TakeResult
  BY <1>0, <1>2, <1>8 DEF TakeResult, FlowInv, TypeOK, Step, OwnHolder
<1>9. CASE ProcessKilled
  <2>1. Resource' = Resource
    BY <1>9 DEF ProcessKilled, Resource
  <2> QED
    BY <1>0, <1>1, <1>9, <2>1 DEF ProcessKilled, FlowInv, TypeOK, OwnHolder
<1>10. CASE UNCHANGED flowVars
  BY <1>0, <1>2, <1>10 DEF flowVars, FlowInv, TypeOK, OwnHolder, Resource
<1> QED
  BY <1>3, <1>4, <1>5, <1>6, <1>7, <1>8, <1>9, <1>10 DEF Next, Above

(* PayjpVerifier's state keeps its type.                                   *)
THEOREM TypeCorrect == Spec => []TypeOK
<1>1. FlowInv => TypeOK
  BY DEF FlowInv
<1> QED
  BY <1>1, FlowInitial, FlowStep, PTL DEF Spec

(* The error view comes with an error and stays until another page is      *)
(* announced or the web view is a new one.                                 *)
LEMMA ErrorStep ==
  FlowInv /\ [Next]_flowVars =>
    /\ errorView' /\ ~errorView => loadingState' = "ERROR"
    /\ errorView /\ ~errorView' =>
         (PageAnnounced /\ loadingState' = "LOADING") \/ WebRenewed
<1> DEFINE Stays == /\ errorView' /\ ~errorView => loadingState' = "ERROR"
                    /\ errorView /\ ~errorView' =>
                         (PageAnnounced /\ loadingState' = "LOADING") \/ WebRenewed
<1> SUFFICES ASSUME FlowInv, [Next]_flowVars PROVE Stays
  OBVIOUS
<1>0. DisplayTrue
  BY DEF FlowInv
<1>1. UNCHANGED web => Stays
  BY DEF web
<1>2. WebReopened /\ WebRenewed => Stays
  BY DEF WebReopened
<1>3. ASSUME onPageStarted \/ PageCallback PROVE Stays
  <2>1. CASE onPageStarted
    BY <1>1, <2>1 DEF onPageStarted
  <2>2. CASE onPageFinished
    BY <1>0, <2>2 DEF onPageFinished, DisplayTrue
  <2>3. CASE onReceivedError \/ onReceivedSslError \/ onProgressChanged
    BY <2>3 DEF onReceivedError, onReceivedSslError, onProgressChanged
  <2> QED
    BY <1>3, <2>1, <2>2, <2>3 DEF PageCallback
<1>4. CASE StartFlow \/ TabRedirects \/ Close \/ TakeResult \/ UNCHANGED flowVars
  <2>1. UNCHANGED web
    BY <1>4 DEF StartFlow, TabRedirects, Close, TakeResult, flowVars
  <2> QED
    BY <1>1, <2>1
<1>5. ASSUME NEW b \in Browser, Create(b) PROVE Stays
  BY <1>2, <1>5 DEF Create, WebRenewed
<1>6. CASE WebRedirects \/ WebPage
  BY <1>3, <1>6 DEF WebRedirects, WebPage
<1>7. CASE ProcessKilled
  BY <1>2, <1>7 DEF ProcessKilled, WebRenewed
<1> QED
  BY <1>4, <1>5, <1>6, <1>7 DEF Next, Above

(* The web view shows what the client knows, whatever order its callbacks  *)
(* have, and its error until another page is announced.                    *)
THEOREM LoadingShownHolds == Spec => LoadingShown
<1>1. FlowInv /\ [Next]_flowVars =>
        [/\ progressBar' <=> loadingState' = "LOADING"
         /\ errorView' => loadingState' # "LOADING"
         /\ errorView' /\ ~errorView => loadingState' = "ERROR"
         /\ errorView /\ ~errorView' =>
              \/ PageAnnounced /\ loadingState' = "LOADING"
              \/ WebRenewed]_flowVars
  BY FlowStep, ErrorStep DEF FlowInv, DisplayTrue
<1> QED
  BY <1>1, FlowInitial, FlowStep, PTL DEF Spec, LoadingShown

-----------------------------------------------------------------------------
(* The refinement: the steps that Verification does not know of are those  *)
(* that neither start or end a flow nor tell of its page.                  *)
LEMMA ContractStep ==
  FlowInv /\ [Next]_flowVars => [Contract!Next]_(Contract!vars)
<1> SUFFICES ASSUME FlowInv, [Next]_flowVars
             PROVE  Contract!Next \/ UNCHANGED Contract!vars
  OBVIOUS
<1> USE DEF verification, Contract!vars
<1>0. TypeOK /\ OwnHolder
  BY DEF FlowInv
<1>1. CASE StartFlow
  BY <1>1 DEF StartFlow, Contract!Next, Contract!Start
<1>2. ASSUME NEW b \in Browser, Create(b) PROVE UNCHANGED Contract!vars
  BY <1>2 DEF Create
<1>3. CASE TabRedirects \/ WebRedirects
  <2>1. step = "open" /\ Redirected /\ ~redirected
    BY <1>0, <1>3 DEF TabRedirects, WebRedirects, TypeOK, OwnHolder
  <2> QED
    BY <2>1 DEF Redirected, Contract!Next, Contract!Finish
<1>4. CASE WebPage \/ Close
  BY <1>4 DEF WebPage, Close
<1>5. CASE TakeResult
  <2>1. CASE redirected
    BY <1>0, <1>5, <2>1 DEF TakeResult, OwnHolder, Contract!Next, Contract!Succeed
  <2>2. CASE ~redirected
    BY <1>0, <1>5, <2>2 DEF TakeResult, OwnHolder, Contract!Next, Contract!Cancel
  <2> QED
    BY <2>1, <2>2
<1>6. CASE ProcessKilled
  <2>1. CASE redirected /\ step # "none"
    BY <1>6, <2>1 DEF ProcessKilled, Contract!Next, Contract!Forget
  <2>2. CASE ~redirected \/ step = "none"
    BY <1>6, <2>2 DEF ProcessKilled
  <2> QED
    BY <2>1, <2>2
<1>7. CASE UNCHANGED flowVars
  BY <1>7 DEF flowVars
<1> QED
  BY <1>1, <1>2, <1>3, <1>4, <1>5, <1>6, <1>7 DEF Next, Above

(* No flow has been verified at first.                                     *)
LEMMA ContractInitial == Init => Contract!Init
  BY DEF Init, Contract!Init, verification

(* Every flow ends with its own result, and with success exactly if its    *)
(* page has come back to the process that takes the result.                *)
THEOREM ImplementsVerificationHolds == Spec => ImplementsVerification
  BY ContractInitial, FlowInitial, FlowStep, ContractStep, PTL
     DEF Spec, ImplementsVerification, Contract!Spec
=============================================================================

-------------------------- MODULE VerifierWebView ---------------------------
(***************************************************************************)
(* The web view of the verification inside the application: the loading    *)
(* state CardVerifyWebViewClient keeps from the callbacks of the WebView,  *)
(* and what WebViewLoadingDelegate shows of it.  The callbacks come in any *)
(* order: pages redirect before they have been loaded, parts of a page     *)
(* fail, and the user loads again.                                         *)
(***************************************************************************)
VARIABLES
  loadingState, (* STOPPED, LOADING or ERROR                                *)
  progressBar,  (* the progress bar is visible                              *)
  errorView,    (* the error view is visible                                *)
  pageView      (* the WebView itself is visible                            *)

web == <<loadingState, progressBar, errorView, pageView>>

WebTypeOK ==
  /\ loadingState \in {"STOPPED", "LOADING", "ERROR"}
  /\ progressBar \in BOOLEAN
  /\ errorView \in BOOLEAN
  /\ pageView \in BOOLEAN

(* The layout of PayjpWebActivity.                                         *)
WebOpened ==
  /\ loadingState = "STOPPED"
  /\ progressBar = FALSE
  /\ errorView = FALSE
  /\ pageView = TRUE

WebReopened ==
  /\ loadingState' = "STOPPED"
  /\ progressBar' = FALSE
  /\ errorView' = FALSE
  /\ pageView' = TRUE

(* A page that starts before the last one has finished is not announced.   *)
PageAnnounced == loadingState = "STOPPED"

onPageStarted ==
  \/ /\ PageAnnounced
     /\ loadingState' = "LOADING"
     /\ progressBar' = TRUE
     /\ errorView' = FALSE
     /\ UNCHANGED pageView
  \/ /\ ~PageAnnounced
     /\ UNCHANGED web

(* Faulty variant: the end of a page hides the error it has failed with.   *)
FinishedUnasked ==
  /\ loadingState' = "STOPPED"
  /\ progressBar' = FALSE
  /\ errorView' = FALSE
  /\ pageView' = TRUE

(* The end of a page that has failed is not announced either.              *)
onPageFinished ==
  /\ loadingState' = "STOPPED"
  /\ \/ /\ loadingState = "LOADING"
        /\ progressBar' = FALSE
        /\ errorView' = FALSE
        /\ pageView' = TRUE
     \/ /\ loadingState # "LOADING"
        /\ UNCHANGED <<progressBar, errorView, pageView>>

onReceivedError ==
  /\ loadingState' = "ERROR"
  /\ progressBar' = FALSE
  /\ errorView' = TRUE
  /\ pageView' = FALSE

(* The dialog only cancels the load.                                       *)
onReceivedSslError ==
  /\ loadingState' = "ERROR"
  /\ progressBar' = FALSE
  /\ UNCHANGED <<errorView, pageView>>

(* Most of the page has been loaded.                                       *)
onProgressChanged ==
  /\ pageView' = TRUE
  /\ UNCHANGED <<loadingState, progressBar, errorView>>

PageCallback ==
  onPageFinished \/ onReceivedError \/ onReceivedSslError \/ onProgressChanged
=============================================================================

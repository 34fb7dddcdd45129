-------------------------- MODULE CardFormScreen ---------------------------
(***************************************************************************)
(* The card form screen: CardFormScreenViewModel together with what        *)
(* PayjpCardFormActivity does to it and shows of it.  One screen is        *)
(* followed from its creation to its end, through being stopped and        *)
(* started again and through the death and restoration of its process.     *)
(*                                                                         *)
(* Everything here runs on the main thread; what is concurrent is what the *)
(* screen waits for: the network (accepted brands, token creation and the  *)
(* completion of 3-D Secure), the application's background handler, the    *)
(* verification in the browser, the user and the system.  The token        *)
(* operation status is that of TokenStatus: view model tasks are the       *)
(* requests.                                                               *)
(***************************************************************************)
EXTENDS Naturals

CONSTANTS
  HasHandler, (* whether the application set a PayjpTokenBackgroundHandler  *)
  Death,      (* when the process may be killed                             *)
  MaxTasks,   (* bound: token tasks and handler calls of the screen         *)
  MaxStops    (* bound: times the activity is stopped                       *)

(***************************************************************************)
(* The process of a stopped activity may be killed "never"; "quiet": when  *)
(* no token task or handler call is going on and none has ended since the  *)
(* state was saved; or at "any" time.                                      *)
(***************************************************************************)
ASSUME HandlerAssumption == HasHandler \in BOOLEAN
ASSUME DeathAssumption   == Death \in {"never", "quiet", "any"}
ASSUME BoundsAssumption  == MaxTasks \in Nat /\ MaxStops \in Nat

VARIABLES
  life,        (* the activity and its process                              *)
  processing,  (* tokenizeProcessing                                        *)
  brands,      (* acceptedBrands is set                                     *)
  fetching,    (* fetchBrandsProcessing                                     *)
  fetchTask,   (* fetchAcceptedBrandsTask is going on                       *)
  view,        (* which of the loading, content and error views are VISIBLE *)
  reloadable,  (* reloadContentButtonVisibility is VISIBLE                  *)
  commands,    (* one-off LiveData (and success) that hold a value          *)
  fragment,    (* the card form fragment has been added                     *)
  tasks,       (* token tasks and handler calls that are going on           *)
  started,     (* number of those ever started                              *)
  verifying,   (* the 3-D Secure activity is open on top                    *)
  saved,       (* the activity's saved instance state                       *)
  stops,       (* number of times the activity has been stopped             *)
  status,      (* the token operation status                                *)
  owed,        (* a request has started that the status has not shown       *)
  asked,       (* history: errors to show and verifications to start        *)
  served       (* history: dialogs shown and verifications started          *)

vm      == <<processing, brands, fetching, view, reloadable, commands>>
history == <<asked, served>>
vars == <<life, vm, fetchTask, fragment, tasks, started, verifying, saved, stops, status,
          owed, history>>

(***************************************************************************)
(* "stopped" is also the state before the first onStart; "finishing": the  *)
(* activity has called finish() and still exists; "dead": the process has  *)
(* been killed and the saved state is kept; "gone": destroyed.             *)
(***************************************************************************)
Life == {"stopped", "started", "finishing", "dead", "gone"}

View == {{"loading"}, {"content"}, {"error"}}

Command == {"addCardForm", "errorDialog", "success", "startVerify"}

(* A task: its number, and whether it is createToken, the completion of    *)
(* 3-D Secure, or the background handler's call.                           *)
Task == [n: 1 .. MaxTasks, kind: {"create", "finish", "handler"}]

(* What SavedStateHandle and the fragment manager keep.                    *)
Snapshot == [processing: BOOLEAN, brands: BOOLEAN, view: View,
             reloadable: BOOLEAN, commands: SUBSET Command, fragment: BOOLEAN]

Counts == [{"errorDialog", "startVerify"} -> Nat]

InFlight == \E t \in tasks : t.kind \in {"create", "finish"}

Observer == INSTANCE TokenStatus WITH inFlight <- InFlight

-----------------------------------------------------------------------------
(* LiveData: a value set while the activity is started is given to its     *)
(* observers at once, otherwise when it next starts.  An activity that is  *)
(* finishing may have been stopped already.                                *)

Active == life \in {"started", "finishing"}

Alive == life \in {"stopped", "started", "finishing"}

(* Faulty variant: the error is not acknowledged.                          *)
AcknowledgedButErrors(C) == C \ {"addCardForm", "startVerify"}

(* Values the activity's observers set back to null once they have acted.  *)
Acknowledged(C) == C \ {"addCardForm", "errorDialog", "startVerify"}

(* The observers act on the commands in C.                                 *)
Deliver(C) ==
  /\ commands'  = Acknowledged(C)
  /\ fragment'  = (fragment \/ "addCardForm" \in C)
  /\ verifying' = (verifying \/ "startVerify" \in C)
  /\ served'    = [c \in DOMAIN served |-> IF c \in C THEN served[c] + 1 ELSE served[c]]
  /\ life'      = IF "success" \in C THEN "finishing"
                  ELSE IF life = "stopped" THEN "started" ELSE life

(* The view model sets the commands in new.                                *)
Emit(new) ==
  /\ asked' = [c \in DOMAIN asked |-> IF c \in new THEN asked[c] + 1 ELSE asked[c]]
  /\ \/ Active /\ Deliver(commands \cup new)
     \/ life # "started" /\ commands' = commands \cup new
        /\ UNCHANGED <<life, fragment, verifying, served>>

-----------------------------------------------------------------------------
(* The accepted brands.                                                    *)

(* fetchAcceptedBrands                                                     *)
FetchAcceptedBrands ==
  \/ /\ ~brands /\ ~fetching
     /\ fetching' = TRUE
     /\ fetchTask' = TRUE
     /\ view' = {"loading"}
     /\ UNCHANGED <<brands, reloadable>>
  \/ /\ brands \/ fetching
     /\ UNCHANGED <<fetching, fetchTask, view, brands, reloadable>>

(* Faulty variant: the loading view stays.                                 *)
BrandsFetchedOverlay ==
  /\ fetchTask /\ Alive
  /\ fetchTask' = FALSE
  /\ brands' = TRUE
  /\ view' = view \cup {"content"}
  /\ fetching' = FALSE
  /\ Emit({"addCardForm"})
  /\ UNCHANGED <<processing, reloadable, tasks, started, saved, stops, status, owed>>

BrandsFetched ==
  /\ fetchTask /\ Alive
  /\ fetchTask' = FALSE
  /\ brands' = TRUE
  /\ view' = {"content"}
  /\ fetching' = FALSE
  /\ Emit({"addCardForm"})
  /\ UNCHANGED <<processing, reloadable, tasks, started, saved, stops, status, owed>>

(* The reload button is offered for an IOException only.                   *)
BrandsFailed ==
  /\ fetchTask /\ Alive
  /\ fetchTask' = FALSE
  /\ reloadable' \in BOOLEAN
  /\ view' = {"error"}
  /\ fetching' = FALSE
  /\ UNCHANGED <<life, processing, brands, commands, fragment, tasks, started,
                 verifying, saved, stops, status, owed, history>>

(* onClickReload                                                           *)
Reload ==
  /\ Active /\ view = {"error"} /\ reloadable
  /\ FetchAcceptedBrands
  /\ UNCHANGED <<life, processing, commands, fragment, tasks, started, verifying,
                 saved, stops, status, owed, history>>

-----------------------------------------------------------------------------
(* Tokens.                                                                 *)

Begin(kind) ==
  /\ started < MaxTasks
  /\ started' = started + 1
  /\ tasks' = tasks \cup {[n |-> started + 1, kind |-> kind]}

(* onCreateToken: a new task is enqueued unless one is being processed.    *)
CreateToken ==
  /\ ~processing
  /\ processing' = TRUE
  /\ Begin("create")
  /\ owed' = TRUE
  /\ UNCHANGED <<life, brands, fetching, fetchTask, view, reloadable, commands, fragment,
                 verifying, saved, stops, status, history>>

SubmitButtonVisible ==
  /\ "success" \notin commands
  /\ ~processing
  /\ status = "ACCEPTABLE"

(* The submit button is in the content view and disabled while the form is *)
(* not valid; here the form is.                                            *)
ClickSubmit ==
  /\ Active /\ view = {"content"} /\ fragment
  /\ SubmitButtonVisible
  /\ CreateToken

(* The keyboard's done key on the last field submits as well, whatever the *)
(* submit button looks like.                                               *)
EditorActionDone ==
  /\ Active /\ view = {"content"} /\ fragment
  /\ CreateToken

(* The callbacks of a token task and of the handler.  A token that is      *)
(* still unverified is sent to 3-D Secure; any other goes to the handler,  *)
(* if there is one.                                                        *)
TokenUnverified(t) ==
  /\ t.kind \in {"create", "finish"}
  /\ tasks' = tasks \ {t}
  /\ Emit({"startVerify"})
  /\ UNCHANGED <<processing, started>>

(* Faulty variant: the form can be submitted while the handler runs.       *)
TokenPostedUnlocked(t) ==
  /\ t.kind \in {"create", "finish"}
  /\ HasHandler
  /\ started < MaxTasks
  /\ started' = started + 1
  /\ tasks' = (tasks \ {t}) \cup {[n |-> started + 1, kind |-> "handler"]}
  /\ processing' = FALSE
  /\ UNCHANGED <<life, commands, fragment, verifying, history>>

TokenPosted(t) ==
  /\ t.kind \in {"create", "finish"}
  /\ HasHandler
  /\ started < MaxTasks
  /\ started' = started + 1
  /\ tasks' = (tasks \ {t}) \cup {[n |-> started + 1, kind |-> "handler"]}
  /\ UNCHANGED <<life, processing, commands, fragment, verifying, history>>

(* The token is complete: without a handler, or when the handler's status  *)
(* is Complete.                                                            *)
TokenComplete(t) ==
  /\ t.kind \in {"create", "finish"} => ~HasHandler
  /\ tasks' = tasks \ {t}
  /\ Emit({"success"})
  /\ processing' = FALSE
  /\ UNCHANGED started

(* Faulty variant: the form stays locked after an error.                   *)
TokenErrorLocked(t) ==
  /\ tasks' = tasks \ {t}
  /\ Emit({"errorDialog"})
  /\ UNCHANGED <<processing, started>>

(* The task failed, or the handler's status is Error.                      *)
TokenError(t) ==
  /\ tasks' = tasks \ {t}
  /\ Emit({"errorDialog"})
  /\ processing' = FALSE
  /\ UNCHANGED started

(* Faulty variant: a stopped screen takes no notice.                       *)
CallbackWhenStarted(t) ==
  /\ Active
  /\ TokenUnverified(t) \/ TokenPosted(t) \/ TokenComplete(t) \/ TokenError(t)
  /\ UNCHANGED <<brands, fetching, fetchTask, view, reloadable, saved, stops, status,
                 owed>>

Callback(t) ==
  /\ Alive
  /\ TokenUnverified(t) \/ TokenPosted(t) \/ TokenComplete(t) \/ TokenError(t)
  /\ UNCHANGED <<brands, fetching, fetchTask, view, reloadable, saved, stops, status,
                 owed>>

(* The result of the 3-D Secure activity: handleThreeDSecureResult in      *)
(* onActivityResult, after onStart.                                        *)
VerifySucceeded ==
  /\ life = "started" /\ verifying
  /\ verifying' = FALSE
  /\ processing' = TRUE
  /\ Begin("finish")
  /\ owed' = TRUE
  /\ UNCHANGED <<life, brands, fetching, fetchTask, view, reloadable, commands, fragment,
                 saved, stops, status, history>>

(* Faulty variant: the form is left as it was.                             *)
VerifyCanceledLocked ==
  /\ life = "started" /\ verifying
  /\ verifying' = FALSE
  /\ UNCHANGED <<life, processing, brands, fetching, fetchTask, view, reloadable, commands,
                 fragment, tasks, started, saved, stops, status, owed, history>>

VerifyCanceled ==
  /\ life = "started" /\ verifying
  /\ verifying' = FALSE
  /\ processing' = FALSE
  /\ UNCHANGED <<life, brands, fetching, fetchTask, view, reloadable, commands, fragment,
                 tasks, started, saved, stops, status, owed, history>>

-----------------------------------------------------------------------------
(* The activity and its process.                                           *)

(* onStart of the activity starts the view model and its observers.        *)
Start ==
  /\ life = "stopped"
  /\ FetchAcceptedBrands
  /\ Deliver(commands)
  /\ UNCHANGED <<processing, tasks, started, saved, stops, status, owed, asked>>

Saved == [processing |-> processing, brands |-> brands, view |-> view,
          reloadable |-> reloadable, commands |-> commands, fragment |-> fragment]

Stop ==
  /\ life = "started"
  /\ stops < MaxStops
  /\ stops' = stops + 1
  /\ life' = "stopped"
  /\ saved' = Saved
  /\ UNCHANGED <<vm, fetchTask, fragment, tasks, started, verifying, status, owed, history>>

(* The user leaves, by the back key or the arrow in the tool bar.          *)
Leave ==
  /\ life = "started" /\ ~verifying
  /\ life' = "finishing"
  /\ UNCHANGED <<vm, fetchTask, fragment, tasks, started, verifying, saved, stops, status,
                 owed, history>>

(* onDestroy clears the view model, which cancels what is going on.        *)
Destroy ==
  /\ life = "finishing"
  /\ life' = "gone"
  /\ tasks' = {}
  /\ fetchTask' = FALSE
  /\ UNCHANGED <<processing, brands, fetching, view, reloadable, commands, fragment, started,
                 verifying, saved, stops, status, owed, history>>

Quiet == tasks = {} /\ processing = saved.processing
         /\ commands \subseteq saved.commands \cup {"addCardForm"}

Kill ==
  /\ life = "stopped"
  /\ Death = "any" \/ (Death = "quiet" /\ Quiet)
  /\ life' = "dead"
  /\ tasks' = {}
  /\ fetchTask' = FALSE
  /\ status' = "ACCEPTABLE" /\ owed' = FALSE
  /\ UNCHANGED <<vm, fragment, started, verifying, saved, stops, history>>

(* Faulty variant: fetchBrandsProcessing is part of the saved state.       *)
RestoreFetching ==
  /\ life = "dead"
  /\ life' = "stopped"
  /\ processing' = saved.processing
  /\ brands' = saved.brands
  /\ view' = saved.view
  /\ reloadable' = saved.reloadable
  /\ commands' = saved.commands
  /\ fragment' = saved.fragment
  /\ UNCHANGED <<fetching, fetchTask, tasks, started, verifying, saved, stops, status, owed,
                 history>>

(* The user comes back: a new process, activity and view model take up the *)
(* saved state; the tasks and fetchBrandsProcessing are not part of it.    *)
Restore ==
  /\ life = "dead"
  /\ life' = "stopped"
  /\ processing' = saved.processing
  /\ brands' = saved.brands
  /\ view' = saved.view
  /\ reloadable' = saved.reloadable
  /\ commands' = saved.commands
  /\ fragment' = saved.fragment
  /\ fetching' = FALSE
  /\ UNCHANGED <<fetchTask, tasks, started, verifying, saved, stops, status, owed, history>>

(* The token operation status goes its way.                                *)
StatusShown ==
  /\ life \notin {"dead", "gone"}
  /\ UNCHANGED <<life, vm, fetchTask, fragment, tasks, started, verifying, saved,
                 stops, history>>
  /\ Observer!ShowRunning \/ Observer!ShowThrottled \/ Observer!ShowAcceptable

-----------------------------------------------------------------------------
Init ==
  /\ life = "stopped"
  /\ processing = FALSE
  /\ brands = FALSE
  /\ fetching = FALSE
  /\ fetchTask = FALSE
  /\ view = {"loading"}
  /\ reloadable = TRUE
  /\ commands = {}
  /\ fragment = FALSE
  /\ tasks = {}
  /\ started = 0
  /\ verifying = FALSE
  /\ saved = Saved
  /\ stops = 0
  /\ status = "ACCEPTABLE"
  /\ owed = FALSE
  /\ asked = [c \in {"errorDialog", "startVerify"} |-> 0]
  /\ served = asked

Next ==
  \/ BrandsFetched \/ BrandsFailed \/ Reload
  \/ ClickSubmit \/ EditorActionDone
  \/ \E t \in tasks : Callback(t)
  \/ VerifySucceeded \/ VerifyCanceled
  \/ Start \/ Stop \/ Leave \/ Destroy \/ Kill \/ Restore
  \/ StatusShown

(* The network answers or times out.  The user need not do anything, and   *)
(* the application's handler need not return.                              *)
Fairness == WF_vars(\E t \in tasks : t.kind # "handler" /\ Callback(t))

Spec == Init /\ [][Next]_vars /\ Fairness

-----------------------------------------------------------------------------
(* Every variable stays in its set; one of the three views is visible.     *)
TypeOK ==
  /\ life \in Life
  /\ processing \in BOOLEAN /\ brands \in BOOLEAN
  /\ fetching \in BOOLEAN /\ fetchTask \in BOOLEAN
  /\ view \in View
  /\ reloadable \in BOOLEAN /\ fragment \in BOOLEAN /\ verifying \in BOOLEAN
  /\ commands \subseteq Command
  /\ tasks \subseteq Task
  /\ started \in 0 .. MaxTasks
  /\ saved \in Snapshot
  /\ stops \in 0 .. MaxStops
  /\ status \in {"ACCEPTABLE", "RUNNING", "THROTTLED"}
  /\ owed \in BOOLEAN
  /\ asked \in Counts /\ served \in Counts

(* One token operation at a time: a task, the handler's call or a          *)
(* verification, never two of them, and the form is locked meanwhile.      *)
OneOperation ==
  life \in {"started", "stopped"} =>
    /\ \A t, u \in tasks : t = u
    /\ verifying \/ "startVerify" \in commands => tasks = {}
    /\ tasks # {} \/ verifying \/ "startVerify" \in commands => processing

(* The form is locked only while something goes on that will unlock it     *)
(* ("UI should accept user's request to create token" otherwise).          *)
LockedForAReason ==
  life \in {"started", "stopped"} /\ processing =>
    tasks # {} \/ verifying \/ "startVerify" \in commands

(* A started screen shows the loading view while it waits for the brands;  *)
(* the content view comes with the brands and has the form in it.          *)
ViewIsTrue ==
  life = "started" =>
    /\ view = {"loading"} <=> fetchTask
    /\ view = {"content"} <=> brands
    /\ brands => fragment

(* No error and no verification is lost or repeated, however often the     *)
(* activity is stopped, restarted or restored.                             *)
ServedOnce ==
  life \in {"started", "stopped"} =>
    \A c \in DOMAIN asked :
      asked[c] = served[c] + (IF c \in commands THEN 1 ELSE 0)

(* A locked form is unlocked by what the network answers, unless the       *)
(* answer is to verify the card or to call the application's handler.      *)
FormUnlocks ==
  processing ~> \/ ~processing
                \/ verifying \/ "startVerify" \in commands
                \/ \E t \in tasks : t.kind = "handler"
                \/ life \in {"dead", "gone"}

(* "The request has completed, but UI should not accept a new submission   *)
(* for a moment": the screen in front begins no token creation while the   *)
(* status is THROTTLED.                                                    *)
NoSubmissionWhileThrottled ==
  [][life = "started" /\ (\E t \in tasks' \ tasks : t.kind = "create")
       => status # "THROTTLED"]_vars
=============================================================================

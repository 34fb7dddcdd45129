----------------------- MODULE TokenHandlerExecutor ------------------------
(***************************************************************************)
(* TokenHandlerExecutorImpl: it runs the application's                     *)
(* PayjpTokenBackgroundHandler on a background thread for each token a     *)
(* card form screen has created, and gives the status the handler returns  *)
(* to the screen's callback on the main thread.                            *)
(*                                                                         *)
(* The executor is one object for the whole process (PayjpCardForm keeps   *)
(* it), and it remembers one callback and one future: those of the latest  *)
(* post.  Its clients are the screens' view models, each of which posts at *)
(* most one token at a time (tokenizeProcessing) and cancels when it is    *)
(* cleared.  post and cancel run on the main thread, as the callbacks do.  *)
(***************************************************************************)
EXTENDS Naturals, Sequences

CONSTANTS
  Post,    (* calls of post, with the callback and the future of each       *)
  Screen,  (* card form screens (CardFormScreenViewModel objects)           *)
  None,    (* null                                                          *)
  Reopen   (* how soon a screen may follow another                          *)

(***************************************************************************)
(* "drained": when the earlier screens are cleared and nothing they posted *)
(* is left in the executors; "cleared": when they are cleared; "any": at   *)
(* any time (Android may destroy a finished activity long after the next   *)
(* one is created).                                                        *)
(***************************************************************************)
ASSUME NoneAssumption   == None \notin Post \cup Screen
ASSUME ReopenAssumption == Reopen \in {"drained", "cleared", "any"}

VARIABLES
  screen,          (* life of each screen's view model                      *)
  owner,           (* the screen that made each post                        *)
  pendingCallback, (* TokenHandlerExecutorImpl.pendingCallback              *)
  currentFuture,   (* TokenHandlerExecutorImpl.currentFuture                *)
  future,          (* progress of each post's future                        *)
  cancelled,       (* futures for which isCancelled holds                   *)
  jobs,            (* backgroundExecutor: its queue, the running job first  *)
  callbacks,       (* callbackExecutor: posts whose status is to be given   *)
  gets,            (* futureExecutor: number of Future.get jobs queued      *)
  watched,         (* futureExecutor: the future its thread waits for       *)
  crashed,         (* an uncaught exception has ended the process           *)
  delivered        (* history: whose statuses each callback was given       *)

vars == <<screen, owner, pendingCallback, currentFuture, future, cancelled,
          jobs, callbacks, gets, watched, crashed, delivered>>

(***************************************************************************)
(* A future is "none" until it is submitted, "queued" until its job        *)
(* begins, "handling" inside handleTokenInBackground, "returned" between   *)
(* that and callbackExecutor.execute; then it is over: "done", or "threw"  *)
(* if the handler failed, or "dropped" if it was cancelled before it began.*)
(***************************************************************************)
FutureState == {"none", "queued", "handling", "returned", "done", "threw", "dropped"}

IsDone(p) == p \in cancelled \/ future[p] \in {"done", "threw", "dropped"}

Live == {s \in Screen : screen[s] = "live"}

(* Faulty variant: a screen waits for its handler's call only.             *)
AwaitingHandler(s) == \E p \in Post : owner[p] = s /\ future[p] \in {"queued", "handling"}

(* The screen has a post whose callback has not been called: its           *)
(* tokenizeProcessing is still true.                                       *)
Awaiting(s) == \E p \in Post : owner[p] = s /\ delivered[p] = <<>>

-----------------------------------------------------------------------------
(* The screens.                                                            *)

Open(s) ==
  /\ ~crashed
  /\ screen[s] = "new"
  /\ Reopen \in {"drained", "cleared"} => Live = {}
  /\ Reopen = "drained" => jobs = <<>> /\ callbacks = <<>>
  /\ screen' = [screen EXCEPT ![s] = "live"]
  /\ UNCHANGED <<owner, pendingCallback, currentFuture, future, cancelled, jobs,
                 callbacks, gets, watched, crashed, delivered>>

(* post: remember the callback, submit the handler's job, have its future  *)
(* watched.                                                                *)
PostToken(s, p) ==
  /\ ~crashed
  /\ screen[s] = "live"
  /\ ~Awaiting(s)
  /\ future[p] = "none"
  /\ owner' = [owner EXCEPT ![p] = s]
  /\ pendingCallback' = p
  /\ future' = [future EXCEPT ![p] = "queued"]
  /\ jobs' = Append(jobs, p)
  /\ currentFuture' = p
  /\ gets' = gets + 1
  /\ UNCHANGED <<screen, cancelled, callbacks, watched, crashed, delivered>>

(* Faulty variant: the callback is kept.                                   *)
CancelFutureOnly(s) ==
  /\ ~crashed
  /\ screen[s] = "live"
  /\ screen' = [screen EXCEPT ![s] = "cleared"]
  /\ cancelled' = IF currentFuture # None /\ ~IsDone(currentFuture)
                  THEN cancelled \cup {currentFuture} ELSE cancelled
  /\ UNCHANGED <<owner, pendingCallback, currentFuture, future, jobs, callbacks,
                 gets, watched, crashed, delivered>>

(* Faulty variant: the future is not cancelled.                            *)
ForgetCallbackOnly(s) ==
  /\ ~crashed
  /\ screen[s] = "live"
  /\ screen' = [screen EXCEPT ![s] = "cleared"]
  /\ pendingCallback' = None
  /\ UNCHANGED <<owner, currentFuture, future, cancelled, jobs, callbacks, gets,
                 watched, crashed, delivered>>

(* Faulty variant: there need not be a future to cancel.                   *)
CancelUnchecked(s) ==
  /\ ~crashed
  /\ screen[s] = "live"
  /\ screen' = [screen EXCEPT ![s] = "cleared"]
  /\ cancelled' = cancelled \cup {currentFuture}
  /\ pendingCallback' = None
  /\ UNCHANGED <<owner, currentFuture, future, jobs, callbacks, gets, watched,
                 crashed, delivered>>

(* onCleared calls cancel, whether or not the screen has posted: it        *)
(* cancels the latest post's future and forgets the callback.              *)
Cancel(s) ==
  /\ ~crashed
  /\ screen[s] = "live"
  /\ screen' = [screen EXCEPT ![s] = "cleared"]
  /\ cancelled' = IF currentFuture # None /\ ~IsDone(currentFuture)
                  THEN cancelled \cup {currentFuture} ELSE cancelled
  /\ pendingCallback' = None
  /\ UNCHANGED <<owner, currentFuture, future, jobs, callbacks, gets, watched,
                 crashed, delivered>>

-----------------------------------------------------------------------------
(* backgroundExecutor: one thread, first in first out.                     *)

(* A future cancelled before its job begins does not run the handler.      *)
Begin(p) ==
  /\ ~crashed
  /\ jobs # <<>> /\ p = Head(jobs)
  /\ future[p] = "queued"
  /\ \/ /\ p \notin cancelled
        /\ future' = [future EXCEPT ![p] = "handling"]
        /\ UNCHANGED jobs
     \/ /\ p \in cancelled
        /\ future' = [future EXCEPT ![p] = "dropped"]
        /\ jobs' = Tail(jobs)
  /\ UNCHANGED <<screen, owner, pendingCallback, currentFuture, cancelled,
                 callbacks, gets, watched, crashed, delivered>>

(* The application's handler returns a status, possibly in spite of the    *)
(* interrupt a cancellation sends it.                                      *)
HandlerReturns(p) ==
  /\ ~crashed
  /\ future[p] = "handling"
  /\ future' = [future EXCEPT ![p] = "returned"]
  /\ UNCHANGED <<screen, owner, pendingCallback, currentFuture, cancelled, jobs,
                 callbacks, gets, watched, crashed, delivered>>

(* It throws: because of the interrupt or for a reason of its own.         *)
HandlerThrows(p) ==
  /\ ~crashed
  /\ future[p] = "handling"
  /\ future' = [future EXCEPT ![p] = "threw"]
  /\ jobs' = Tail(jobs)
  /\ UNCHANGED <<screen, owner, pendingCallback, currentFuture, cancelled,
                 callbacks, gets, watched, crashed, delivered>>

(* The job hands its status to callbackExecutor, cancelled or not.         *)
ExecuteCallback(p) ==
  /\ ~crashed
  /\ future[p] = "returned"
  /\ callbacks' = Append(callbacks, p)
  /\ future' = [future EXCEPT ![p] = "done"]
  /\ jobs' = Tail(jobs)
  /\ UNCHANGED <<screen, owner, pendingCallback, currentFuture, cancelled, gets,
                 watched, crashed, delivered>>

-----------------------------------------------------------------------------
(* callbackExecutor: the main thread.                                      *)

(* The status goes to whatever callback is pending by now.                 *)
RunCallback ==
  /\ ~crashed
  /\ callbacks # <<>>
  /\ callbacks' = Tail(callbacks)
  /\ delivered' = IF pendingCallback = None THEN delivered
                  ELSE [delivered EXCEPT ![pendingCallback] = Append(@, Head(callbacks))]
  /\ pendingCallback' = None
  /\ UNCHANGED <<screen, owner, currentFuture, future, cancelled, jobs, gets,
                 watched, crashed>>

-----------------------------------------------------------------------------
(* futureExecutor: one thread, which waits for futures so that what a      *)
(* handler throws is not lost.                                             *)

(* The job looks at the future that is current when it begins.             *)
BeginGet ==
  /\ ~crashed
  /\ gets > 0 /\ watched = None
  /\ gets' = gets - 1
  /\ watched' = IF currentFuture \in cancelled THEN None ELSE currentFuture
  /\ UNCHANGED <<screen, owner, pendingCallback, currentFuture, future, cancelled,
                 jobs, callbacks, crashed, delivered>>

(* Faulty variant: whatever get throws is logged.                          *)
EndGetQuietly ==
  /\ ~crashed
  /\ watched # None /\ IsDone(watched)
  /\ watched' = None
  /\ UNCHANGED <<screen, owner, pendingCallback, currentFuture, future, cancelled,
                 jobs, callbacks, gets, crashed, delivered>>

(* get returns when the future is done; a cancellation is logged, another  *)
(* exception is thrown again and nothing catches it.                       *)
EndGet ==
  /\ ~crashed
  /\ watched # None /\ IsDone(watched)
  /\ watched' = None
  /\ crashed' = (future[watched] = "threw" /\ watched \notin cancelled)
  /\ UNCHANGED <<screen, owner, pendingCallback, currentFuture, future, cancelled,
                 jobs, callbacks, gets, delivered>>

-----------------------------------------------------------------------------
Init ==
  /\ screen = [s \in Screen |-> "new"]
  /\ owner = [p \in Post |-> None]
  /\ pendingCallback = None
  /\ currentFuture = None
  /\ future = [p \in Post |-> "none"]
  /\ cancelled = {}
  /\ jobs = <<>>
  /\ callbacks = <<>>
  /\ gets = 0
  /\ watched = None
  /\ crashed = FALSE
  /\ delivered = [p \in Post |-> <<>>]

Next ==
  \/ \E s \in Screen : Open(s) \/ Cancel(s)
  \/ \E s \in Screen, p \in Post : PostToken(s, p)
  \/ \E p \in Post : \/ Begin(p) \/ HandlerReturns(p) \/ HandlerThrows(p)
                     \/ ExecuteCallback(p)
  \/ RunCallback
  \/ BeginGet
  \/ EndGet

(* The three executors keep running.  Users need not open, submit or leave *)
(* a form, and a handler need not return.                                  *)
Fairness ==
  /\ \A p \in Post : WF_vars(Begin(p) \/ ExecuteCallback(p))
  /\ WF_vars(RunCallback)
  /\ WF_vars(BeginGet \/ EndGet)

Spec == Init /\ [][Next]_vars /\ Fairness

-----------------------------------------------------------------------------
OwnerIs(p, state) == \E s \in Screen : owner[p] = s /\ screen[s] = state

(* Every variable stays in its set.                                        *)
TypeOK ==
  /\ screen \in [Screen -> {"new", "live", "cleared"}]
  /\ owner \in [Post -> Screen \cup {None}]
  /\ pendingCallback \in Post \cup {None}
  /\ currentFuture \in Post \cup {None}
  /\ future \in [Post -> FutureState]
  /\ cancelled \subseteq Post
  /\ jobs \in Seq(Post)
  /\ callbacks \in Seq(Post)
  /\ gets \in Nat
  /\ watched \in Post \cup {None}
  /\ crashed \in BOOLEAN
  /\ delivered \in [Post -> Seq(Post)]

(* The callback of a post is called at most once, and with the status its  *)
(* own handler call returned.                                              *)
OwnStatus == \A p \in Post : delivered[p] \in {<<>>, <<p>>}

(* "The callback should not be invoked after cancelled": a screen that has *)
(* been cleared is not called back.                                        *)
NoCallbackAfterCancel ==
  [][\A p \in Post : delivered'[p] # delivered[p] => OwnerIs(p, "live")]_vars

(* A handler is not started for a screen that has been cleared.            *)
NoHandlerAfterCancel ==
  [][\A p \in Post : future[p] = "queued" /\ future'[p] = "handling"
                       => OwnerIs(p, "live")]_vars

(* What the handler did is not lost: its status reaches the screen or its  *)
(* exception ends the process, unless the screen is cleared first.         *)
OutcomeReported ==
  \A p \in Post : future[p] \in {"returned", "threw"} ~>
    \/ delivered[p] # <<>>
    \/ crashed
    \/ OwnerIs(p, "cleared")
=============================================================================

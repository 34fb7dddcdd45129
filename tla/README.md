# PAY.JP Android SDK: a TLA+ model

TLA+ modules, TLC configurations and TLAPS proofs about the PAY.JP Android SDK
(`src/`): the code an application embeds to turn a card number into a token.
Paths below are relative to `src/`; `core`, `cardform` and `verifier` stand for
`payjp-android-core`, `payjp-android-cardform` and `payjp-android-verifier`.

The algorithms of the SDK are small. What is hard in it is that a handful of
main-thread objects (a status, view models, an executor, a static holder) are
written by callbacks of threads, of a server, of a browser and of the Android
system, which come in orders no unit test of the repository tries, and that a
user edits formatted text anywhere. The models are about those orders and those
edits.

## 1. Inventory

| component | state | operations | what is hard | what makes it correct |
|---|---|---|---|---|
| **Token operation status** (`core/PayjpTokenOperationObserver.kt`, `PayjpTokenOperationStatus.kt`) | `status`, three runnables in the main looper's queue, `listeners` | `startRequest`, `completeRequest`, the status setter, `addListener`, `removeListener`, `removeAllListeners` | each call is several `Handler` calls without a lock, from any thread; delayed runnables of one request are still queued when the next starts; listeners are told by a further post | RUNNING while a request runs, THROTTLED for the whole duration, ACCEPTABLE in the end; listeners agree with the status |
| **Token service** (`core/PayjpToken.kt`) | the observer, the API client | `createToken`, `getToken`, `getAcceptedBrands`, `finishTokenThreeDSecure`; `wrapWithObserver` | the gate (`checkTokenOperationStatus`) is read before the request starts | start and complete are called in pairs; the client's callback follows completion |
| **Tasks and HTTP calls** (`core/Task.kt`, `util/Tasks.kt`, `network/ResultCall.kt`) | executed and cancelled flags of a call | `run`, `enqueue`, `cancel`, error conversion | cancel races the answer; a conversion that throws inside the callback executor; a second execution | exactly one callback, on the callback executor; API errors become the right exception |
| **Background handler executor** (`cardform/TokenHandlerExecutorImpl.kt`) | `pendingCallback`, `currentFuture`, the queues of three executors | `post`, `cancel` | one process-wide object for all screens; cancel races the handler's return; exceptions travel through a second thread | each callback gets its own handler's status, at most once, never after cancel; an exception is not lost |
| **Card form screen** (`cardform/ui/CardFormScreenViewModel.kt`, `PayjpCardFormActivity.kt`) | `tokenizeProcessing`, `acceptedBrands`, `fetchBrandsProcessing`, the visibilities, one-off commands, most of it in a `SavedStateHandle` | fetch of brands, submission, callbacks, verification result, start, stop, destruction, restoration | LiveData given to stopped observers late; process death between any two steps; a token passes through up to four asynchronous stages | one operation at a time; the form is locked exactly while one goes on; nothing is shown twice or lost; one true view |
| **Card form configuration** (`cardform/PayjpCardForm.kt`) and **SDK entry point** (`payjp-android-main/.../Payjp.kt`) | singletons | `configure`, `start`, accessors | none: set once by `Payjp.init` | they make the executor and the observer process-wide, which the two models above take over |
| **Card form input view model** (`cardform/ui/widget/CardFormViewModel.kt`, `PayjpCardFormAbstractFragment.kt`) | the typed inputs, how each was judged, which errors are shown, country, brand, accepted brands, primary element | one `input...` per field, `selectCountryCode`, `validate`, `fetchAcceptedBrands`, `createToken`, `onCleared` | accepted brands arrive after the number was judged, or fail, while stopped or not; the CVC is judged for a brand and the phone number for a country that change afterwards | the form is valid exactly if what was typed last is complete; it shows the errors it should; it moves on to a field that needs input |
| **Fragments and widgets** (`cardform/ui/widget/`) | views, focus, texts that are restored, `Debouncer` | layout, start, restoration | a text is restored before the watcher knows its brand | what is restored has the same digits |
| **Validators, transformers, text watchers** (`cardform/validator/`, `ui/widget/*FormatTextWatcher.kt`) | none, or the text, its cursor and its brand | brand detection, length and check digit, expiration, formatting | digits and boundaries; edits of, at and between delimiters; a change that changes the brand; years across the end of a century | no digit is lost or moved, the text fits its own brand, the cursor stays behind its digit; mistyped numbers and past months are rejected |
| **3-D Secure flow** (`verifier/PayjpVerifier.kt`, `ui/PayjpThreeDSecureStepActivity.kt`) | the static `intentHolder`, the step activity's resource, saved or not | start, browser opened, redirect, closed, result taken | a static holder between two activities; process death; a result nobody takes | every flow ends with its own result, once; the form waits exactly while one goes on |
| **Verification web view** (`verifier/ui/VerifierWebView.kt`, `PayjpWebActivity.kt`, `WebViewLoadingDelegate.kt`) | loading and error state, three views | page callbacks, the callback URL | page callbacks in odd orders | progress is shown exactly while a page loads, an error until the next page |
| **Client info header** (`core/network/CustomHeaderInterceptor.kt`, `model/ClientInfo.kt`) | the card form type on one shared interceptor | set in `onCreate`, reset in `onDestroy` | `onDestroy` of one activity follows `onCreate` of the next | requests of a form carry its type |
| **JSON models** (`core/model/`) | none | declarative or generated conversions | | |
| **Country code search, phone numbers** (`PayjpSearchCountryCodeActivity.kt`, `PhoneNumberServiceImpl.kt`) | a list and a filter | filter, choose | calls of a phone number library | |
| **Card scanner** (`payjp-android-cardio`) | pending permission | start a scan | glue around an external activity | |
| **Coroutine extension** (`payjp-android-coroutine`) | one continuation per task | `toSuspend` | cancellation of either side | one resumption |
| **Generated API documentation** (`docs/`) | | pages and scripts put out by the Dokka generator | not code of the SDK | |

How they interact:

```
 Payjp.init ──> PayjpToken ──owns──> PayjpTokenOperationObserver
                   │  wrapWithObserver: startRequest / completeRequest     ▲ listener
                   ▼                                                       │
              Task (ResultCall) ──callbacks on the main thread──> CardFormScreenViewModel
                                                                   │  post / cancel
      PayjpCardFormActivity <──LiveData── view model ──────────────┤
        │     ▲                                                    ▼
        │     └── onActivityResult (onCompleteCardVerify)   TokenHandlerExecutorImpl
        ▼                                                          │ background thread
      PayjpVerifier -> step activity -> browser -> redirect        ▼
                                                     PayjpTokenBackgroundHandler (application)
```

The fragment inside the activity is a second view model of its own: `CardFormViewModel`
judges the fields, whose texts the watchers keep formatted, and gives the activity a
token task when the whole form is valid.

`PROJECT.json` lists the same components with their sources, and under
`hazards` each place where the code is exposed to one of these behaviours, with
the properties that watch it.

## 2. Modules

| module | models | checked by | proved in |
|---|---|---|---|
| `TokenStatus` | the promise of `PayjpTokenOperationStatus`: abstract, three variables | implemented by `TokenObserver`; used by `CardFormScreen` | |
| `TokenObserver` | the observer, the looper's queue, the task wrapper of `PayjpToken` | `MCTokenObserver`, three configurations | `TokenObserverProofs` |
| `TaskCall` | `ResultCall` inside the wrapper of `PayjpToken`: execution, answer, cancellation, callback | `MCTaskCall`, two configurations | `TaskCallProofs` |
| `TokenHandlerExecutor` | `TokenHandlerExecutorImpl` and the screens that share it | `MCTokenHandlerExecutor`, two configurations | `TokenHandlerExecutorProofs` |
| `CardFormScreen` | `CardFormScreenViewModel`, its activity, its process | `MCCardFormScreen`, two configurations; in the session | `CardFormScreenProofs` |
| `Verification` | the promise of `PayjpVerifier`: abstract, three variables | implemented by `ThreeDSecureFlow` | |
| `VerifierWebView` | the loading state of the web view and what is shown of it | part of `ThreeDSecureFlow` | |
| `ThreeDSecureFlow` | `PayjpVerifier`, the step activity, browsers, the static holder, process death | in the session | `ThreeDSecureFlowProofs` |
| `CardFormSession` | `CardFormScreen` and `ThreeDSecureFlow` in one process | `MCCardFormSession` | `CardFormSessionProofs` |
| `CardFormInput` | `CardFormViewModel`, its transformers, the fragment that starts it | `MCCardFormInput` | `CardFormInputProofs` |
| `CardNumbers`, `CardExpiration` | brands, length and check digit; the year two digits mean | part of `CardFormField` | |
| `NumberFormat`, `ExpirationFormat` | what the two text watchers make of a text | part of `CardFormField` | |
| `CardFormField` | a formatted field that is edited, scanned and restored | `MCCardFormField` | `CardFormFieldProofs` |

Operators whose comment begins with "Faulty" are not part of a model:
each is a plausible mistake in the definition next to it (a runnable that is not
removed, a lock that is not released, ...). Put in place of that definition it
makes TLC report the property it was written for, which shows that the property
depends on the code. `PROJECT.json` pairs them under `mutants`.

### 2.1 TokenObserver and TokenStatus

State. `status`, `listeners` are the fields of the class. `queue` is the main
looper's message queue: a set of messages `[id, due, run, value]`, run in the
order of (`due`, `id`), which is what `MessageQueue` does; `posted` numbers them
and `now` is `uptimeMillis`. `makeAcceptable`, `makeRunning` and `makeThrottled`
are the messages with `run = "set"`; the post inside the status setter is
`run = "notify"`. `pc[r]` is how far the wrapped task `r` of
`PayjpToken.wrapWithObserver` has got, and `mode[r]` which way it was executed.
`seen[l]` is the last status listener `l` was given; `completedAt` is a history
variable.

Actions. The three `Handler` calls of `startRequest` are three actions
(`StartRequest`, `RemoveThrottled`, `PostRunning`) and the two of
`completeRequest` are `CompleteRequest` and `PostAcceptable`, because another
thread may act between them. `OnMain`/`MainFree` give back the atomicity the
main thread does provide: a call made on it is part of the message that is being
run. `Return` is the client's callback (or the return of `run()`), which is
after `completeRequest` in all three entry points. `RunSet` and `RunNotify` are
the looper's steps.

`Client` is how the application behaves, a constant: `"callback"` (waits for the
callback of its previous request: what the card form does), `"status"` (starts
when the status is ACCEPTABLE: what `checkTokenOperationStatus` recommends),
`"any"`.

`TokenStatus` says the same without looper and threads. The refinement mapping
(`Contract` in `TokenObserver`) puts a request in flight when `startRequest` has
removed what earlier requests had posted, and `owed` while the status has still
to show it.

### 2.2 TaskCall

State. `pc[c]` is how far the execution of task `c` has got, `mode[c]` whether it
was `run()` or `enqueue()`, `answer[c]` what the network said, `cancelled` the
calls for which `isCanceled` holds. `executor` is the queue of `callbackExecutor`.
`outcome[c]` is the sequence of what the application has been told; `starts[c]`
and `completions[c]` count the calls of `startRequest` and `completeRequest`.

Actions. `Execute` and `ExecuteAgain` are the wrapper's `run` and `enqueue` on a
fresh and on a used call (which throws: `run` has a `finally`, `enqueue` has
not). `Return` is the rest of `run()`. `Respond` is the network thread handing the
answer to the callback executor; the executor's job is cut in two, `Judge` (is the
call cancelled? convert the response) and `CallBack` or `Crash`, because a thread
other than the executor's may cancel in between. `Convert` keeps of the exceptions
what matters to the control: success, error, or a conversion that itself throws.

`Careful` are the tasks that are used as the card form uses them: executed once and
cancelled on the main thread, where their callback runs
(`CardFormScreenViewModel.onCleared`), with the answers `Answer`. The others are
executed again, cancelled on any thread and answered in every way, and share the
callback executor with the careful ones.

`Paired` is what `TokenObserver` takes for granted of the wrapper: no task, however it
is used, completes a request it has not started, and a careful one completes each it
has. `ToldOnce`, `Notified` and `Ended` are what `CardFormScreen` takes for granted.

### 2.3 TokenHandlerExecutor

State. `pendingCallback` and `currentFuture` are the fields; both name the post
they belong to. `jobs`, `callbacks`, and `gets`/`watched` are the three
executors (single background thread, main thread, single watching thread:
`PayjpCardForm.configure`). `future[p]` and `cancelled` are the `FutureTask` of
post `p`. `screen` and `owner` are the view models that use the executor,
`delivered[p]` the history of the statuses the callback of `p` was given, and
`crashed` the end of the process by an uncaught exception.

Actions. `PostToken` is `post`; `Cancel` is `cancel`, called from `onCleared`
whether or not the screen has posted. The job of `post` is cut where other
threads can come in between: `Begin`, `HandlerReturns` or `HandlerThrows`,
`ExecuteCallback`; `RunCallback` is what it executes on the main thread;
`BeginGet` and `EndGet` are the watching job. A handler may return in spite of
the interrupt (the interface does not ask it to honour one).

`Reopen` is how soon a screen may follow another: `"drained"` (the executors are
empty), `"cleared"` (the earlier screen is cleared: the user leaves and opens
the form again), `"any"` (before the earlier screen is even cleared).

### 2.4 CardFormScreen

State. `processing`, `brands`, `fetching` are `tokenizeProcessing`,
`acceptedBrands` (set or not) and `fetchBrandsProcessing`; `view` is the set of
visible views (one of three); `commands` are the one-off LiveData that hold a
value. `tasks` are the operations the screen waits for (a token task or the
handler's call), `fetchTask` the request for the brands, `verifying` the 3-D
Secure activity on top. `saved` is what the `SavedStateHandle` and the fragment
manager have saved at the last stop. `status` and `owed` are the token operation
status, which moves as `TokenStatus` allows. `asked` and `served` count, as
history, the errors and verifications that were due and those that were shown.

Actions. `ClickSubmit`, `EditorActionDone`, `Reload`, `Leave` are the user;
`BrandsFetched`, `BrandsFailed` and the four alternatives of `Callback` are the
task callbacks and the handler's status; `VerifySucceeded` and `VerifyCanceled`
are `onCompleteCardVerify`; `Start`, `Stop`, `Destroy`, `Kill`, `Restore` are the
system. `Deliver` is what the activity's observers do with the commands they
are given, the acknowledgement (`onDisplayedErrorMessage`, ...) included, and
`Emit` is LiveData: a value set while the activity is started is delivered in
the same step, otherwise with the next `Start`. In a finishing activity either
may happen, as it may already have been stopped.

`Death` is when a stopped screen's process may be killed: `"never"`, `"quiet"`
(no operation is going on and none has ended since the state was saved) or
`"any"`.

Left out: the validity of the form (the form is valid), the texts, and the snack
bar, which is shown and acknowledged within the step that sets it and which
nothing depends on. `TokenHandlerExecutor` is represented by a task of kind
`"handler"`; `OwnStatus` is what makes that sound.

### 2.5 ThreeDSecureFlow, VerifierWebView and Verification

State. `step` is the step activity, a record of the system that outlives the
process; `current` its `currentResourceId`, lost with the process, `savedId` the one
in its saved state; `intentHolder` the static holder. `browser` is what
`webBrowserResolver` has opened: a custom tab, the SDK's own web view, or none.
Resources are the numbers of the flows; the holder may hold, at first, an intent of
an earlier flow that nobody took the result of. `redirected` is history.

Actions. `StartFlow` is `startThreeDSecureFlow`; `Create` the first run of the step
activity, which empties the holder and opens a browser; `TabRedirects` and
`WebRedirects` the redirect to `onNewIntent`; `Close` every way out without one;
`TakeResult` is `handleThreeDSecureResult`; `ProcessKilled` is the death of the
process, with `Resource` for a step activity that is created again. The web view
contributes `onPageStarted`, `onPageFinished`, `onReceivedError`,
`onReceivedSslError` and `onProgressChanged`, in any order: its `loadingState`
decides whether a page is announced, and only an announced page is looked at for
the callback URL. `LoadingShown` is about steps: an error that is shown stays, whatever
else is reported of the failed page, until another page is announced.

`Verification` is the same without activities, holder and browser: a flow ends
with its own resource if its page has come back to the living process, and with
Canceled otherwise.

### 2.6 CardFormSession

`CardFormScreen`'s `verifying` is there a variable that anything may end. Here it is
composed with a real flow: a step that delivers the command to verify starts the
flow, the form is not started under a browser, its results are those in the holder,
and the process dies for both. `ImplementsScreen` (proved) says that the session is
a behaviour of `CardFormScreen`, so that what is shown of that is shown of the
session, and `FormWaitsForFlow` that neither side waits for the other in vain, and
that the form completes its token after a flow exactly if the flow's page has come back.

### 2.7 CardFormInput

State. `input[f]` is what was typed last into field `f`, abstracted to what its
transformer tells apart (a number to its brand and whether its digits are short,
long, wrong or right; a CVC to its number of digits, `NoDigits` if it has other symbols
only), `error[f]` how it was judged, `shown` the fields whose error is shown. `extra` are
the `extraAttributes` of the form.
`known` says that the number's transformer has accepted brands; `fetches` are
requests in flight (one for each start while they are not known); `oneOff` is the
LiveData of their results and `told` what the listener has heard. `unjudged` is
history: the number was judged before the brands were known.

Actions. `inputComponent` is each `input...` with the observer of the brand, which judges
the CVC again, and the choice of the next `currentPrimaryElement`. The code makes that
choice if the text has changed, which what is typed may have done or not where what it is
abstracted to is the same: both are possible then. `selectCountryCode` judges the phone
number again; `validate` shows all errors. `onStart`, `Stop`, `BrandsFetched`,
`BrandsFailed` and `onCleared` are the fragment's life and the requests.

`Complete` is the reference definition: it looks at the typed inputs alone.

### 2.8 CardFormField and the modules below it

`CardNumbers` has the brands' prefixes, lengths and the check digit, `CardExpiration`
the century two digits belong to and whether a month has passed; both are
independent of any state. `NumberFormat` and `ExpirationFormat` are
`afterTextChanged` of the two watchers: whether the text is right as it is
(`isInputCorrect`), how it is built otherwise (`buildCorrectString`) and where the
cursor goes. A text is a sequence of digits and of `Delimiter`, whatever symbol that
is.

`CardFormField` is one such field. `Typed` and `Deleted` change one symbol at any
place, a delimiter included; `Pasted` fills an empty field; `Scanned` is the card
scanner; `Restored` is the recreation of the screen, where the text is formatted by
a new watcher that knows no brand. `brand` is the one the watcher is given through
the view model, which hears of each text first. `meant` is history: the digits the
user means, with which `DigitsKept` compares.

## 3. Runs

| run | configuration | properties | shows |
|---|---|---|---|
| `observer_sequential` | 3 requests, 1 listener, throttle 1, `"callback"` | `TypeOK`, `RunningWhileInFlight`, `ThrottleKept`, `KeepsContract` | with one request at a time the status is truthful: RUNNING while one is in flight, never ACCEPTABLE before the throttle is over, no state skipped. About 795,000 states |
| `observer_overlapping` | 2 requests, 1 listener, throttle 1, `"any"` | `QuietIsAcceptable`, `ListenersAgree`, `AcceptableAgain` | whatever overlapping requests do to each other's runnables, the status and the listeners end in ACCEPTABLE. About 459,000 states |
| `observer_status_gate` | 2 requests, `"status"` | `AcceptableMeansIdle` (violated) | the recommended gate lets two requests through; see 5 |
| `task_mixed` | 2 careful tasks beside one used in every way, 2 executions | `TypeOK`, `ToldOnce`, `Notified`, `Paired`, `Ended`, `NoSuccessAfterCancel` | whatever is answered and wherever a task is cancelled or executed again, it tells one outcome at most, completes no request it has not started and ends; the careful ones tell their outcome, complete each request and tell no success once cancelled, whatever the other does. About 311,000 states |
| `task_malformed` | 1 careful task | `Notified` (violated) | an error page that is no JSON; see 5 |
| `executor_drained` | 3 posts, 2 screens, `"drained"` | `TypeOK`, `OwnStatus`, `NoCallbackAfterCancel`, `NoHandlerAfterCancel`, `OutcomeReported` | for a screen that has the executor to itself all interleavings of the three executors with cancel are right |
| `executor_reopened` | 2 posts, 2 screens, `"cleared"` | `OwnStatus` (violated) | a status reaches another screen's callback; see 5 |
| `screen_quiet` | the session, with a handler, 5 operations, 2 stops, `"quiet"` | `TypeOK`, `OneOperation`, `LockedForAReason`, `ViewIsTrue`, `ServedOnce`, `FlowTypeOK`, `LoadingShown`, `FormWaitsForFlow`, `FormUnlocks`, `SessionUnlocks`, `ImplementsVerification` | the screen's state machine is right through stops, verifications and restorations, each flow ends with its own result, and a form in front is unlocked by what the network and the flow bring. About 1,340,000 states |
| `screen_death` | 3 operations, 2 stops, `"any"` | `LockedForAReason` (violated) | a form restored locked; see 5 |
| `screen_ime_done` | 3 operations, `"never"` | `NoSubmissionWhileThrottled` (violated) | a submission while THROTTLED; see 5 |
| `input_judged` | forms without extras, with a phone number, with both; 2 starts | `TypeOK`, `ValidIsTrue`, `AllErrorsShown`, `MovesToInvalid`, `BrandsAnswered` | whatever is typed in whatever order, and whenever the brands come, the form is valid exactly if it is complete, shows its errors and moves on to a field that needs input. About 1,877,000 states |
| `field_formatted` | both fields, 3 changes, numbers of each layout at each boundary, 5 dates | `TypeOK`, `Formatted`, `DigitsKept`, `MistypedIsRejected`, `ExpirationJudged`, `CursorKept` | edits anywhere lose no digit and leave a text that fits its own brand, the cursor behind its digit; mistyped numbers and past months are rejected. About 157,000 states |

Bounds, and why they are enough.

- Requests. With a client that waits, a request can be disturbed only by
  what the earlier ones left in the queue, and a request removes two of the
  three kinds of runnables before its own; two requests leave every combination
  behind, and the third is the one disturbed. Overlapping clients need two for a
  race; with two, completion meets start, completion and the throttle of the
  other. The proofs remove the bound for the safety properties.
- `ThrottleDuration = 1` tick. Only the order of `due` times matters, and one
  tick already lets a delayed message be before, at and after another's start.
  The clock moves only while some message waits for its time, so that it needs no
  bound: a message due now is the same whatever the hour.
- Tasks. They share only the callback executor's queue, in which two tasks already
  have every order; the careful two have it beside a third that disturbs them. Two
  executions of a task are enough, because each further one meets the same used call.
- Posts and screens. Three posts let one screen post again after an error and a
  second screen follow. The finding needs only two of each.
- Operations. Five make create, verify, finish, handler, and one more after
  an error, and so two flows one after the other; a third finds what the second
  found, a holder full or empty. `MaxTasks` and `MaxStops` are guards that only
  stop the user, the server and the system; `SessionUnlocks` lets
  go of a form that has had its operations. At the bound a token that would go to the
  handler can still fail or be unverified.
- One listener: listeners do not interact, each is given what the
  iteration over the list gives it.
- Input. A CVC without digits, and one of each length; one brand for each of these, one
  that is not accepted, an unknown one; a phone number valid in one country of two; two
  values, or three, of the other fields. `CardFormInputProofs` has no such bound. Two
  starts make two overlapping requests.
- Fields. The pasted and scanned beginnings of four numbers end just before, at and
  after the delimiters and the limits of each layout, the keys 3 and 4 and any
  deletion can make one brand of another, and three further changes cross a
  delimiter both ways. The dates are in the middle and at both ends of a century.

Deadlock is checked in the observer's runs. The other systems do stop: a destroyed
screen or form, a crashed process and tasks that are all over have no next step, and
editing ends at its bound.

## 4. Fairness

- `TokenObserver`: weak fairness of the looper, of the clock, and of each thread
  that is inside `startRequest` or `completeRequest`. Android runs due messages
  and schedules runnable threads. Nothing makes an application start a request,
  a server answer, or a listener register.
- `TaskCall`: weak fairness of each call's answer (the HTTP client has timeouts)
  and of the callback executor. Nothing makes an application execute or cancel.
- `TokenHandlerExecutor`: weak fairness of the three executors' own steps
  (they are threads of the pool `PayjpCardForm.configure` creates, and the main
  looper). The application's handler need not return, nor the user do anything.
- `CardFormScreen`: weak fairness of the answers to token tasks only (the HTTP
  client has timeouts, so each call ends in one of the callbacks). The handler,
  the browser, the user and the system owe nothing, which is why
  `FormUnlocks` names them as ways out.
- `CardFormSession`: besides, the system creates the step activity it was asked for
  and gives a result to the form that is in front again. The user need not return
  from the browser or leave a blank step activity: `SessionUnlocks` names that, the
  handler, and a form that is not in front.
- `CardFormInput`: each request of brands is answered or times out. Nobody need type,
  start or stop the form.
- `CardFormField`, `ThreeDSecureFlow` by itself: none.

## 5. Where the code and its documentation disagree

Each is a run that TLC finds violated, and a `findings` entry in `PROJECT.json`.

1. **The status is no gate** (`observer_status_gate`). `PayjpTokenOperationStatus.kt:41`
   says of RUNNING "The request is running, UI should block a new submission." and
   `PayjpToken.kt:143` recommends to wait for ACCEPTABLE. The status changes only
   when the looper runs `makeRunning`, so two requests can pass; the first to
   complete then makes the status ACCEPTABLE (`PayjpTokenOperationObserver.kt:56`)
   while the other runs, because `completeRequest` does not look at other requests.
2. **A status for the wrong screen** (`executor_reopened`). `pendingCallback`
   (`TokenHandlerExecutorImpl.kt:60`) is read when the handler's status arrives on
   the main thread. If screen 1 is left while its handler runs, screen 2 posts,
   and handler 1 then returns in spite of its interrupt, screen 2 is completed
   with handler 1's status, and the own one is dropped.
3. **A form locked for good** (`screen_death`). `tokenizeProcessing`
   (`CardFormScreenViewModel.kt:62`) is saved, the task it stands for is not. A
   process killed in the background in the middle of an operation restores a form
   that shows the progress, hides its button, and ignores submission.
4. **The done key ignores the status** (`screen_ime_done`). THROTTLED says "The
   request has completed, but UI should not accept a new submission for a moment."
   (`PayjpTokenOperationStatus.kt:46`). The button is hidden meanwhile, but
   `onLastFormEditorActionDone` (`PayjpCardFormActivity.kt:203`) submits.
5. **A callback that is not called** (`task_malformed`). `Task.kt:43` says of
   `enqueue` "Run task and notify callback of result or error."
   `ResultCall.generateHttpError` (line 56) parses the body of an error response as
   an `ErrorEnvelope` inside the callback executor. A body that is not one makes it
   throw there, as `body()!!` (line 75) does for a success without a body: the
   callback is not called, `completeRequest` neither, and on the main thread the
   exception ends the process.

What follows was met while modelling and is not a disagreement with anything the
repository says; the models do what the code does.

- The card display form passes an empty list where the other one passes null
  (`PayjpCardFormCardDisplayFragment.kt:286`) when it is given no accepted brands. They
  are then never fetched and every known brand is rejected, though the comment at line
  64 says that it "tries to get" them. In `CardFormInput` this is `known` at first with
  no accepted brand.
- A restored number of American Express or Diners Club has the layout of the other
  brands until its next change (`PayjpCardFormFragment.kt:124`). A digit typed before
  the last one of a full Diners number so restored puts the cursor behind the end of
  the text, and `setSelection` throws (`CardNumberFormatTextWatcher.kt:60`): `Crashed`.
  `Formatted` therefore says of a restored number that it has the layout of no brand,
  and `CursorKept` excepts the change after it where that is not its brand's.
  Pasting more than the limit into the middle of a number can do the same.
- A lone delimiter in the expiration becomes "0", and a 0 that stands alone cannot be
  deleted (`ExpirationBuilt` adds it where there is no digit). Deleting a selection
  that begins at a delimiter at the end takes one digit more.
- A year exactly twenty away can be completed to the wrong century (80 in 2100);
  `ExpirationJudged` is about less than twenty.
- The callback URL is not noticed while the page before it is still loading or has
  failed (`VerifierWebView.kt:219`); the user then has to close the browser, and the
  flow is told Canceled. A process that dies after the redirect is told so as well.
  `Verification` allows both (`Cancel`, `Forget`), so that no property rules them out.
- The step activity does not compare the redirect with the flow's resource, and stays
  open, blank, if no browser opens the URL: `SessionUnlocks` has that as a way out.
- A task that is enqueued a second time calls `startRequest`, throws, and leaves the
  status RUNNING (`PayjpToken.kt:157`). `Paired` allows it for tasks that are not careful.
- Requests of accepted brands overlap: an error may be told after a success.

## 6. Proofs

All theorems hold for every value of the constants that the module's `ASSUME`s
allow, under the further assumption each states.

**TokenObserverProofs.** `TypeCorrect`. For any client (`AnyClient`), the
inductive invariant `AnyClientInv` says that message numbers are fresh, that when
nothing is outstanding the last `set` message in the queue is a makeAcceptable
(or there is none and the status is ACCEPTABLE), and that the last
notification in the queue carries the status (or there is none and the listeners
know it). `QuietIsAcceptable` and `ListenersAgree` are the cases where the
queue has none; neither is inductive, since they say nothing of a queue that is
not empty. For `Client = "callback"`, `CallbackClientInv` adds `OneAtATime` (one
outstanding request, which has removed what earlier ones posted), that a waiting
makeAcceptable is due no earlier than the throttle's end, and `CycleInv`: the
three kinds of runnables are queued in the order RUNNING, THROTTLED, ACCEPTABLE,
the last two at most once, and the status is what the missing ones have made it.
From it follow `RunningWhileInFlight`, `ThrottleKept`, and, step by step, that
the observer implements `TokenStatus` (`KeepsContractHolds`). `KeepsContract` and
`ThrottleKept` are really false for other clients: finding 1.

**TaskCallProofs.** `CallInv` adds to the types that only an execution that is over has
told anything, and one outcome at that, and that what a job is about to tell is the
conversion of the answer or the cancellation; it gives `TypeOK` and `ToldOnce` for all
constants. With `ConvertibleAssumption` (no careful task gets an answer that cannot be
converted) `OnceInv` counts the requests of the careful tasks by `pc`, hence `Notified`
and, with `CountInv` about all tasks, `Paired`. `CancelInv` says that a job of a careful
task between `Judge` and `CallBack` tells no success once cancelled, hence
`NoSuccessAfterCancel`; if another thread cancels, the job can have looked already.

**TokenHandlerExecutorProofs.** `TypeCorrect` for all constants. With
`Reopen = "drained"`, `DrainedInv`: jobs are queued in the order of their futures'
states and once each, a status waits for its callback once and before it is
given, a post that has not been made has left no trace, one screen lives at a
time and the executors work for no other (`OneScreen`), and the remembered
callback and future are those of the post it waits for (`LatestPost`). From it
`OwnStatus`, `NoCallbackAfterCancel` and `NoHandlerAfterCancel`. Without the
assumption `OwnStatus` is false (finding 2), so the assumption is where the code's
correctness ends.

**CardFormScreenProofs.** The saved state comes back after a kill, so every
invariant needs a counterpart about `saved`. `OneOperation` and `ViewIsTrue` hold
whenever the process is killed: `OperationInv` adds that a saved verification is
saved with its lock, `ViewInv` that the saved views match the saved brands.
`LockedForAReason` and `ServedOnce` assume `Death # "any"` (finding 3 is the other
case) and come from `QuietInv`, which adds that a saved lock has its reason among
the saved commands or in the verification on top, that a command saved and one
held account for what was asked, and that no second error can arise while the
first waits for the screen.

**ThreeDSecureFlowProofs.** For any number of flows, deaths and page callbacks, `FlowInv`
adds to the types that the views tell whether a page loads (`DisplayTrue`), and that what
the process holds belongs to the flow that goes on: its resource, saved or not, is the
flow's, and the holder is empty until the redirect and holds the flow's intent after it
(`OwnHolder`). Step by step it gives `ImplementsVerification`, and `LoadingShown`, of
which `ErrorStep` shows how an error view comes and goes. The holder that is full at first
is why the resource must be shown to be emptied by `Create`.

**CardFormSessionProofs.** A step of the session is one of the screen or leaves it alone
(`ScreenPart`), and one of the flow or leaves it alone (`FlowPart`). Hence
`ImplementsScreen`, and the theorems of both modules hold of the session: `OneOperation`,
`ViewIsTrue`, `LoadingShown`, `ImplementsVerification` always, `LockedForAReason` and
`ServedOnce` for `Death # "any"`. What each takes for granted of the other is
`FormWaitsForFlow`, whose invariant `WaitInv` needs `OperationInv` and `FlowInv`: a form
that waits has no other operation, and `ResultStep` shows that the one it has after the
wait is the completion of what the holder has.

**CardFormInputProofs.** `InputInv` says of each field how it is judged by what is
typed in it now (`Judged`): the CVC by the brand of the present number, the phone number by
the present country, the number by the accepted brands unless it was judged before
them. With it, that only errors are shown and all that do not wait are (`Shown`), and
that nothing is typed into a field the form does not ask for, `ValidIsTrue` and
`AllErrorsShown` follow for all brands, countries and phone numbers. `MovesToInvalid` is
about one step and needs no invariant: the element an input moves on to is judged in
the state after it (`PrimaryNeedsInput`).

**CardFormFieldProofs.** Everything `field_formatted` checks, for any digits, keys, dates
and number of changes. `ExpandNearest`: in any year, two digits are completed to the
year they mean if that is less than twenty years away. It gives `ExpirationJudged` for
any date of the year 100 or later (`DatesAssumption`).

The rest is about texts that are built and summed by recursion, which the modules write
as recursive functions. Each gets its equation from `Recursion`, and what it computes for
every sequence is shown from a least counterexample (`Induction`, `SeqInduction`: a set of
numbers or of sequences that has the first and each next one has all). On that rest four
groups of lemmas:

- the check digit: two numbers that differ in one digit, or in two neighbours, have sums
  that differ by what these weigh (`SumsDiffer`), and doubling is one to one on the
  digits, which leaves 0 and 9 as the only swap that passes (`MistypedDigit`,
  `SwappedDigits`). The check is the same for every brand, so that a change that tells
  another brand is no way around it;
- the number's watcher: a text that is divided right has as many digits as its length
  tells (`DividedDigits`), and `buildCorrectString` returns the digits it is given, up to
  the limit and divided (`Built`, `NumberOutcome`). Cutting at the limit, or taking the
  last digit of a group, leaves the four digits no brand looks beyond, so that the text
  still fits the brand it tells (`SameBrand`, `LimitedBrand`);
- the expiration's watcher: at most four digits, the delimiter after two, and a 0 before
  a first digit that cannot begin a month (`ExpirationOutcome`);
- the cursor: it moves by the delimiters that are before it afterwards and were not there
  (`CursorMoved`), so that it stays behind as many digits.

`Formatted` and `DigitsKept` are not inductive. `FieldInv` adds how a text that has been
restored is divided, since the next change starts from there: as a number of no brand,
`DividedAs`, also where its brand has another layout. It says of any number that it is no
longer than its brand has it and has the digits that are kept of those meant; and of an
expiration that it begins as a month can and has its delimiter after two digits. What deleting the last
symbol does depends on it (`LastDeleted`): only of a divided text are there as many digits
as the watcher counts on when it takes one away with the delimiter. `CursorKept` is shown
step by step from `FieldInv`.

Only model-checked, not proved: the liveness properties `AcceptableAgain`, `Ended`,
`OutcomeReported`, `FormUnlocks`, `SessionUnlocks` and `BrandsAnswered`. Temporal reasoning
under fairness, which needs `ENABLED`, is outside the prover's reach. Every invariant and
every action property the passing runs check is the statement of a theorem, some under
the assumption named above (`Client`, `Reopen`, `Death`, `ConvertibleAssumption`).

## 7. Not modelled

- Token requests other than the observed ones: `getToken` and `getAcceptedBrands` are
  `ResultCall`s without the wrapper, and add to `TaskCall` only its absence. The
  constant tasks of `Tasks.kt` keep no state; interceptors, TLS and the construction of
  requests are data.
- `PayjpCardForm` and `Payjp` set singletons once; the sharing they cause is in
  `TokenHandlerExecutor` and `TokenObserver`.
- The client info header: a string on requests that no other state depends on. The
  order of one activity's `onDestroy` and the next's `onCreate` decides it, which is
  listed under `hazards`.
- Layout, focus, animation, the snack bar and `Debouncer.kt` (derived from a third
  party); the card display form's views, which drive the same view model.
- The search of country codes (a list and a filter), the phone number library and the
  card scanner's activity: external, or without state that outlives a call. What they
  hand over is `selectCountryCode`, `PhonesOf` and `Scanned`.
- Conversions from and to JSON: generated or declarative.
- The continuation of `toSuspend`; the task it runs is `TaskCall`'s mode `"run"`.
- Selections that are deleted or replaced, and pasting into the middle of a text, in
  `CardFormField`; the cursor of the expiration, which the framework places.
- A redirect that reaches a step activity that has been created anew by the redirect
  itself: Android's launch mode delivers it to the one that is open.
- Listeners that come and go during the iteration over them, or from other threads.
- Two card forms at once (`Reopen = "any"` of `TokenHandlerExecutor`), which no run
  selects; nothing in the repository promises anything for it.
- `docs/` holds pages, styles and scripts that the documentation generator has put out;
  the scripts there are the generator's and are no part of the SDK. `sample/` is an
  application that uses it.

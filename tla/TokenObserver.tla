--------------------------- MODULE TokenObserver ---------------------------
(***************************************************************************)
(* The token operation status of the SDK: PayjpTokenOperationObserver (the *)
(* status, its three runnables and its listeners) together with the        *)
(* wrapper PayjpToken puts around every token task, which is the only      *)
(* caller of startRequest and completeRequest.                             *)
(*                                                                         *)
(* The status is written by runnables posted to the main looper, while     *)
(* startRequest and completeRequest run on whatever thread runs the task.  *)
(* The looper's message queue is modelled as the set of posted messages;   *)
(* a message carries the time it is due and its posting number, and the    *)
(* looper runs them in that order, as MessageQueue does.                   *)
(***************************************************************************)
EXTENDS Integers

CONSTANTS
  Request,          (* token tasks; a task is executed at most once         *)
  Listener,         (* objects that observe the status                      *)
  ThrottleDuration, (* MS_THROTTLE_DURATION, in ticks of the clock          *)
  Client            (* how the application decides to start a request       *)

(***************************************************************************)
(* A "callback" client waits until the callback of its previous request    *)
(* has run, a "status" client until the status is ACCEPTABLE (what the     *)
(* warning of checkTokenOperationStatus recommends), an "any" client does  *)
(* not wait.                                                               *)
(***************************************************************************)
ASSUME ThrottleAssumption == ThrottleDuration \in Nat
ASSUME ClientAssumption   == Client \in {"callback", "status", "any"}

VARIABLES
  status,      (* PayjpTokenOperationObserver.status                        *)
  queue,       (* messages posted to the main looper and not yet run        *)
  posted,      (* number of messages posted so far                          *)
  now,         (* SystemClock.uptimeMillis(), in ticks                      *)
  pc,          (* how far each task's wrapper has got                       *)
  mode,        (* which of the wrapper's entry points each task came by     *)
  listeners,   (* the registered listeners                                  *)
  seen,        (* the last status each listener has been given              *)
  completedAt  (* history: when completeRequest was last carried out        *)

vars == <<status, queue, posted, now, pc, mode, listeners, seen, completedAt>>

Acceptable == "ACCEPTABLE"
Running    == "RUNNING"
Throttled  == "THROTTLED"
Status     == {Acceptable, Running, Throttled}

(***************************************************************************)
(* The steps of a wrapped task.  "start1" and "start2" are inside          *)
(* startRequest, after the first and the second removeCallbacks;           *)
(* "running" is the task itself; "complete1" and "complete2" are inside    *)
(* completeRequest, after the first and the second post; "done" is         *)
(* reached when the client's callback runs, or run() returns.              *)
(***************************************************************************)
Step == {"idle", "start1", "start2", "running", "complete1", "complete2", "done"}

(***************************************************************************)
(* enqueue may be called on the main thread or on another one; its         *)
(* callback runs on the main thread in both cases.  run() starts and       *)
(* completes on the thread that called it, which is never the main one     *)
(* (Android forbids network calls there).                                  *)
(***************************************************************************)
Mode == {"enqueueOnMain", "enqueueOnOther", "run"}

(* A posted message: "set" runs makeAcceptable, makeRunning or             *)
(* makeThrottled, "notify" gives the listeners the status it carries.      *)
Message == [id: Nat, due: Nat, run: {"set", "notify"}, value: Status]

Before(m, n) == m.due < n.due \/ (m.due = n.due /\ m.id < n.id)

IsSet(m, value) == m.run = "set" /\ m.value = value

QueuedSet(value) == {m \in queue : IsSet(m, value)}

-----------------------------------------------------------------------------
(* Handler: post and postDelayed add a message, removeCallbacks drops every *)
(* message of one runnable.                                                *)

(* Faulty variant: the delay is taken off the clock.                       *)
PostingEarly(run, value, delay) ==
  [id |-> posted, due |-> now - delay, run |-> run, value |-> value]

Posting(run, value, delay) ==
  [id |-> posted, due |-> now + delay, run |-> run, value |-> value]

Post(value, delay) ==
  /\ queue'  = queue \cup {Posting("set", value, delay)}
  /\ posted' = posted + 1

(* Faulty variant: only messages that are due are removed.                 *)
RemoveDueCallbacks(value) ==
  /\ queue' = queue \ {m \in QueuedSet(value) : m.due <= now}
  /\ UNCHANGED posted

RemoveCallbacks(value) ==
  /\ queue' = queue \ QueuedSet(value)
  /\ UNCHANGED posted

(***************************************************************************)
(* A call on the main thread is part of the message the looper is running: *)
(* no other message runs, and no other call starts there, before it ends.  *)
(***************************************************************************)
OnMain(r) ==
  \/ pc[r] \in {"start1", "start2"} /\ mode[r] = "enqueueOnMain"
  \/ pc[r] \in {"complete1", "complete2"} /\ mode[r] # "run"

MainFree == \A r \in Request : ~OnMain(r)

(* Tasks that have been started and whose callback has not run.            *)
Outstanding == {r \in Request : pc[r] \notin {"idle", "done"}}

MayStart ==
  /\ Client = "callback" => Outstanding = {}
  /\ Client = "status"   => status = Acceptable

Goto(r, from, to) ==
  /\ pc[r] = from
  /\ pc' = [pc EXCEPT ![r] = to]

-----------------------------------------------------------------------------
(* startRequest, called first by run() and enqueue() of the wrapper.       *)

(* Faulty variant: makeAcceptable stays posted.                            *)
StartKeepingAcceptable(r, m) ==
  /\ MayStart
  /\ m = "enqueueOnMain" => MainFree
  /\ Goto(r, "idle", "start1")
  /\ mode' = [mode EXCEPT ![r] = m]
  /\ UNCHANGED <<status, queue, posted, now, listeners, seen, completedAt>>

StartRequest(r, m) ==
  /\ MayStart
  /\ m = "enqueueOnMain" => MainFree
  /\ Goto(r, "idle", "start1")
  /\ mode' = [mode EXCEPT ![r] = m]
  /\ RemoveCallbacks(Acceptable)
  /\ UNCHANGED <<status, now, listeners, seen, completedAt>>

RemoveThrottled(r) ==
  /\ Goto(r, "start1", "start2")
  /\ RemoveCallbacks(Throttled)
  /\ UNCHANGED <<status, now, mode, listeners, seen, completedAt>>

PostRunning(r) ==
  /\ Goto(r, "start2", "running")
  /\ Post(Running, 0)
  /\ UNCHANGED <<status, now, mode, listeners, seen, completedAt>>

(* completeRequest, called when the task has a result, an error or has     *)
(* been cancelled: in enqueue's callback before the client's one, in the   *)
(* finally block of run().                                                 *)

(* Faulty variant: completion does not throttle.                           *)
CompleteUnthrottled(r) ==
  /\ mode[r] # "run" => MainFree
  /\ Goto(r, "running", "complete1")
  /\ UNCHANGED <<status, queue, posted, now, mode, listeners, seen, completedAt>>

CompleteRequest(r) ==
  /\ mode[r] # "run" => MainFree
  /\ Goto(r, "running", "complete1")
  /\ Post(Throttled, 0)
  /\ UNCHANGED <<status, now, mode, listeners, seen, completedAt>>

(* Faulty variant: nothing is posted while a makeAcceptable is waiting.    *)
PostAcceptableOnce(r) ==
  /\ Goto(r, "complete1", "complete2")
  /\ IF QueuedSet(Acceptable) = {} THEN Post(Acceptable, ThrottleDuration)
                                   ELSE UNCHANGED <<queue, posted>>
  /\ completedAt' = now
  /\ UNCHANGED <<status, now, mode, listeners, seen>>

PostAcceptable(r) ==
  /\ Goto(r, "complete1", "complete2")
  /\ Post(Acceptable, ThrottleDuration)
  /\ completedAt' = now
  /\ UNCHANGED <<status, now, mode, listeners, seen>>

(* The client's callback runs, or run() returns.                           *)
Return(r) ==
  /\ Goto(r, "complete2", "done")
  /\ UNCHANGED <<status, queue, posted, now, mode, listeners, seen, completedAt>>

-----------------------------------------------------------------------------
(* The main looper.                                                        *)

IsNext(m) ==
  /\ MainFree
  /\ m.due <= now
  /\ \A n \in queue \ {m} : Before(m, n)

(* Faulty variant: the setter compares the value after assigning it.       *)
RunSetUnnoticed(m) ==
  /\ IsNext(m)
  /\ m.run = "set"
  /\ status' = m.value
  /\ queue' = queue \ {m}
  /\ UNCHANGED <<posted, now, pc, mode, listeners, seen, completedAt>>

(* One of the three runnables: the setter posts a notification if the      *)
(* value differs from the one it replaces.                                 *)
RunSet(m) ==
  /\ IsNext(m)
  /\ m.run = "set"
  /\ status' = m.value
  /\ \/ /\ m.value # status
        /\ queue'  = (queue \ {m}) \cup {Posting("notify", m.value, 0)}
        /\ posted' = posted + 1
     \/ /\ m.value = status
        /\ queue'  = queue \ {m}
        /\ UNCHANGED posted
  /\ UNCHANGED <<now, pc, mode, listeners, seen, completedAt>>

RunNotify(m) ==
  /\ IsNext(m)
  /\ m.run = "notify"
  /\ queue' = queue \ {m}
  /\ seen'  = [l \in Listener |-> IF l \in listeners THEN m.value ELSE seen[l]]
  /\ UNCHANGED <<status, posted, now, pc, mode, listeners, completedAt>>

(* Time passes.  While no message waits for its time the clock makes no    *)
(* difference, so it stands still: this keeps it finite without a bound.   *)
Tick ==
  /\ \E m \in queue : m.due > now
  /\ now' = now + 1
  /\ UNCHANGED <<status, queue, posted, pc, mode, listeners, seen, completedAt>>

-----------------------------------------------------------------------------
(* Listeners come and go on the main thread.  One that registers reads the *)
(* status at once, as CardFormScreenViewModel does when it is created.     *)

(* Faulty variant: the listener waits for a change.                        *)
AddListenerUnread(l) ==
  /\ MainFree
  /\ l \notin listeners
  /\ listeners' = listeners \cup {l}
  /\ UNCHANGED <<status, queue, posted, now, pc, mode, seen, completedAt>>

AddListener(l) ==
  /\ MainFree
  /\ l \notin listeners
  /\ listeners' = listeners \cup {l}
  /\ seen' = [seen EXCEPT ![l] = status]
  /\ UNCHANGED <<status, queue, posted, now, pc, mode, completedAt>>

RemoveListener(l) ==
  /\ MainFree
  /\ l \in listeners
  /\ listeners' = listeners \ {l}
  /\ UNCHANGED <<status, queue, posted, now, pc, mode, seen, completedAt>>

RemoveAllListeners ==
  /\ MainFree
  /\ listeners # {}
  /\ listeners' = {}
  /\ UNCHANGED <<status, queue, posted, now, pc, mode, seen, completedAt>>

-----------------------------------------------------------------------------
Init ==
  /\ status = Acceptable
  /\ queue = {}
  /\ posted = 0
  /\ now = 0
  /\ pc = [r \in Request |-> "idle"]
  /\ mode = [r \in Request |-> "run"]
  /\ listeners = {}
  /\ seen = [l \in Listener |-> Acceptable]
  /\ completedAt = 0

(* The rest of a call that has begun, on the thread that makes it.         *)
CallStep(r) ==
  RemoveThrottled(r) \/ PostRunning(r) \/ PostAcceptable(r) \/ Return(r)

LooperStep == \E m \in queue : RunSet(m) \/ RunNotify(m)

Next ==
  \/ \E r \in Request : \E m \in Mode : StartRequest(r, m)
  \/ \E r \in Request : CallStep(r)
  \/ \E r \in Request : CompleteRequest(r)
  \/ LooperStep
  \/ Tick
  \/ \E l \in Listener : AddListener(l) \/ RemoveListener(l)
  \/ RemoveAllListeners

(* Threads finish the calls they are in, the looper runs what is due and   *)
(* time passes.  Nothing obliges an application to start a request, a      *)
(* server to answer or a listener to register.                             *)
Fairness ==
  /\ \A r \in Request : WF_vars(CallStep(r))
  /\ WF_vars(LooperStep)
  /\ WF_vars(Tick)

Spec == Init /\ [][Next]_vars /\ Fairness

-----------------------------------------------------------------------------
(* Every variable stays in its set.                                        *)
TypeOK ==
  /\ status \in Status
  /\ queue \subseteq Message
  /\ posted \in Nat
  /\ now \in Nat
  /\ pc \in [Request -> Step]
  /\ mode \in [Request -> Mode]
  /\ listeners \subseteq Listener
  /\ seen \in [Listener -> Status]
  /\ completedAt \in Nat

(* PayjpTokenOperationStatus.RUNNING: from the moment the looper has run   *)
(* the makeRunning of a request until the request completes, the status is *)
(* RUNNING; whatever earlier requests left in the queue does not surface.  *)
RunningWhileInFlight ==
  \A r \in Request :
    pc[r] = "running" /\ QueuedSet(Running) = {} => status = Running

(* What ACCEPTABLE says ("UI should accept user's request"): it is not     *)
(* shown while a request that has been shown as RUNNING is in flight.      *)
AcceptableMeansIdle ==
  \A r \in Request :
    pc[r] = "running" /\ QueuedSet(Running) = {} => status # Acceptable

(* PayjpTokenOperationStatus.THROTTLED: the status becomes ACCEPTABLE no   *)
(* earlier than the throttle duration after the latest completion.         *)
ThrottleKept ==
  [][status # Acceptable /\ status' = Acceptable
       => now >= completedAt + ThrottleDuration]_vars

(* In the terms of TokenStatus, a request is in flight from the moment     *)
(* startRequest has removed what the earlier requests had posted.          *)
InFlight == \E r \in Request : pc[r] \in {"start2", "running"}
Owed     == (\E r \in Request : pc[r] = "start2") \/ QueuedSet(Running) # {}

Contract == INSTANCE TokenStatus WITH inFlight <- InFlight, owed <- Owed

(* The observer keeps the promise of TokenStatus to a client that makes    *)
(* one request at a time: the looper, the removed runnables and the threads*)
(* do not show through, and the status skips no state of its cycle.        *)
KeepsContract == Contract!Spec

(* When no request is outstanding and every runnable has run, the status   *)
(* is ACCEPTABLE, whatever the requests did to each other's runnables.     *)
QuietIsAcceptable ==
  Outstanding = {} /\ (\A m \in queue : m.run # "set") => status = Acceptable

(* When no notification is on its way, each listener knows the status.     *)
ListenersAgree ==
  (\A m \in queue : m.run # "notify") => \A l \in listeners : seen[l] = status

(* Once requests have stopped, the status returns to ACCEPTABLE and every  *)
(* listener is told so.                                                    *)
AcceptableAgain ==
  Outstanding = {} ~>
    \/ Outstanding # {}
    \/ status = Acceptable /\ \A l \in listeners : seen[l] = Acceptable
=============================================================================

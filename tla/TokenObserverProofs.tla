------------------------ MODULE TokenObserverProofs ------------------------
(***************************************************************************)
(* Theorems about TokenObserver, for every set of requests and listeners,  *)
(* every throttle duration and, unless said otherwise, every client.       *)
(***************************************************************************)
EXTENDS TokenObserver, TLAPS

(* A posting is a message if its parts are what they should be.            *)
LEMMA PostingType ==
  ASSUME TypeOK, NEW run \in {"set", "notify"}, NEW value \in Status,
         NEW delay \in Nat
  PROVE  Posting(run, value, delay) \in Message
BY DEF TypeOK, Posting, Message

(* Type correctness: every variable of the observer stays in its set.      *)
THEOREM TypeCorrect == Spec => []TypeOK
<1>1. Init => TypeOK
  BY DEF Init, TypeOK, Status, Step, Mode, Acceptable
<1>2. TypeOK /\ [Next]_vars => TypeOK'
  <2> SUFFICES ASSUME TypeOK, [Next]_vars PROVE TypeOK'
    OBVIOUS
  <2> USE DEF TypeOK, Status, Acceptable, Running, Throttled
  <2>1. ASSUME NEW r \in Request, NEW m \in Mode, StartRequest(r, m)
        PROVE  TypeOK'
    BY <2>1 DEF StartRequest, RemoveCallbacks, Goto, Step
  <2>2. ASSUME NEW r \in Request, CallStep(r)
        PROVE  TypeOK'
    <3>1. CASE RemoveThrottled(r)
      BY <3>1 DEF RemoveThrottled, RemoveCallbacks, Goto, Step
    <3>2. CASE PostRunning(r)
      BY <3>2, PostingType DEF PostRunning, Post, Goto, Step
    <3>3. CASE PostAcceptable(r)
      BY <3>3, PostingType, ThrottleAssumption
         DEF PostAcceptable, Post, Goto, Step
    <3>4. CASE Return(r)
      BY <3>4 DEF Return, Goto, Step
    <3> QED
      BY <2>2, <3>1, <3>2, <3>3, <3>4 DEF CallStep
  <2>3. ASSUME NEW r \in Request, CompleteRequest(r)
        PROVE  TypeOK'
    BY <2>3, PostingType DEF CompleteRequest, Post, Goto, Step
  <2>4. ASSUME NEW m \in queue, RunSet(m)
        PROVE  TypeOK'
    <3>1. m.value \in Status /\ status' = m.value
      BY <2>4 DEF RunSet, Message
    <3>2. queue' \subseteq Message /\ posted' \in Nat
      <4>1. Posting("notify", m.value, 0) \in Message
        BY <3>1, PostingType
      <4> QED
        BY <2>4, <4>1 DEF RunSet
    <3> QED
      BY <2>4, <3>1, <3>2 DEF RunSet
  <2>5. ASSUME NEW m \in queue, RunNotify(m)
        PROVE  TypeOK'
    BY <2>5 DEF RunNotify, Message
  <2>6. CASE Tick
    BY <2>6 DEF Tick
  <2>7. ASSUME NEW l \in Listener,
               AddListener(l) \/ RemoveListener(l)
        PROVE  TypeOK'
    BY <2>7 DEF AddListener, RemoveListener
  <2>8. CASE RemoveAllListeners
    BY <2>8 DEF RemoveAllListeners
  <2>9. CASE UNCHANGED vars
    BY <2>9 DEF vars
  <2> QED
    BY <2>1, <2>2, <2>3, <2>4, <2>5, <2>6, <2>7, <2>8, <2>9
       DEF Next, LooperStep
<1> QED
  BY <1>1, <1>2, PTL DEF Spec

-----------------------------------------------------------------------------
(* The inductive invariants.                                               *)

(* The looper's queue: postings are numbered, none is due later than a     *)
(* makeAcceptable posted now, and everything else is due at once.          *)
QueueOrder ==
  \A m \in queue :
    /\ m.id < posted
    /\ m.due <= now + ThrottleDuration
    /\ m.due > now => IsSet(m, Acceptable)

LastOf(m, S) == \A n \in S \ {m} : Before(n, m)

Sets     == {m \in queue : m.run = "set"}
Notifies == {m \in queue : m.run = "notify"}

(* No request is between its first removeCallbacks and its makeAcceptable. *)
Settled ==
  \A r \in Request : pc[r] \notin {"start1", "start2", "running", "complete1"}

(* The last word on the status is, or will be, ACCEPTABLE.                 *)
AcceptableLast ==
  \/ status = Acceptable /\ Sets = {}
  \/ \E m \in QueuedSet(Acceptable) : LastOf(m, Sets)

(* The last word the listeners have, or will have, is the status.          *)
StatusLast ==
  \/ Notifies = {} /\ \A l \in listeners : seen[l] = status
  \/ \E m \in Notifies : m.value = status /\ LastOf(m, Notifies)

AnyClientInv ==
  /\ QueueOrder
  /\ Settled => AcceptableLast
  /\ StatusLast

(* One request at a time, and it has removed what the earlier ones posted. *)
OneAtATime ==
  /\ \A r, q \in Request : r \in Outstanding /\ q \in Outstanding => r = q
  /\ \A r \in Request :
       /\ pc[r] \in {"start1", "start2", "running", "complete1"}
            => QueuedSet(Acceptable) = {}
       /\ pc[r] \in {"start2", "running"} => QueuedSet(Throttled) = {}

(* makeAcceptable never waits for less than the throttle duration after    *)
(* the latest completion.                                                  *)
AcceptableDue ==
  \A m \in QueuedSet(Acceptable) : m.due >= completedAt + ThrottleDuration

(* Queued runnables come in the order RUNNING, THROTTLED, ACCEPTABLE, the  *)
(* last two at most once, and the status is where they take up the cycle.  *)
CycleInv ==
  /\ \A m \in QueuedSet(Running), n \in QueuedSet(Throttled) : Before(m, n)
  /\ \A m \in QueuedSet(Running), n \in QueuedSet(Acceptable) : Before(m, n)
  /\ \A m \in QueuedSet(Throttled), n \in QueuedSet(Acceptable) : Before(m, n)
  /\ \A m, n \in QueuedSet(Throttled) : m = n
  /\ \A m, n \in QueuedSet(Acceptable) : m = n
  /\ QueuedSet(Throttled) # {} /\ QueuedSet(Running) = {} => status = Running
  /\ QueuedSet(Acceptable) # {} /\ QueuedSet(Throttled) = {}
       => QueuedSet(Running) = {} /\ status = Throttled
  /\ \A r \in Request :
       pc[r] = "complete1" /\ QueuedSet(Throttled) = {}
         => QueuedSet(Running) = {} /\ status = Throttled

CallbackClientInv ==
  /\ OneAtATime
  /\ RunningWhileInFlight
  /\ AcceptableDue
  /\ CycleInv

-----------------------------------------------------------------------------
(* Any client.                                                             *)

(* Every step keeps the invariant, whatever the client does.               *)
LEMMA AnyClientStep == TypeOK /\ TypeOK' /\ AnyClientInv /\ [Next]_vars => AnyClientInv'
<1> SUFFICES ASSUME TypeOK, TypeOK', AnyClientInv, [Next]_vars
             PROVE  AnyClientInv'
  OBVIOUS
<1> USE ThrottleAssumption DEF QueuedSet, IsSet
(* A step that only removes runnables leaves the notifications alone.      *)
<1>1. ASSUME NEW value \in Status, RemoveCallbacks(value),
             UNCHANGED <<status, now, listeners, seen>>
      PROVE  QueueOrder' /\ StatusLast'
  <2>1. QueueOrder'
    BY <1>1 DEF AnyClientInv, QueueOrder, RemoveCallbacks
  <2>2. Notifies' = Notifies
    BY <1>1 DEF RemoveCallbacks, Notifies
  <2> QED
    BY <1>1, <2>1, <2>2 DEF AnyClientInv, StatusLast, LastOf, Before
(* Neither does a step that posts one.                                     *)
<1>2. ASSUME NEW value \in Status, NEW delay \in 0 .. ThrottleDuration,
             delay = 0 \/ value = Acceptable,
             Post(value, delay), UNCHANGED <<status, now, listeners, seen>>
      PROVE  QueueOrder' /\ StatusLast'
  <2>1. QueueOrder'
    BY <1>2 DEF AnyClientInv, QueueOrder, Post, Posting, TypeOK, Message
  <2>2. Notifies' = Notifies
    BY <1>2 DEF Post, Posting, Notifies
  <2> QED
    BY <1>2, <2>1, <2>2 DEF AnyClientInv, StatusLast, LastOf, Before
<1>3. ASSUME NEW r \in Request, NEW m \in Mode, StartRequest(r, m)
      PROVE  AnyClientInv'
  <2>1. ~Settled'
    BY <1>3 DEF StartRequest, Goto, Settled, TypeOK
  <2> QED
    BY <1>1, <1>3, <2>1 DEF StartRequest, AnyClientInv, Status
<1>4. ASSUME NEW r \in Request, RemoveThrottled(r)
      PROVE  AnyClientInv'
  <2>1. ~Settled'
    BY <1>4 DEF RemoveThrottled, Goto, Settled, TypeOK
  <2> QED
    BY <1>1, <1>4, <2>1 DEF RemoveThrottled, AnyClientInv, Status
<1>5. ASSUME NEW r \in Request, PostRunning(r)
      PROVE  AnyClientInv'
  <2>1. ~Settled'
    BY <1>5 DEF PostRunning, Goto, Settled, TypeOK
  <2> QED
    BY <1>2, <1>5, <2>1 DEF PostRunning, AnyClientInv, Status
<1>6. ASSUME NEW r \in Request, CompleteRequest(r)
      PROVE  AnyClientInv'
  <2>1. ~Settled'
    BY <1>6 DEF CompleteRequest, Goto, Settled, TypeOK
  <2> QED
    BY <1>2, <1>6, <2>1 DEF CompleteRequest, AnyClientInv, Status
(* The makeAcceptable posted last is the last in the queue: nothing waits  *)
(* longer, and what waits as long was posted before it.                    *)
<1>7. ASSUME NEW r \in Request, PostAcceptable(r)
      PROVE  AnyClientInv'
  <2> DEFINE a == Posting("set", Acceptable, ThrottleDuration)
  <2>1. a \in QueuedSet(Acceptable)' /\ Sets' \subseteq Sets \cup {a}
    BY <1>7 DEF PostAcceptable, Post, Posting, Sets
  <2>2. \A n \in Sets : Before(n, a)
    BY DEF AnyClientInv, QueueOrder, Sets, Before, Posting, TypeOK, Message
  <2>3. AcceptableLast'
    BY <2>1, <2>2 DEF AcceptableLast, LastOf, Before
  <2> QED
    BY <1>2, <1>7, <2>3 DEF PostAcceptable, AnyClientInv, Status
<1>8. ASSUME NEW r \in Request, Return(r)
      PROVE  AnyClientInv'
  BY <1>8 DEF Return, Goto, TypeOK, AnyClientInv, QueueOrder, Settled,
     AcceptableLast, StatusLast, LastOf, Before, Sets, Notifies
<1>9. ASSUME NEW m \in queue, RunSet(m)
      PROVE  AnyClientInv'
  <2> DEFINE n == Posting("notify", m.value, 0)
  <2>1. /\ m.run = "set" /\ status' = m.value /\ m \in Sets
        /\ Sets' = Sets \ {m}
        /\ \A k \in Sets \ {m} : Before(m, k)
    BY <1>9 DEF RunSet, IsNext, Posting, Sets
  <2>2. QueueOrder'
    BY <1>9 DEF RunSet, AnyClientInv, QueueOrder, Posting, TypeOK, Message
  <2>3. Settled' => AcceptableLast'
    <3> SUFFICES ASSUME Settled PROVE AcceptableLast'
      BY <1>9 DEF RunSet, Settled
    <3>1. PICK a \in QueuedSet(Acceptable) : LastOf(a, Sets)
      BY <2>1 DEF AnyClientInv, AcceptableLast
    <3>2. CASE a = m
      <4>1. Sets \ {m} = {}
        BY <2>1, <3>1, <3>2 DEF LastOf, Before, TypeOK, Message, Sets
      <4> QED
        BY <2>1, <3>2, <4>1 DEF AcceptableLast
    <3>3. CASE a # m
      <4>1. a \in QueuedSet(Acceptable)'
        BY <1>9, <3>1, <3>3 DEF RunSet
      <4> QED
        BY <2>1, <3>1, <4>1 DEF AcceptableLast, LastOf, Before
    <3> QED
      BY <3>2, <3>3
  <2>4. StatusLast'
    <3>1. CASE m.value = status
      <4>1. Notifies' = Notifies
        BY <1>9, <2>1, <3>1 DEF RunSet, Notifies
      <4> QED
        BY <1>9, <2>1, <3>1, <4>1
           DEF RunSet, AnyClientInv, StatusLast, LastOf, Before
    <3>2. CASE m.value # status
      <4>1. n \in Notifies' /\ Notifies' \subseteq Notifies \cup {n}
        BY <1>9, <3>2 DEF RunSet, Notifies, Posting
      <4>2. \A k \in Notifies : Before(k, n)
        BY DEF AnyClientInv, QueueOrder, Notifies, Before, Posting, TypeOK, Message
      <4>3. n.value = status'
        BY <2>1 DEF Posting
      <4> QED
        BY <4>1, <4>2, <4>3 DEF StatusLast, LastOf, Before
    <3> QED
      BY <3>1, <3>2
  <2> QED
    BY <2>2, <2>3, <2>4 DEF AnyClientInv
<1>10. ASSUME NEW m \in queue, RunNotify(m)
       PROVE  AnyClientInv'
  <2>1. /\ m \in Notifies /\ Notifies' = Notifies \ {m} /\ Sets' = Sets
        /\ QueuedSet(Acceptable)' = QueuedSet(Acceptable)
        /\ \A k \in Notifies \ {m} : Before(m, k)
    BY <1>10 DEF RunNotify, IsNext, Notifies, Sets
  <2>2. QueueOrder'
    BY <1>10 DEF RunNotify, AnyClientInv, QueueOrder
  <2>3. Settled' => AcceptableLast'
    BY <1>10, <2>1 DEF RunNotify, AnyClientInv, Settled, AcceptableLast, LastOf, Before
  <2>4. StatusLast'
    <3>1. PICK k \in Notifies : k.value = status /\ LastOf(k, Notifies)
      BY <2>1 DEF AnyClientInv, StatusLast
    <3>2. CASE k = m
      <4>1. Notifies \ {m} = {}
        BY <2>1, <3>1, <3>2 DEF LastOf, Before, TypeOK, Message, Notifies
      <4>2. \A l \in listeners' : seen'[l] = status'
        BY <1>10, <3>1, <3>2 DEF RunNotify, TypeOK
      <4> QED
        BY <2>1, <4>1, <4>2 DEF StatusLast
    <3>3. CASE k # m
      BY <1>10, <2>1, <3>1, <3>3 DEF RunNotify, StatusLast, LastOf, Before
    <3> QED
      BY <3>2, <3>3
  <2> QED
    BY <2>2, <2>3, <2>4 DEF AnyClientInv
<1>11. CASE Tick
  <2>1. QueueOrder'
    BY <1>11 DEF Tick, AnyClientInv, QueueOrder, TypeOK, Message
  <2> QED
    BY <1>11, <2>1 DEF Tick, AnyClientInv, Settled, AcceptableLast, StatusLast,
       LastOf, Before, Sets, Notifies
<1>12. ASSUME NEW l \in Listener,
              AddListener(l) \/ RemoveListener(l) \/ RemoveAllListeners
       PROVE  AnyClientInv'
  <2>1. UNCHANGED <<status, queue, posted, now, pc>>
    BY <1>12 DEF AddListener, RemoveListener, RemoveAllListeners
  <2>2. \A k \in listeners' : seen'[k] = status \/ (k \in listeners /\ seen'[k] = seen[k])
    BY <1>12 DEF AddListener, RemoveListener, RemoveAllListeners, TypeOK
  <2> QED
    BY <2>1, <2>2 DEF AnyClientInv, QueueOrder, Settled, AcceptableLast, StatusLast,
       LastOf, Before, Sets, Notifies
<1>13. CASE RemoveAllListeners
  BY <1>13 DEF RemoveAllListeners, AnyClientInv, QueueOrder, Settled, AcceptableLast,
     StatusLast, LastOf, Before, Sets, Notifies
<1>14. CASE UNCHANGED vars
  BY <1>14 DEF vars, AnyClientInv, QueueOrder, Settled, AcceptableLast, StatusLast,
     LastOf, Before, Sets, Notifies
<1> QED
  BY <1>3, <1>4, <1>5, <1>6, <1>7, <1>8, <1>9, <1>10, <1>11, <1>12, <1>13, <1>14
     DEF Next, CallStep, LooperStep

(* The strengthening holds in every reachable state.                       *)
THEOREM AnyClient == Spec => []AnyClientInv
<1>1. Init => AnyClientInv
  BY DEF Init, AnyClientInv, QueueOrder, AcceptableLast, StatusLast, Sets, Notifies
<1> QED
  BY <1>1, AnyClientStep, TypeCorrect, PTL DEF Spec

(* Whatever requests do to each other's runnables, the status is           *)
(* ACCEPTABLE once they are over and the looper has run their runnables.   *)
THEOREM QuietIsAcceptableHolds == Spec => []QuietIsAcceptable
<1>1. AnyClientInv => QuietIsAcceptable
  BY DEF AnyClientInv, QuietIsAcceptable, Outstanding, Settled, AcceptableLast,
     Sets, QueuedSet, IsSet
<1> QED
  BY <1>1, AnyClient, PTL

(* A listener that registered and read the status is never left with a     *)
(* stale one.                                                              *)
THEOREM ListenersAgreeHolds == Spec => []ListenersAgree
<1>1. AnyClientInv => ListenersAgree
  BY DEF AnyClientInv, ListenersAgree, StatusLast, Notifies
<1> QED
  BY <1>1, AnyClient, PTL

-----------------------------------------------------------------------------
(* Clients that wait for their callback.                                   *)

(* What a step that changes only the queue, by removing one runnable's     *)
(* messages, does to the three kinds of runnables.                         *)
LEMMA RemoveEffect ==
  ASSUME NEW value \in Status, RemoveCallbacks(value)
  PROVE  /\ QueuedSet(value)' = {}
         /\ \A v \in Status \ {value} : QueuedSet(v)' = QueuedSet(v)
BY DEF RemoveCallbacks, QueuedSet, IsSet

(* What a post adds to the messages of each runnable.                      *)
LEMMA PostEffect ==
  ASSUME NEW value \in Status, NEW delay, Post(value, delay)
  PROVE  /\ QueuedSet(value)' = QueuedSet(value) \cup {Posting("set", value, delay)}
         /\ \A v \in Status \ {value} : QueuedSet(v)' = QueuedSet(v)
BY DEF Post, Posting, QueuedSet, IsSet

(* Running one of the runnables takes it from the queue, and it was the    *)
(* first of them all.                                                      *)
LEMMA RunSetEffect ==
  ASSUME TypeOK, NEW m \in queue, RunSet(m)
  PROVE  /\ m \in QueuedSet(m.value) /\ m.value \in Status /\ status' = m.value
         /\ \A v \in Status : QueuedSet(v)' = QueuedSet(v) \ {m}
         /\ \A v \in Status : \A n \in QueuedSet(v) : n # m => ~Before(n, m)
<1>1. m.run = "set" /\ m.value \in Status
  BY DEF RunSet, TypeOK, Message
<1>2. \A v \in Status : QueuedSet(v)' = QueuedSet(v) \ {m}
  BY <1>1 DEF RunSet, QueuedSet, IsSet, Posting
<1>3. ASSUME NEW n \in queue, n # m
      PROVE  ~Before(n, m)
  BY <1>3 DEF RunSet, IsNext, Before, TypeOK, Message
<1> QED
  BY <1>1, <1>2, <1>3 DEF RunSet, QueuedSet, IsSet

(* Every step keeps the invariant if requests do not overlap.              *)
LEMMA CallbackClientStep ==
  /\ Client = "callback" /\ TypeOK /\ TypeOK' /\ AnyClientInv
  /\ CallbackClientInv /\ [Next]_vars
  => CallbackClientInv'
<1> SUFFICES ASSUME Client = "callback", TypeOK, TypeOK', AnyClientInv,
                    CallbackClientInv, [Next]_vars
             PROVE  CallbackClientInv'
  OBVIOUS
<1> DEFINE R == QueuedSet(Running)
           T == QueuedSet(Throttled)
           A == QueuedSet(Acceptable)
<1> USE DEF CallbackClientInv
<1>s. Running \in Status /\ Throttled \in Status /\ Acceptable \in Status
      /\ Running # Throttled /\ Running # Acceptable /\ Throttled # Acceptable
  BY DEF Status, Running, Throttled, Acceptable
(* Between a request's start and its return no other is outstanding, so    *)
(* the conjuncts about requests are about it alone.                        *)
<1>o. ASSUME NEW r \in Request, pc[r] \notin {"idle", "done"},
             NEW q \in Request, q # r
      PROVE  pc[q] \in {"idle", "done"}
  BY <1>o DEF OneAtATime, Outstanding
<1>1. ASSUME NEW r \in Request, NEW m \in Mode, StartRequest(r, m)
      PROVE  CallbackClientInv'
  <2>1. A' = {} /\ T' = T /\ R' = R
    BY <1>1, <1>s, RemoveEffect DEF StartRequest
  <2>2. \A q \in Request : q # r => pc'[q] = pc[q] /\ pc[q] \in {"idle", "done"}
    BY <1>1 DEF StartRequest, MayStart, Outstanding, Goto, TypeOK
  <2>3. pc'[r] = "start1"
    BY <1>1 DEF StartRequest, Goto, TypeOK
  <2>4. OneAtATime'
    BY <2>1, <2>2, <2>3 DEF OneAtATime, Outstanding
  <2>5. RunningWhileInFlight'
    BY <2>2, <2>3 DEF RunningWhileInFlight
  <2>6. AcceptableDue'
    BY <2>1 DEF AcceptableDue
  <2>7. CycleInv'
    BY <1>1, <2>1, <2>2, <2>3 DEF CycleInv, StartRequest, Before
  <2> QED
    BY <2>4, <2>5, <2>6, <2>7
<1>2. ASSUME NEW r \in Request, RemoveThrottled(r)
      PROVE  CallbackClientInv'
  <2>1. T' = {} /\ A' = A /\ R' = R /\ A = {}
    BY <1>2, <1>s, RemoveEffect DEF RemoveThrottled, Goto, OneAtATime
  <2>2. \A q \in Request : q # r => pc'[q] = pc[q] /\ pc[q] \in {"idle", "done"}
    BY <1>2, <1>o DEF RemoveThrottled, Goto, TypeOK
  <2>3. pc'[r] = "start2"
    BY <1>2 DEF RemoveThrottled, Goto, TypeOK
  <2>4. OneAtATime'
    BY <2>1, <2>2, <2>3 DEF OneAtATime, Outstanding
  <2>5. RunningWhileInFlight'
    BY <2>2, <2>3 DEF RunningWhileInFlight
  <2>6. AcceptableDue'
    BY <2>1 DEF AcceptableDue
  <2>7. CycleInv'
    BY <1>2, <2>1, <2>2, <2>3 DEF CycleInv, RemoveThrottled, Before
  <2> QED
    BY <2>4, <2>5, <2>6, <2>7
<1>3. ASSUME NEW r \in Request, PostRunning(r)
      PROVE  CallbackClientInv'
  <2>1. R' # {} /\ A' = {} /\ T' = {}
    BY <1>3, <1>s, PostEffect DEF PostRunning, Goto, OneAtATime
  <2>2. \A q \in Request : q # r => pc'[q] = pc[q] /\ pc[q] \in {"idle", "done"}
    BY <1>3, <1>o DEF PostRunning, Goto, TypeOK
  <2>3. pc'[r] = "running"
    BY <1>3 DEF PostRunning, Goto, TypeOK
  <2>4. OneAtATime'
    BY <2>1, <2>2, <2>3 DEF OneAtATime, Outstanding
  <2>5. RunningWhileInFlight'
    BY <2>1, <2>2 DEF RunningWhileInFlight
  <2>6. AcceptableDue'
    BY <2>1 DEF AcceptableDue
  <2>7. CycleInv'
    BY <2>1, <2>2, <2>3 DEF CycleInv
  <2> QED
    BY <2>4, <2>5, <2>6, <2>7
<1>4. ASSUME NEW r \in Request, CompleteRequest(r)
      PROVE  CallbackClientInv'
  <2> DEFINE t == Posting("set", Throttled, 0)
  <2>1. T' = {t} /\ A' = {} /\ R' = R
    BY <1>4, <1>s, PostEffect DEF CompleteRequest, Goto, OneAtATime
  <2>2. \A q \in Request : q # r => pc'[q] = pc[q] /\ pc[q] \in {"idle", "done"}
    BY <1>4, <1>o DEF CompleteRequest, Goto, TypeOK
  <2>3. pc'[r] = "complete1"
    BY <1>4 DEF CompleteRequest, Goto, TypeOK
  <2>4. OneAtATime'
    BY <2>1, <2>2, <2>3 DEF OneAtATime, Outstanding
  <2>5. RunningWhileInFlight'
    BY <2>2, <2>3 DEF RunningWhileInFlight
  <2>6. AcceptableDue'
    BY <2>1 DEF AcceptableDue
  <2>7. \A m \in R : Before(m, t)
    BY DEF AnyClientInv, QueueOrder, QueuedSet, IsSet, Before, Posting, TypeOK,
       Message, Running, Acceptable
  <2>8. R = {} => status' = Running
    BY <1>4 DEF CompleteRequest, Goto, RunningWhileInFlight
  <2>9. CycleInv'
    BY <2>1, <2>2, <2>3, <2>7, <2>8 DEF CycleInv
  <2> QED
    BY <2>4, <2>5, <2>6, <2>9
<1>5. ASSUME NEW r \in Request, PostAcceptable(r)
      PROVE  CallbackClientInv'
  <2> DEFINE a == Posting("set", Acceptable, ThrottleDuration)
  <2>1. A' = {a} /\ T' = T /\ R' = R
    BY <1>5, <1>s, PostEffect DEF PostAcceptable, Goto, OneAtATime
  <2>2. \A q \in Request : q # r => pc'[q] = pc[q] /\ pc[q] \in {"idle", "done"}
    BY <1>5, <1>o DEF PostAcceptable, Goto, TypeOK
  <2>3. pc'[r] = "complete2"
    BY <1>5 DEF PostAcceptable, Goto, TypeOK
  <2>4. OneAtATime'
    BY <2>2, <2>3 DEF OneAtATime, Outstanding
  <2>5. RunningWhileInFlight'
    BY <2>2, <2>3 DEF RunningWhileInFlight
  <2>6. AcceptableDue'
    BY <1>5, <2>1, ThrottleAssumption
       DEF PostAcceptable, AcceptableDue, Posting, TypeOK
  <2>7. \A m \in R \cup T : Before(m, a)
    BY ThrottleAssumption
       DEF AnyClientInv, QueueOrder, QueuedSet, IsSet, Before, Posting, TypeOK, Message
  <2>8. T = {} => R = {} /\ status' = Throttled
    BY <1>5 DEF PostAcceptable, Goto, CycleInv
  <2>9. status' = status
    BY <1>5 DEF PostAcceptable
  <2>10. CycleInv'
    BY <2>1, <2>2, <2>3, <2>7, <2>8, <2>9 DEF CycleInv, Before
  <2> QED
    BY <2>4, <2>5, <2>6, <2>10
<1>6. ASSUME NEW r \in Request, Return(r)
      PROVE  CallbackClientInv'
  <2>1. UNCHANGED <<status, queue, completedAt>>
    BY <1>6 DEF Return
  <2>2. \A q \in Request : q # r => pc'[q] = pc[q]
    BY <1>6 DEF Return, Goto, TypeOK
  <2>3. pc'[r] = "done"
    BY <1>6 DEF Return, Goto, TypeOK
  <2> QED
    BY <2>1, <2>2, <2>3 DEF OneAtATime, Outstanding, RunningWhileInFlight,
       AcceptableDue, CycleInv, QueuedSet, Before
<1>7. ASSUME NEW m \in queue, RunSet(m)
      PROVE  CallbackClientInv'
  <2>1. /\ m \in QueuedSet(m.value) /\ status' = m.value
        /\ m.value \in {Running, Throttled, Acceptable}
        /\ R' = R \ {m} /\ T' = T \ {m} /\ A' = A \ {m}
        /\ \A n \in R \cup T \cup A : n # m => ~Before(n, m)
    BY <1>7, <1>s, RunSetEffect DEF Status
  <2>2. pc' = pc /\ completedAt' = completedAt
    BY <1>7 DEF RunSet
  <2>3. OneAtATime'
    BY <2>1, <2>2 DEF OneAtATime, Outstanding
  <2>4. RunningWhileInFlight'
    BY <2>1, <2>2 DEF RunningWhileInFlight, OneAtATime
  <2>5. AcceptableDue'
    BY <2>1, <2>2 DEF AcceptableDue
  <2>6. CycleInv'
    <3>1. CASE m.value = Running
      <4>1. m \in R /\ m \notin T /\ m \notin A
        BY <2>1, <3>1, <1>s DEF QueuedSet, IsSet
      <4>2. R # {} /\ T' = T /\ A' = A
        BY <2>1, <4>1
      <4>3. A # {} => T # {}
        BY <4>2 DEF CycleInv
      <4>4. \A r \in Request : pc[r] = "complete1" => T # {}
        BY <4>2 DEF CycleInv
      <4> QED
        BY <2>1, <2>2, <3>1, <4>2, <4>3, <4>4 DEF CycleInv, Before
    <3>2. CASE m.value = Throttled
      <4>1. m \in T /\ m \notin R /\ m \notin A
        BY <2>1, <3>2, <1>s DEF QueuedSet, IsSet
      <4>2. R' = {} /\ T' = {} /\ A' = A
        BY <2>1, <4>1 DEF CycleInv
      <4> QED
        BY <2>1, <2>2, <3>2, <4>2 DEF CycleInv
    <3>3. CASE m.value = Acceptable
      <4>1. m \in A /\ m \notin R /\ m \notin T
        BY <2>1, <3>3, <1>s DEF QueuedSet, IsSet
      <4>2. R' = {} /\ T' = {} /\ A' = {}
        BY <2>1, <4>1 DEF CycleInv
      <4>3. \A r \in Request : pc[r] # "complete1"
        BY <4>1 DEF OneAtATime
      <4> QED
        BY <2>2, <4>2, <4>3 DEF CycleInv
    <3> QED
      BY <2>1, <3>1, <3>2, <3>3
  <2> QED
    BY <2>3, <2>4, <2>5, <2>6
<1>8. ASSUME NEW m \in queue, RunNotify(m)
      PROVE  CallbackClientInv'
  <2>1. R' = R /\ T' = T /\ A' = A /\ UNCHANGED <<status, pc, completedAt>>
    BY <1>8 DEF RunNotify, QueuedSet, IsSet
  <2> QED
    BY <2>1 DEF OneAtATime, Outstanding, RunningWhileInFlight, AcceptableDue,
       CycleInv, Before
<1>9. ASSUME UNCHANGED <<status, queue, pc, completedAt>>
      PROVE  CallbackClientInv'
  BY <1>9 DEF OneAtATime, Outstanding, RunningWhileInFlight, AcceptableDue,
     CycleInv, QueuedSet, Before
<1>10. ASSUME Tick \/ RemoveAllListeners \/ UNCHANGED vars
       PROVE  CallbackClientInv'
  BY <1>9, <1>10 DEF Tick, RemoveAllListeners, vars
<1>11. ASSUME NEW l \in Listener, AddListener(l) \/ RemoveListener(l)
       PROVE  CallbackClientInv'
  BY <1>9, <1>11 DEF AddListener, RemoveListener
<1> QED
  BY <1>1, <1>2, <1>3, <1>4, <1>5, <1>6, <1>7, <1>8, <1>10, <1>11
     DEF Next, CallStep, LooperStep

(* The strengthening holds in every reachable state.                       *)
THEOREM CallbackClient == Client = "callback" /\ Spec => []CallbackClientInv
<1> SUFFICES ASSUME Client = "callback" PROVE Spec => []CallbackClientInv
  OBVIOUS
<1>1. Init => CallbackClientInv
  BY DEF Init, CallbackClientInv, OneAtATime, Outstanding, RunningWhileInFlight,
     AcceptableDue, CycleInv, QueuedSet
<1>2. TypeOK /\ TypeOK' /\ AnyClientInv /\ CallbackClientInv /\ [Next]_vars
      => CallbackClientInv'
  BY CallbackClientStep
<1> QED
  BY <1>1, <1>2, TypeCorrect, AnyClient, PTL DEF Spec

(* A client that waits for its callbacks sees RUNNING for as long as its   *)
(* request is in flight.                                                   *)
THEOREM RunningWhileInFlightHolds ==
  Client = "callback" /\ Spec => []RunningWhileInFlight
<1>1. CallbackClientInv => RunningWhileInFlight
  BY DEF CallbackClientInv
<1> QED
  BY <1>1, CallbackClient, PTL

(* The status changes only when one of the three runnables runs.           *)
LEMMA StatusChange ==
  ASSUME [Next]_vars, status' # status
  PROVE  \E m \in queue : RunSet(m)
BY DEF Next, CallStep, LooperStep, StartRequest, RemoveThrottled, PostRunning,
   CompleteRequest, PostAcceptable, Return, RunNotify, Tick, AddListener,
   RemoveListener, RemoveAllListeners, vars

(* A client that waits for its callbacks is throttled for the whole        *)
(* duration after each of its requests.                                    *)
THEOREM ThrottleKeptHolds == Client = "callback" /\ Spec => ThrottleKept
<1>1. ASSUME TypeOK, CallbackClientInv, [Next]_vars,
             status # Acceptable, status' = Acceptable
      PROVE  now >= completedAt + ThrottleDuration
  <2>1. PICK m \in queue : RunSet(m)
    BY <1>1, StatusChange
  <2>2. m \in QueuedSet(Acceptable) /\ m.due <= now
    BY <1>1, <2>1, RunSetEffect DEF RunSet, IsNext
  <2> QED
    BY <1>1, <2>2, ThrottleAssumption
       DEF CallbackClientInv, AcceptableDue, TypeOK, Message, QueuedSet
<1>2. TypeOK /\ CallbackClientInv /\ [Next]_vars
      => [status # Acceptable /\ status' = Acceptable
            => now >= completedAt + ThrottleDuration]_vars
  BY <1>1
<1> QED
  BY <1>2, TypeCorrect, CallbackClient, PTL DEF Spec, ThrottleKept

-----------------------------------------------------------------------------
(* The observer implements TokenStatus.                                    *)

(* Calls and the looper each move the abstract state as one of its actions *)
(* does, or leave it alone.                                                *)
LEMMA ContractStep ==
  /\ Client = "callback" /\ TypeOK /\ TypeOK' /\ CallbackClientInv /\ [Next]_vars
  => [Contract!Next]_<<status, InFlight, Owed>>
<1> SUFFICES ASSUME Client = "callback", TypeOK, TypeOK', CallbackClientInv,
                    [Next]_vars
             PROVE  Contract!Next \/ UNCHANGED <<status, InFlight, Owed>>
  OBVIOUS
<1> USE DEF Contract!Next
<1>s. Running \in Status /\ Throttled \in Status /\ Acceptable \in Status
      /\ Running # Throttled /\ Running # Acceptable
  BY DEF Status, Running, Throttled, Acceptable
<1>o. ASSUME NEW r \in Request, pc[r] \notin {"idle", "done"},
             NEW q \in Request, q # r
      PROVE  pc[q] \in {"idle", "done"}
  BY <1>o DEF CallbackClientInv, OneAtATime, Outstanding
<1>1. ASSUME NEW r \in Request, NEW m \in Mode, StartRequest(r, m)
      PROVE  UNCHANGED <<status, InFlight, Owed>>
  <2>1. QueuedSet(Running)' = QueuedSet(Running)
    BY <1>1, <1>s, RemoveEffect DEF StartRequest
  <2> QED
    BY <1>1, <2>1 DEF StartRequest, Goto, InFlight, Owed, TypeOK
(* The request starts, for the abstract client, when the last of the       *)
(* earlier runnables is gone.                                              *)
<1>2. ASSUME NEW r \in Request, RemoveThrottled(r)
      PROVE  Contract!Start
  <2>1. ~InFlight
    BY <1>2, <1>o DEF RemoveThrottled, Goto, InFlight
  <2>2. InFlight' /\ Owed'
    BY <1>2 DEF RemoveThrottled, Goto, InFlight, Owed, TypeOK
  <2> QED
    BY <1>2, <2>1, <2>2 DEF Contract!Start, RemoveThrottled, InFlight, Owed
<1>3. ASSUME NEW r \in Request, PostRunning(r)
      PROVE  UNCHANGED <<status, InFlight, Owed>>
  <2>1. InFlight /\ Owed
    BY <1>3 DEF PostRunning, Goto, InFlight, Owed
  <2>2. InFlight'
    BY <1>3 DEF PostRunning, Goto, InFlight, TypeOK
  <2>3. Owed'
    BY <1>3, <1>s, PostEffect DEF PostRunning, Owed
  <2> QED
    BY <1>3, <2>1, <2>2, <2>3 DEF PostRunning, InFlight, Owed
<1>4. ASSUME NEW r \in Request, CompleteRequest(r)
      PROVE  Contract!Complete
  <2>1. InFlight
    BY <1>4 DEF CompleteRequest, Goto, InFlight
  <2>2. ~InFlight'
    BY <1>4, <1>o DEF CompleteRequest, Goto, InFlight, TypeOK
  <2>3. QueuedSet(Running)' = QueuedSet(Running)
    BY <1>4, <1>s, PostEffect DEF CompleteRequest
  <2>4. Owed' = Owed
    BY <1>4, <1>o, <2>3 DEF CompleteRequest, Goto, Owed, TypeOK
  <2> QED
    BY <1>4, <2>1, <2>2, <2>4 DEF Contract!Complete, CompleteRequest, InFlight
<1>5. ASSUME NEW r \in Request, PostAcceptable(r) \/ Return(r)
      PROVE  UNCHANGED <<status, InFlight, Owed>>
  <2>1. QueuedSet(Running)' = QueuedSet(Running)
    BY <1>5, <1>s, PostEffect DEF PostAcceptable, Return, QueuedSet
  <2> QED
    BY <1>5, <2>1 DEF PostAcceptable, Return, Goto, InFlight, Owed, TypeOK
(* The three runnables are the three ways the abstract status changes.     *)
<1>6. ASSUME NEW m \in queue, RunSet(m)
      PROVE  Contract!Next \/ UNCHANGED <<status, InFlight, Owed>>
  <2>1. /\ m \in QueuedSet(m.value) /\ status' = m.value
        /\ m.value \in {Running, Throttled, Acceptable}
        /\ QueuedSet(Running)' = QueuedSet(Running) \ {m}
        /\ \A v \in Status : \A n \in QueuedSet(v) : n # m => ~Before(n, m)
    BY <1>6, RunSetEffect, <1>s DEF Status
  <2>2. pc' = pc /\ InFlight' = InFlight
    BY <1>6 DEF RunSet, InFlight
  <2>3. CASE m.value = Running
    <3>1. Owed /\ Owed' \in BOOLEAN
      BY <2>1, <2>3 DEF Owed
    <3> QED
      BY <2>1, <2>2, <2>3, <3>1 DEF Contract!ShowRunning, Running, InFlight, Owed
  <2>4. CASE m.value = Throttled
    <3>1. m \in QueuedSet(Throttled) /\ m \notin QueuedSet(Running)
      BY <2>1, <2>4, <1>s DEF QueuedSet, IsSet
    <3>2. QueuedSet(Running) = {} /\ status = Running
      BY <2>1, <3>1, <1>s DEF CallbackClientInv, CycleInv
    <3>3. ~InFlight /\ ~Owed /\ ~Owed'
      BY <2>1, <2>2, <3>1, <3>2
         DEF InFlight, Owed, CallbackClientInv, OneAtATime
    <3> QED
      BY <2>1, <2>2, <2>4, <3>2, <3>3
         DEF Contract!ShowThrottled, Running, Throttled, InFlight, Owed
  <2>5. CASE m.value = Acceptable
    <3>1. m \in QueuedSet(Acceptable)
      BY <2>1, <2>5
    <3>2. m \notin QueuedSet(Throttled)
      BY <2>5 DEF QueuedSet, IsSet, Acceptable, Throttled
    <3>3. QueuedSet(Running) = {} /\ status = Throttled
      BY <2>1, <3>1, <3>2, <1>s DEF CallbackClientInv, CycleInv
    <3>4. ~InFlight /\ ~Owed /\ ~Owed'
      BY <2>1, <2>2, <3>1, <3>3
         DEF InFlight, Owed, CallbackClientInv, OneAtATime
    <3> QED
      BY <2>1, <2>2, <2>5, <3>3, <3>4
         DEF Contract!ShowAcceptable, Throttled, Acceptable, InFlight, Owed
  <2> QED
    BY <2>1, <2>3, <2>4, <2>5
<1>7. ASSUME NEW m \in queue, RunNotify(m)
      PROVE  UNCHANGED <<status, InFlight, Owed>>
  BY <1>7 DEF RunNotify, InFlight, Owed, QueuedSet, IsSet
<1>8. ASSUME UNCHANGED <<status, queue, pc>>
      PROVE  UNCHANGED <<status, InFlight, Owed>>
  BY <1>8 DEF InFlight, Owed, QueuedSet
<1>9. ASSUME Tick \/ RemoveAllListeners \/ UNCHANGED vars
      PROVE  UNCHANGED <<status, InFlight, Owed>>
  BY <1>8, <1>9 DEF Tick, RemoveAllListeners, vars
<1>10. ASSUME NEW l \in Listener, AddListener(l) \/ RemoveListener(l)
       PROVE  UNCHANGED <<status, InFlight, Owed>>
  BY <1>8, <1>10 DEF AddListener, RemoveListener
<1> QED
  BY <1>1, <1>2, <1>3, <1>4, <1>5, <1>6, <1>7, <1>9, <1>10
     DEF Next, CallStep, LooperStep

(* To a client that waits for its callbacks the observer, its runnables,   *)
(* its looper and its threads look like TokenStatus.                       *)
THEOREM KeepsContractHolds == Client = "callback" /\ Spec => KeepsContract
<1> SUFFICES ASSUME Client = "callback" PROVE Spec => KeepsContract
  OBVIOUS
<1>1. Init => Contract!Init
  BY DEF Init, Contract!Init, InFlight, Owed, QueuedSet, Acceptable
<1>2. TypeOK /\ TypeOK' /\ CallbackClientInv /\ [Next]_vars
      => [Contract!Next]_<<status, InFlight, Owed>>
  BY ContractStep
<1>3. Spec => []CallbackClientInv
  BY CallbackClient
<1> QED
  BY <1>1, <1>2, <1>3, TypeCorrect, PTL DEF Spec, KeepsContract, Contract!Spec
=============================================================================

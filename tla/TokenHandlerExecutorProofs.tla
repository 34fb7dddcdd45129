--------------------- MODULE TokenHandlerExecutorProofs ---------------------
(***************************************************************************)
(* Proofs about TokenHandlerExecutor.  The executor promises its clients   *)
(* what OwnStatus, NoCallbackAfterCancel and NoHandlerAfterCancel say only *)
(* if a screen does not follow another before the executors have drained;  *)
(* the theorems therefore assume Reopen = "drained".                       *)
(***************************************************************************)
EXTENDS TokenHandlerExecutor, TLAPS

Listed(p, queue) == \E i \in 1 .. Len(queue) : queue[i] = p

(* The background thread works on the head of its queue.                   *)
JobsInOrder ==
  /\ \A p \in Post : future[p] \in {"queued", "handling", "returned"} => Listed(p, jobs)
  /\ \A p \in Post : future[p] \in {"handling", "returned"} =>
       jobs # <<>> /\ p = Head(jobs)

(* With TypeOK it holds however soon a screen follows another.             *)
BaseInv == TypeOK /\ JobsInOrder

(* A status waits once for its callback, and only before it is given.      *)
CallbacksOnce ==
  /\ \A p \in Post : Listed(p, callbacks) => future[p] = "done" /\ delivered[p] = <<>>
  /\ \A i, j \in 1 .. Len(callbacks) : callbacks[i] = callbacks[j] => i = j

(* A post that has not been made has left no trace.                        *)
UnmadePosts ==
  \A p \in Post :
    /\ future[p] = "none" <=> owner[p] = None
    /\ future[p] = "none" =>
         delivered[p] = <<>> /\ p \notin cancelled /\ p # currentFuture

(* One screen at a time, and while it lives the executors work for no      *)
(* other; it waits for one post at a time.                                 *)
OneScreen ==
  /\ \A s, t \in Screen : screen[s] = "live" /\ screen[t] = "live" => s = t
  /\ \A s \in Screen, p \in Post :
       screen[s] = "live" /\ (Listed(p, jobs) \/ Listed(p, callbacks)) => owner[p] = s
  /\ \A p, q \in Post :
       owner[p] # None /\ owner[p] = owner[q] /\ delivered[p] = <<>> /\ delivered[q] = <<>>
         => p = q

(* The remembered callback and the remembered future belong to the post    *)
(* the live screen waits for.                                              *)
LatestPost ==
  /\ pendingCallback # None =>
       OwnerIs(pendingCallback, "live") /\ delivered[pendingCallback] = <<>>
  /\ \A p \in Post : future[p] = "queued" /\ p \notin cancelled =>
       OwnerIs(p, "live") /\ p = currentFuture

(* Each callback has been given its own post's status at most.             *)
GivenOnce == OwnStatus /\ \A p \in Post : delivered[p] = <<p>> => future[p] = "done"

(* The inductive invariant behind the theorems about drained executors.    *)
DrainedRest ==
  GivenOnce /\ CallbacksOnce /\ UnmadePosts /\ OneScreen /\ LatestPost

DrainedInv == BaseInv /\ DrainedRest

-----------------------------------------------------------------------------
(* What appending to a queue and taking its head off do to what is listed. *)

(* Appending lists one more and leaves the head where it was.              *)
LEMMA AppendListed ==
  ASSUME NEW queue \in Seq(Post), NEW p \in Post, NEW q \in Post
  PROVE  /\ Append(queue, p) # <<>>
         /\ queue # <<>> => Head(Append(queue, p)) = Head(queue)
         /\ Listed(q, Append(queue, p)) <=> Listed(q, queue) \/ q = p
<1>1. Len(Append(queue, p)) = Len(queue) + 1 /\ Len(queue) \in Nat
  OBVIOUS
<1>2. Append(queue, p) # <<>>
  BY <1>1
<1>3. queue # <<>> => Head(Append(queue, p)) = Head(queue)
  <2>1. queue # <<>> => Len(queue) >= 1
    OBVIOUS
  <2> QED
    BY <1>2, <2>1
<1> QED
  BY <1>2, <1>3 DEF Listed

(* The head is listed, and taking it off leaves the others listed.         *)
LEMMA HeadListed ==
  ASSUME NEW queue \in Seq(Post), queue # <<>>
  PROVE  /\ Head(queue) \in Post /\ Tail(queue) \in Seq(Post)
         /\ Listed(Head(queue), queue)
         /\ \A q \in Post : Listed(q, queue) <=> q = Head(queue) \/ Listed(q, Tail(queue))
<1>1. /\ Head(queue) \in Post /\ Tail(queue) \in Seq(Post)
      /\ Head(queue) = queue[1]
      /\ Len(queue) \in Nat /\ Len(queue) >= 1
      /\ Len(Tail(queue)) = Len(queue) - 1
      /\ \A i \in 1 .. Len(Tail(queue)) : Tail(queue)[i] = queue[i + 1]
  OBVIOUS
<1>2. Listed(Head(queue), queue)
  BY <1>1 DEF Listed
<1>3. ASSUME NEW q \in Post, Listed(q, queue), q # Head(queue)
      PROVE  Listed(q, Tail(queue))
  <2>1. PICK i \in 1 .. Len(queue) : queue[i] = q
    BY <1>3 DEF Listed
  <2>2. i # 1
    BY <1>1, <1>3, <2>1
  <2>3. i - 1 \in 1 .. Len(Tail(queue)) /\ Tail(queue)[i - 1] = q
    BY <1>1, <2>1, <2>2
  <2> QED
    BY <2>3 DEF Listed
<1>4. ASSUME NEW q \in Post, Listed(q, Tail(queue))
      PROVE  Listed(q, queue)
  <2>1. PICK i \in 1 .. Len(Tail(queue)) : Tail(queue)[i] = q
    BY <1>4 DEF Listed
  <2>2. i + 1 \in 1 .. Len(queue) /\ queue[i + 1] = q
    BY <1>1, <2>1
  <2> QED
    BY <2>2 DEF Listed
<1> QED
  BY <1>1, <1>2, <1>3, <1>4

-----------------------------------------------------------------------------
(* The executors begin with empty queues.                                  *)
LEMMA BaseInitial == Init => BaseInv
<1> SUFFICES ASSUME Init PROVE BaseInv
  OBVIOUS
<1>1. <<>> \in Seq(Post)
  OBVIOUS
<1>2. delivered \in [Post -> Seq(Post)]
  BY <1>1 DEF Init
<1> QED
  BY <1>1, <1>2 DEF Init, BaseInv, TypeOK, JobsInOrder, FutureState

(* Every step keeps the types and the order of the jobs.                   *)
LEMMA BaseStep == BaseInv /\ [Next]_vars => BaseInv'
<1> SUFFICES ASSUME BaseInv, [Next]_vars PROVE TypeOK' /\ JobsInOrder'
  BY DEF BaseInv
<1> USE DEF BaseInv, TypeOK, FutureState
<1>1. CASE UNCHANGED vars
  BY <1>1 DEF vars, JobsInOrder, Listed
<1>2. ASSUME NEW s \in Screen, Open(s) PROVE TypeOK' /\ JobsInOrder'
  BY <1>2 DEF Open, JobsInOrder, Listed
<1>3. ASSUME NEW s \in Screen, Cancel(s) PROVE TypeOK' /\ JobsInOrder'
  BY <1>3 DEF Cancel, JobsInOrder, Listed
<1>4. ASSUME NEW s \in Screen, NEW p \in Post, PostToken(s, p) PROVE TypeOK' /\ JobsInOrder'
  <2>1. TypeOK'
    BY <1>4 DEF PostToken
  <2>2. jobs' = Append(jobs, p)
    BY <1>4 DEF PostToken
  <2>3. /\ jobs # <<>> => Head(jobs') = Head(jobs)
        /\ jobs' # <<>>
        /\ \A q \in Post : Listed(q, jobs') <=> Listed(q, jobs) \/ q = p
    BY <2>2, AppendListed
  <2> QED
    BY <1>4, <2>1, <2>2, <2>3 DEF PostToken, JobsInOrder
<1>5. ASSUME NEW p \in Post, Begin(p) PROVE TypeOK' /\ JobsInOrder'
  <2>1. CASE p \notin cancelled
    <3>1. \A q \in Post : Listed(q, jobs') <=> Listed(q, jobs)
      BY <1>5, <2>1 DEF Begin
    <3>2. future' = [future EXCEPT ![p] = "handling"] /\ jobs' = jobs
          /\ future[p] = "queued" /\ jobs # <<>> /\ p = Head(jobs)
      BY <1>5, <2>1 DEF Begin
    <3>3. JobsInOrder'
      BY <3>1, <3>2 DEF JobsInOrder
    <3> QED
      BY <1>5, <2>1, <3>3 DEF Begin
  <2>2. CASE p \in cancelled
    <3>0. jobs' = Tail(jobs) /\ jobs # <<>> /\ p = Head(jobs)
      BY <1>5, <2>2 DEF Begin
    <3>1. /\ Tail(jobs) \in Seq(Post)
          /\ \A q \in Post : Listed(q, jobs) <=> q = p \/ Listed(q, jobs')
      BY <3>0, HeadListed
    <3> QED
      BY <1>5, <2>2, <3>0, <3>1 DEF Begin, JobsInOrder
  <2> QED
    BY <2>1, <2>2
<1>6. ASSUME NEW p \in Post, HandlerReturns(p) PROVE TypeOK' /\ JobsInOrder'
  BY <1>6 DEF HandlerReturns, JobsInOrder, Listed
<1>7. ASSUME NEW p \in Post, HandlerThrows(p) PROVE TypeOK' /\ JobsInOrder'
  <2>1. jobs # <<>> /\ p = Head(jobs)
    BY <1>7 DEF HandlerThrows, JobsInOrder
  <2>2. /\ Tail(jobs) \in Seq(Post)
        /\ \A q \in Post : Listed(q, jobs) <=> q = p \/ Listed(q, jobs)'
    BY <1>7, <2>1, HeadListed DEF HandlerThrows, Listed
  <2> QED
    BY <1>7, <2>1, <2>2 DEF HandlerThrows, JobsInOrder
<1>8. ASSUME NEW p \in Post, ExecuteCallback(p) PROVE TypeOK' /\ JobsInOrder'
  <2>1. jobs # <<>> /\ p = Head(jobs)
    BY <1>8 DEF ExecuteCallback, JobsInOrder
  <2>2. /\ Tail(jobs) \in Seq(Post)
        /\ \A q \in Post : Listed(q, jobs) <=> q = p \/ Listed(q, jobs)'
    BY <1>8, <2>1, HeadListed DEF ExecuteCallback, Listed
  <2> QED
    BY <1>8, <2>1, <2>2 DEF ExecuteCallback, JobsInOrder
<1>9. CASE RunCallback
  <2>1. Head(callbacks) \in Post /\ Tail(callbacks) \in Seq(Post)
    BY <1>9, HeadListed DEF RunCallback
  <2>2. delivered' \in [Post -> Seq(Post)]
    <3>1. \A p \in Post : Append(delivered[p], Head(callbacks)) \in Seq(Post)
      BY <2>1
    <3> QED
      BY <1>9, <3>1 DEF RunCallback
  <2> QED
    BY <1>9, <2>1, <2>2 DEF RunCallback, JobsInOrder, Listed
<1>10. CASE BeginGet
  BY <1>10 DEF BeginGet, JobsInOrder, Listed
<1>11. CASE EndGet
  BY <1>11 DEF EndGet, JobsInOrder, Listed
<1> QED
  BY <1>1, <1>2, <1>3, <1>4, <1>5, <1>6, <1>7, <1>8, <1>9, <1>10, <1>11 DEF Next

(* TypeOK of TokenHandlerExecutorImpl's state, for every value of the      *)
(* constants.                                                              *)
THEOREM TypeCorrect == Spec => []TypeOK
  BY BaseInitial, BaseStep, PTL DEF Spec, BaseInv

-----------------------------------------------------------------------------
(* Nothing has been posted at first.                                       *)
LEMMA DrainedInitial == Init => DrainedInv
<1> SUFFICES ASSUME Init PROVE DrainedRest
  BY BaseInitial DEF DrainedInv
<1>1. jobs = <<>> /\ callbacks = <<>> /\ Len(callbacks) = 0 /\ Len(jobs) = 0
  BY DEF Init
<1>2. \A p \in Post : ~Listed(p, jobs) /\ ~Listed(p, callbacks)
  BY <1>1 DEF Listed
<1>3. \A p \in Post : <<p>> # <<>>
  OBVIOUS
<1>4. GivenOnce
  BY <1>3 DEF Init, GivenOnce, OwnStatus
<1>5. CallbacksOnce
  BY <1>1, <1>2 DEF CallbacksOnce
<1>6. UnmadePosts
  BY NoneAssumption DEF Init, UnmadePosts
<1>7. OneScreen
  BY DEF Init, OneScreen
<1>8. LatestPost
  BY DEF Init, LatestPost
<1> QED
  BY <1>4, <1>5, <1>6, <1>7, <1>8 DEF DrainedRest

(* What the background thread does to a job that it does not complete.     *)
LEMMA WorkStep ==
  ASSUME BaseInv, DrainedRest, NEW p \in Post,
         jobs # <<>>, future[p] \in {"queued", "handling"},
         \E f \in {"handling", "returned", "threw", "dropped"} :
           future' = [future EXCEPT ![p] = f],
         jobs' \in {jobs, Tail(jobs)},
         UNCHANGED <<screen, owner, pendingCallback, currentFuture, cancelled,
                     callbacks, delivered>>
  PROVE  DrainedRest'
<1> USE DEF DrainedRest
<1>1. /\ future \in [Post -> FutureState]
      /\ \A q \in Post : q # p => future'[q] = future[q]
      /\ future'[p] \in {"handling", "returned", "threw", "dropped"}
  BY DEF BaseInv, TypeOK
<1>2. \A q \in Post : Listed(q, jobs') => Listed(q, jobs)
  BY HeadListed DEF BaseInv, TypeOK
<1>3. delivered[p] # <<p>>
  BY DEF GivenOnce
<1>4. GivenOnce'
  BY <1>1, <1>3 DEF GivenOnce, OwnStatus
<1>5. CallbacksOnce'
  BY <1>1 DEF CallbacksOnce, Listed
<1>6. UnmadePosts'
  BY <1>1 DEF UnmadePosts
<1>7. OneScreen'
  BY <1>2 DEF OneScreen, Listed
<1>8. LatestPost'
  BY <1>1 DEF LatestPost, OwnerIs
<1> QED
  BY <1>4, <1>5, <1>6, <1>7, <1>8

(* No step of drained executors disturbs the invariant.                    *)
LEMMA DrainedStep ==
  ASSUME Reopen = "drained", DrainedInv, [Next]_vars
  PROVE  DrainedInv'
<1> SUFFICES DrainedRest'
  BY BaseStep DEF DrainedInv
<1> USE DEF DrainedInv, DrainedRest
<1>0. TypeOK /\ TypeOK' /\ JobsInOrder
  BY BaseStep DEF BaseInv
<1>1. CASE UNCHANGED vars
  BY <1>1 DEF vars, GivenOnce, OwnStatus, CallbacksOnce, UnmadePosts, OneScreen,
     LatestPost, OwnerIs, Listed
<1>2. ASSUME NEW s \in Screen, Open(s) PROVE DrainedRest'
  <2>1. Live = {} /\ jobs = <<>> /\ callbacks = <<>>
    BY <1>2 DEF Open
  <2>2. \A p \in Post : ~Listed(p, jobs) /\ ~Listed(p, callbacks)
    BY <2>1 DEF Listed
  <2>3. \A p \in Post : ~OwnerIs(p, "live")
    BY <1>0, <2>1 DEF OwnerIs, Live, TypeOK
  <2>4. pendingCallback = None
    BY <2>3, <1>0 DEF LatestPost, TypeOK
  <2>5. \A p \in Post : future[p] = "queued" => p \in cancelled
    BY <2>3 DEF LatestPost
  <2>6. GivenOnce' /\ CallbacksOnce' /\ UnmadePosts'
    BY <1>2 DEF Open, GivenOnce, OwnStatus, CallbacksOnce, UnmadePosts, Listed
  <2>7. OneScreen'
    BY <1>0, <1>2, <2>1, <2>2 DEF Open, OneScreen, Live, TypeOK, Listed
  <2>8. LatestPost'
    BY <1>2, <2>4, <2>5 DEF Open, LatestPost
  <2> QED
    BY <2>6, <2>7, <2>8
<1>3. ASSUME NEW s \in Screen, Cancel(s) PROVE DrainedRest'
  <2>1. GivenOnce' /\ CallbacksOnce'
    BY <1>3 DEF Cancel, GivenOnce, OwnStatus, CallbacksOnce, Listed
  <2>2. \A p \in Post : future[p] = "queued" => p \in cancelled'
    BY <1>0, <1>3, NoneAssumption DEF Cancel, LatestPost, IsDone, TypeOK
  <2>3. UnmadePosts'
    BY <1>3 DEF Cancel, UnmadePosts
  <2>4. OneScreen'
    <3>1. \A t \in Screen : screen'[t] = "live" => screen[t] = "live"
      BY <1>0, <1>3 DEF Cancel, TypeOK
    <3> QED
      BY <1>3, <3>1 DEF Cancel, OneScreen, Listed
  <2>5. LatestPost'
    BY <1>3, <2>2 DEF Cancel, LatestPost
  <2> QED
    BY <2>1, <2>3, <2>4, <2>5
<1>4. ASSUME NEW s \in Screen, NEW p \in Post, PostToken(s, p) PROVE DrainedRest'
  <2>1. /\ owner[p] = None /\ delivered[p] = <<>> /\ p \notin cancelled
        /\ owner' = [owner EXCEPT ![p] = s]
        /\ future' = [future EXCEPT ![p] = "queued"]
        /\ UNCHANGED <<screen, cancelled, callbacks, delivered>>
        /\ \A q \in Post : owner[q] = s => delivered[q] # <<>>
        /\ owner \in [Post -> Screen \cup {None}] /\ future \in [Post -> FutureState]
        /\ future[p] = "none" /\ s # None /\ screen[s] = "live"
    BY <1>0, <1>4, NoneAssumption DEF PostToken, UnmadePosts, Awaiting, TypeOK
  <2>2. \A q \in Post : /\ Listed(q, jobs') <=> Listed(q, jobs) \/ q = p
                        /\ Listed(q, callbacks') <=> Listed(q, callbacks)
    BY <1>0, <1>4, AppendListed DEF PostToken, TypeOK
  <2>3. GivenOnce'
    BY <2>1 DEF GivenOnce, OwnStatus
  <2>4. CallbacksOnce'
    BY <2>1, <2>2 DEF CallbacksOnce
  <2>5. UnmadePosts'
    BY <1>4, <2>1 DEF PostToken, UnmadePosts
  <2>6. OneScreen'
    BY <2>1, <2>2 DEF OneScreen
  <2>7. \A q \in Post : future[q] = "queued" => q \in cancelled
    <3>1. \A q \in Post : OwnerIs(q, "live") => owner[q] = s
      BY <2>1 DEF OneScreen, OwnerIs
    <3>2. \A q \in Post : future[q] = "queued" => delivered[q] = <<>>
      BY DEF GivenOnce, OwnStatus
    <3> QED
      BY <2>1, <3>1, <3>2 DEF LatestPost
  <2>8. LatestPost'
    BY <1>4, <2>1, <2>7 DEF PostToken, LatestPost, OwnerIs
  <2> QED
    BY <2>3, <2>4, <2>5, <2>6, <2>8
<1>5. ASSUME NEW p \in Post, Begin(p) PROVE DrainedRest'
  <2>1. /\ jobs # <<>> /\ future[p] = "queued"
        /\ \E f \in {"handling", "dropped"} : future' = [future EXCEPT ![p] = f]
        /\ jobs' \in {jobs, Tail(jobs)}
        /\ UNCHANGED <<screen, owner, pendingCallback, currentFuture, cancelled,
                       callbacks, delivered>>
    BY <1>5 DEF Begin
  <2> QED
    BY <2>1, WorkStep
<1>6. ASSUME NEW p \in Post, HandlerReturns(p) PROVE DrainedRest'
  <2>1. /\ jobs # <<>> /\ future[p] = "handling"
        /\ future' = [future EXCEPT ![p] = "returned"]
        /\ jobs' = jobs
        /\ UNCHANGED <<screen, owner, pendingCallback, currentFuture, cancelled,
                       callbacks, delivered>>
    BY <1>0, <1>6 DEF HandlerReturns, JobsInOrder
  <2> QED
    BY <2>1, WorkStep
<1>7. ASSUME NEW p \in Post, HandlerThrows(p) PROVE DrainedRest'
  <2>1. /\ jobs # <<>> /\ future[p] = "handling"
        /\ future' = [future EXCEPT ![p] = "threw"]
        /\ jobs' = Tail(jobs)
        /\ UNCHANGED <<screen, owner, pendingCallback, currentFuture, cancelled,
                       callbacks, delivered>>
    BY <1>0, <1>7 DEF HandlerThrows, JobsInOrder
  <2> QED
    BY <2>1, WorkStep
<1>8. ASSUME NEW p \in Post, ExecuteCallback(p) PROVE DrainedRest'
  <2>1. /\ future[p] = "returned" /\ jobs # <<>> /\ p = Head(jobs)
        /\ future' = [future EXCEPT ![p] = "done"]
        /\ callbacks' = Append(callbacks, p)
        /\ jobs' = Tail(jobs)
        /\ UNCHANGED <<screen, owner, pendingCallback, currentFuture, cancelled,
                       delivered>>
        /\ future \in [Post -> FutureState]
    BY <1>0, <1>8 DEF ExecuteCallback, JobsInOrder, TypeOK
  <2>2. \A q \in Post : /\ Listed(q, jobs) <=> q = p \/ Listed(q, jobs')
                        /\ Listed(q, callbacks') <=> Listed(q, callbacks) \/ q = p
    BY <1>0, <2>1, HeadListed, AppendListed DEF TypeOK
  <2>3. ~Listed(p, callbacks) /\ delivered[p] = <<>>
    BY <2>1 DEF CallbacksOnce, GivenOnce, OwnStatus
  <2>4. GivenOnce'
    BY <2>1 DEF GivenOnce, OwnStatus
  <2>5. CallbacksOnce'
    <3>1. \A q \in Post : Listed(q, callbacks') => future'[q] = "done" /\ delivered'[q] = <<>>
      BY <2>1, <2>2, <2>3 DEF CallbacksOnce
    <3>2. /\ callbacks \in Seq(Post) /\ Len(callbacks') = Len(callbacks) + 1
          /\ callbacks'[Len(callbacks) + 1] = p
          /\ \A i \in 1 .. Len(callbacks) : callbacks'[i] = callbacks[i] /\ callbacks[i] # p
      <4>1. callbacks \in Seq(Post)
        BY <1>0 DEF TypeOK
      <4>2. \A i \in 1 .. Len(callbacks) : callbacks[i] # p
        BY <2>3 DEF Listed
      <4> QED
        BY <2>1, <4>1, <4>2
    <3>3. \A i, j \in 1 .. Len(callbacks') : callbacks'[i] = callbacks'[j] => i = j
      BY <3>2 DEF CallbacksOnce
    <3> QED
      BY <3>1, <3>3 DEF CallbacksOnce
  <2>6. UnmadePosts'
    BY <2>1 DEF UnmadePosts
  <2>7. OneScreen'
    BY <2>1, <2>2 DEF OneScreen
  <2>8. LatestPost'
    BY <2>1 DEF LatestPost, OwnerIs
  <2> QED
    BY <2>4, <2>5, <2>6, <2>7, <2>8
<1>9. CASE RunCallback
  <2>1. /\ callbacks \in Seq(Post) /\ callbacks # <<>> /\ callbacks' = Tail(callbacks)
        /\ pendingCallback' = None
        /\ UNCHANGED <<screen, owner, currentFuture, future, cancelled, jobs>>
    BY <1>0, <1>9 DEF RunCallback, TypeOK
  <2>2. /\ Head(callbacks) \in Post /\ Listed(Head(callbacks), callbacks)
        /\ future[Head(callbacks)] = "done" /\ delivered[Head(callbacks)] = <<>>
        /\ \A q \in Post : Listed(q, callbacks') => Listed(q, callbacks)
    BY <2>1, HeadListed DEF CallbacksOnce
  <2>3. /\ Len(callbacks') = Len(callbacks) - 1 /\ Len(callbacks) \in Nat
        /\ \A i \in 1 .. Len(callbacks') : i + 1 \in 1 .. Len(callbacks)
                                            /\ callbacks'[i] = callbacks[i + 1]
        /\ callbacks[1] = Head(callbacks) /\ 1 \in 1 .. Len(callbacks)
    BY <2>1
  <2>4. ~Listed(Head(callbacks), callbacks')
    BY <2>3 DEF CallbacksOnce, Listed
  <2>5. /\ delivered' \in [Post -> Seq(Post)] /\ delivered \in [Post -> Seq(Post)]
        /\ \A q \in Post : delivered'[q] # delivered[q] =>
             q = Head(callbacks) /\ delivered'[q] = <<q>>
    <3>1. CASE pendingCallback = None
      BY <1>0, <1>9, <3>1 DEF RunCallback, TypeOK
    <3>2. CASE pendingCallback # None
      <4>1. pendingCallback = Head(callbacks)
        <5>1. /\ pendingCallback \in Post /\ delivered[pendingCallback] = <<>>
              /\ OwnerIs(pendingCallback, "live")
          BY <1>0, <3>2 DEF LatestPost, TypeOK
        <5>2. PICK s \in Screen : owner[pendingCallback] = s /\ screen[s] = "live"
          BY <5>1 DEF OwnerIs
        <5>3. owner[Head(callbacks)] = s /\ s # None
          BY <2>2, <5>2, NoneAssumption DEF OneScreen
        <5> QED
          BY <2>2, <5>1, <5>2, <5>3 DEF OneScreen
      <4>2. Append(delivered[Head(callbacks)], Head(callbacks)) = <<Head(callbacks)>>
        BY <2>2
      <4> QED
        BY <1>0, <1>9, <2>2, <3>2, <4>1, <4>2 DEF RunCallback, TypeOK
    <3> QED
      BY <3>1, <3>2
  <2>6. GivenOnce'
    BY <2>1, <2>2, <2>5 DEF GivenOnce, OwnStatus
  <2>7. CallbacksOnce'
    <3>1. \A i, j \in 1 .. Len(callbacks') : callbacks'[i] = callbacks'[j] => i = j
      BY <2>3 DEF CallbacksOnce
    <3>2. \A q \in Post : Listed(q, callbacks') => future'[q] = "done" /\ delivered'[q] = <<>>
      BY <2>1, <2>2, <2>4, <2>5 DEF CallbacksOnce
    <3> QED
      BY <3>1, <3>2 DEF CallbacksOnce
  <2>8. UnmadePosts'
    BY <2>1, <2>2, <2>5 DEF UnmadePosts
  <2>9. \A q \in Post : delivered'[q] = <<>> => delivered[q] = <<>>
    <3>1. \A q \in Post : <<q>> # <<>>
      OBVIOUS
    <3> QED
      BY <2>5, <3>1
  <2>10. OneScreen'
    BY <2>1, <2>2, <2>9 DEF OneScreen, Listed
  <2>11. LatestPost'
    BY <2>1 DEF LatestPost, OwnerIs
  <2> QED
    BY <2>6, <2>7, <2>8, <2>10, <2>11
<1>10. CASE BeginGet
  BY <1>10 DEF BeginGet, GivenOnce, OwnStatus, CallbacksOnce, UnmadePosts, OneScreen,
     LatestPost, OwnerIs, Listed
<1>11. CASE EndGet
  BY <1>11 DEF EndGet, GivenOnce, OwnStatus, CallbacksOnce, UnmadePosts, OneScreen,
     LatestPost, OwnerIs, Listed
<1> QED
  BY <1>1, <1>2, <1>3, <1>4, <1>5, <1>6, <1>7, <1>8, <1>9, <1>10, <1>11 DEF Next

-----------------------------------------------------------------------------
(* The theorems: in TokenHandlerExecutorImpl, with drained executors, a    *)
(* callback gets its own post's status, once.                              *)
THEOREM OwnStatusHolds == Reopen = "drained" => (Spec => []OwnStatus)
<1> SUFFICES ASSUME Reopen = "drained" PROVE Spec => []OwnStatus
  OBVIOUS
<1>1. DrainedInv /\ [Next]_vars => DrainedInv'
  BY DrainedStep
<1>2. DrainedInv => OwnStatus
  BY DEF DrainedInv, DrainedRest, GivenOnce
<1> QED
  BY DrainedInitial, <1>1, <1>2, PTL DEF Spec

(* A step calls back or starts the handler for a live screen only.         *)
LEMMA LiveOnly ==
  ASSUME DrainedInv, [Next]_vars
  PROVE  \A p \in Post :
           /\ delivered'[p] # delivered[p] => OwnerIs(p, "live")
           /\ future[p] = "queued" /\ future'[p] = "handling" => OwnerIs(p, "live")
<1> SUFFICES ASSUME NEW p \in Post
             PROVE  /\ delivered'[p] # delivered[p] => OwnerIs(p, "live")
                    /\ future[p] = "queued" /\ future'[p] = "handling" => OwnerIs(p, "live")
  OBVIOUS
<1>0. TypeOK /\ LatestPost
  BY DEF DrainedInv, DrainedRest, BaseInv
<1>1. CASE UNCHANGED <<delivered, future>>
  BY <1>1
<1>2. CASE RunCallback
  BY <1>0, <1>2 DEF RunCallback, LatestPost, TypeOK
<1>3. ASSUME NEW q \in Post, Begin(q)
      PROVE  /\ delivered' = delivered
             /\ future[p] = "queued" /\ future'[p] = "handling" => OwnerIs(p, "live")
  BY <1>0, <1>3 DEF Begin, LatestPost, TypeOK
<1>4. ASSUME NEW q \in Post, NEW f \in FutureState, f # "handling",
             delivered' = delivered, future' = [future EXCEPT ![q] = f]
      PROVE  /\ delivered' = delivered
             /\ ~(future[p] = "queued" /\ future'[p] = "handling")
  BY <1>0, <1>4 DEF TypeOK
<1>5. ASSUME NEW s \in Screen, NEW q \in Post, PostToken(s, q)
      PROVE  /\ delivered' = delivered
             /\ ~(future[p] = "queued" /\ future'[p] = "handling")
  BY <1>4, <1>5 DEF PostToken, FutureState
<1>6. ASSUME NEW q \in Post, HandlerReturns(q) \/ HandlerThrows(q) \/ ExecuteCallback(q)
      PROVE  /\ delivered' = delivered
             /\ ~(future[p] = "queued" /\ future'[p] = "handling")
  BY <1>4, <1>6 DEF HandlerReturns, HandlerThrows, ExecuteCallback, FutureState
<1>7. ASSUME NEW s \in Screen, Open(s) \/ Cancel(s)
      PROVE  UNCHANGED <<delivered, future>>
  BY <1>7 DEF Open, Cancel
<1>8. CASE BeginGet \/ EndGet
  BY <1>8 DEF BeginGet, EndGet
<1> QED
  BY <1>1, <1>2, <1>3, <1>5, <1>6, <1>7, <1>8 DEF Next, vars

(* "The callback should not be invoked after cancelled."                   *)
THEOREM NoCallbackAfterCancelHolds ==
  Reopen = "drained" => (Spec => NoCallbackAfterCancel)
<1> SUFFICES ASSUME Reopen = "drained" PROVE Spec => NoCallbackAfterCancel
  OBVIOUS
<1>1. DrainedInv /\ [Next]_vars => DrainedInv'
  BY DrainedStep
<1>2. DrainedInv /\ [Next]_vars =>
        [\A p \in Post : delivered'[p] # delivered[p] => OwnerIs(p, "live")]_vars
  BY LiveOnly
<1> QED
  BY DrainedInitial, <1>1, <1>2, PTL DEF Spec, NoCallbackAfterCancel

(* A handler is not started for a screen that has been cleared.            *)
THEOREM NoHandlerAfterCancelHolds ==
  Reopen = "drained" => (Spec => NoHandlerAfterCancel)
<1> SUFFICES ASSUME Reopen = "drained" PROVE Spec => NoHandlerAfterCancel
  OBVIOUS
<1>1. DrainedInv /\ [Next]_vars => DrainedInv'
  BY DrainedStep
<1>2. DrainedInv /\ [Next]_vars =>
        [\A p \in Post : future[p] = "queued" /\ future'[p] = "handling"
                           => OwnerIs(p, "live")]_vars
  BY LiveOnly
<1> QED
  BY DrainedInitial, <1>1, <1>2, PTL DEF Spec, NoHandlerAfterCancel
=============================================================================

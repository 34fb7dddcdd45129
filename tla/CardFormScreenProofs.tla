------------------------ MODULE CardFormScreenProofs ------------------------
(***************************************************************************)
(* Proofs about CardFormScreen: its safety invariants, for every bound and *)
(* with or without a handler.  What a restored process takes up again is   *)
(* the saved state, so each invariant needs a counterpart about it.        *)
(***************************************************************************)
EXTENDS CardFormScreen, TLAPS

(* Types are kept by the parts of the view model's steps.                 *)
LEMMA DeliverType ==
  ASSUME NEW C \in SUBSET Command, TypeOK, Alive, Deliver(C)
  PROVE  /\ commands' \in SUBSET Command /\ fragment' \in BOOLEAN
         /\ verifying' \in BOOLEAN /\ served' \in Counts /\ life' \in Life
<1>1. \A c \in {"errorDialog", "startVerify"} : served'[c] \in Nat
  BY DEF TypeOK, Counts, Deliver
<1>2. served' \in Counts
  BY <1>1 DEF TypeOK, Counts, Deliver
<1> QED
  BY <1>2 DEF TypeOK, Deliver, Acknowledged, Life, Alive

(* ... by a command that is set,                                           *)
LEMMA EmitType ==
  ASSUME NEW C \in SUBSET Command, TypeOK, Alive, Emit(C)
  PROVE  /\ commands' \in SUBSET Command /\ fragment' \in BOOLEAN
         /\ verifying' \in BOOLEAN /\ served' \in Counts /\ life' \in Life
         /\ asked' \in Counts
<1>1. asked' \in Counts
  <2>1. \A c \in {"errorDialog", "startVerify"} : asked'[c] \in Nat
    BY DEF TypeOK, Counts, Emit
  <2> QED
    BY <2>1 DEF TypeOK, Counts, Emit
<1>2. CASE Active /\ Deliver(commands \cup C)
  <2>1. commands \cup C \in SUBSET Command
    BY DEF TypeOK
  <2> QED
    BY <1>1, <1>2, <2>1, DeliverType
<1>3. CASE commands' = commands \cup C /\ UNCHANGED <<life, fragment, verifying, served>>
  BY <1>1, <1>3 DEF TypeOK
<1> QED
  BY <1>2, <1>3 DEF Emit

(* ... by a task that begins,                                              *)
LEMMA BeginType ==
  ASSUME TypeOK, NEW kind \in {"create", "finish", "handler"}, Begin(kind)
  PROVE  started' \in 0 .. MaxTasks /\ tasks' \subseteq Task
  BY BoundsAssumption DEF TypeOK, Begin, Task

(* and by a whole step, from Init on.                                      *)
LEMMA TypeInitial == Init => TypeOK
<1> SUFFICES ASSUME Init PROVE TypeOK
  OBVIOUS
<1>1. asked \in Counts /\ served \in Counts
  BY DEF Init, Counts
<1>2. saved \in Snapshot
  BY DEF Init, Saved, Snapshot, View
<1>3. started \in 0 .. MaxTasks /\ stops \in 0 .. MaxStops /\ view \in View
  BY BoundsAssumption DEF Init, View
<1> QED
  BY <1>1, <1>2, <1>3 DEF Init, TypeOK, Life

(* Every step of the screen keeps the types.                               *)
LEMMA TypeStep == TypeOK /\ [Next]_vars => TypeOK'
<1> SUFFICES ASSUME TypeOK, [Next]_vars PROVE TypeOK'
  OBVIOUS
<1> USE DEF history, vm
<1>1. CASE UNCHANGED vars
  BY <1>1 DEF vars, TypeOK
<1>2. CASE BrandsFetched
  BY <1>2, EmitType DEF BrandsFetched, TypeOK, Command, View
<1>3. CASE BrandsFailed
  BY <1>3 DEF BrandsFailed, TypeOK, View
<1>4. CASE Reload
  BY <1>4 DEF Reload, FetchAcceptedBrands, TypeOK, View
<1>5. CASE ClickSubmit \/ EditorActionDone
  BY <1>5, BeginType DEF ClickSubmit, EditorActionDone, CreateToken, TypeOK
<1>6. ASSUME NEW t \in tasks, Callback(t) PROVE TypeOK'
  <2>1. t \in Task /\ tasks \ {t} \subseteq Task
    BY DEF TypeOK
  <2>2. CASE TokenUnverified(t)
    BY <1>6, <2>1, <2>2, EmitType DEF Callback, TokenUnverified, TypeOK, Command
  <2>3. CASE TokenPosted(t)
    BY <1>6, <2>1, <2>3, BoundsAssumption DEF Callback, TokenPosted, TypeOK, Task
  <2>4. CASE TokenComplete(t)
    BY <1>6, <2>1, <2>4, EmitType DEF Callback, TokenComplete, TypeOK, Command
  <2>5. CASE TokenError(t)
    BY <1>6, <2>1, <2>5, EmitType DEF Callback, TokenError, TypeOK, Command
  <2> QED
    BY <1>6, <2>2, <2>3, <2>4, <2>5 DEF Callback
<1>7. CASE VerifySucceeded
  BY <1>7, BeginType DEF VerifySucceeded, TypeOK
<1>8. CASE VerifyCanceled
  BY <1>8 DEF VerifyCanceled, TypeOK
<1>9. CASE Start
  BY <1>9, DeliverType DEF Start, FetchAcceptedBrands, TypeOK, Alive, View
<1>10. CASE Stop
  BY <1>10, BoundsAssumption DEF Stop, Saved, Snapshot, View, Life, TypeOK
<1>11. CASE Leave \/ Destroy
  BY <1>11 DEF Leave, Destroy, TypeOK, Life
<1>12. CASE Kill
  BY <1>12 DEF Kill, TypeOK, Life
<1>13. CASE Restore
  BY <1>13 DEF Restore, TypeOK, Life, Snapshot
<1>14. CASE StatusShown
  BY <1>14 DEF StatusShown, TypeOK, Observer!ShowRunning, Observer!ShowThrottled,
     Observer!ShowAcceptable
<1> QED
  BY <1>1, <1>2, <1>3, <1>4, <1>5, <1>6, <1>7, <1>8, <1>9, <1>10, <1>11, <1>12,
     <1>13, <1>14 DEF Next

(* CardFormScreenViewModel's state keeps its type.                         *)
THEOREM TypeCorrect == Spec => []TypeOK
  BY TypeInitial, TypeStep, PTL DEF Spec

-----------------------------------------------------------------------------
(* A started screen has acted on every command; a dead process does        *)
(* nothing.                                                                *)
Settled ==
  /\ life = "started" => commands = {}
  /\ life = "dead" => tasks = {} /\ ~fetchTask

BaseInv == TypeOK /\ Settled

(* What setting commands does to a screen that stays in use: they are      *)
(* acted on at once if it is started and kept if it is stopped.            *)
LEMMA EmitEffect ==
  ASSUME NEW C \in SUBSET Command, BaseInv, Alive, Emit(C),
         life' \in {"started", "stopped"}
  PROVE  /\ life' = life
         /\ asked' = [c \in DOMAIN asked |-> IF c \in C THEN asked[c] + 1 ELSE asked[c]]
         /\ \/ /\ life = "started" /\ commands' = {}
               /\ fragment' = (fragment \/ "addCardForm" \in C)
               /\ verifying' = (verifying \/ "startVerify" \in C)
               /\ served' = [c \in DOMAIN served |->
                               IF c \in C THEN served[c] + 1 ELSE served[c]]
            \/ /\ life = "stopped" /\ commands' = commands \cup C
               /\ UNCHANGED <<fragment, verifying, served>>
<1>1. CASE life = "started"
  BY <1>1 DEF Emit, Deliver, Active, BaseInv, Settled, Acknowledged, Command
<1>2. CASE life = "stopped"
  BY <1>2 DEF Emit, Active
<1>3. CASE life = "finishing"
  BY <1>3 DEF Emit, Deliver
<1> QED
  BY <1>1, <1>2, <1>3 DEF Alive

(* The screen begins, and goes on, with no command left to act on.         *)
LEMMA BaseInitial == Init => BaseInv
  BY TypeInitial DEF Init, BaseInv, Settled

(* Every step keeps the base invariant.                                    *)
LEMMA BaseStep == BaseInv /\ [Next]_vars => BaseInv'
<1> SUFFICES ASSUME BaseInv, [Next]_vars PROVE Settled'
  BY TypeStep DEF BaseInv
<1> USE DEF Settled, history, vm
<1>0. TypeOK /\ Settled
  BY DEF BaseInv
<1>1. CASE UNCHANGED vars
  BY <1>0, <1>1 DEF vars
<1>2. ASSUME NEW C \in SUBSET Command, Alive, Emit(C) PROVE Settled'
  <2>1. life' # "dead"
    BY <1>2 DEF Emit, Deliver, Alive
  <2> QED
    BY <1>2, <2>1, EmitEffect
<1>3. CASE BrandsFetched
  BY <1>2, <1>3 DEF BrandsFetched, Command
<1>4. ASSUME life \in {"started", "stopped", "finishing"}, UNCHANGED <<life, commands>>
      PROVE  Settled'
  BY <1>0, <1>4
<1>5. CASE BrandsFailed \/ Reload
  BY <1>4, <1>5 DEF BrandsFailed, Reload, Alive, Active
<1>6. CASE ClickSubmit \/ EditorActionDone
  BY <1>4, <1>6 DEF ClickSubmit, EditorActionDone, CreateToken, Active
<1>7. ASSUME NEW t \in tasks, Callback(t) PROVE Settled'
  BY <1>2, <1>4, <1>7 DEF Callback, TokenUnverified, TokenPosted, TokenComplete,
     TokenError, Command, Alive
<1>8. CASE VerifySucceeded \/ VerifyCanceled
  BY <1>4, <1>8 DEF VerifySucceeded, VerifyCanceled
<1>9. CASE Start
  BY <1>0, <1>9 DEF Start, Deliver, Acknowledged, TypeOK, Command
<1>10. CASE Stop \/ Leave \/ Destroy \/ Restore
  BY <1>10 DEF Stop, Leave, Destroy, Restore
<1>11. CASE Kill
  BY <1>11 DEF Kill
<1>12. CASE StatusShown
  BY <1>0, <1>12 DEF StatusShown
<1> QED
  BY <1>1, <1>3, <1>5, <1>6, <1>7, <1>8, <1>9, <1>10, <1>11, <1>12 DEF Next

-----------------------------------------------------------------------------
(* The saved state of a screen that is, or will be, being verified is      *)
(* locked as well.                                                         *)
SavedOperation ==
  life \in {"stopped", "dead"} /\ (verifying \/ "startVerify" \in saved.commands) =>
    saved.processing

OperationInv == BaseInv /\ OneOperation /\ SavedOperation

(* A new screen has no operation.                                          *)
LEMMA OperationInitial == Init => OperationInv
  BY BaseInitial DEF Init, OperationInv, OneOperation, SavedOperation, Saved

(* Every step keeps one operation at a time, with the form locked.         *)
LEMMA OperationStep == OperationInv /\ [Next]_vars => OperationInv'
<1> SUFFICES ASSUME OperationInv, [Next]_vars PROVE OneOperation' /\ SavedOperation'
  BY BaseStep DEF OperationInv
<1> USE DEF Settled, OneOperation, SavedOperation, history, vm
<1>0. BaseInv /\ TypeOK /\ Settled /\ OneOperation /\ SavedOperation
  BY DEF OperationInv, BaseInv
<1>1. CASE UNCHANGED vars
  BY <1>0, <1>1 DEF vars
<1>2. ASSUME UNCHANGED <<life, processing, commands, tasks, verifying, saved>>
      PROVE  OneOperation' /\ SavedOperation'
  BY <1>0, <1>2
<1>3. ASSUME NEW C \in SUBSET Command, Alive, Emit(C), life' \notin {"started", "stopped"}
      PROVE  OneOperation' /\ SavedOperation'
  BY <1>3 DEF Emit, Deliver, Alive
<1>4. CASE BrandsFetched
  <2>1. {"addCardForm"} \in SUBSET Command /\ Alive /\ Emit({"addCardForm"})
        /\ UNCHANGED <<processing, tasks, saved>>
    BY <1>4 DEF BrandsFetched, Command
  <2>2. CASE life' \in {"started", "stopped"}
    BY <1>0, <2>1, <2>2, EmitEffect
  <2> QED
    BY <1>3, <2>1, <2>2
<1>5. CASE BrandsFailed \/ Reload \/ StatusShown
  BY <1>2, <1>5 DEF BrandsFailed, Reload, StatusShown
<1>6. CASE ClickSubmit \/ EditorActionDone
  <2>1. Active /\ CreateToken
    BY <1>6 DEF ClickSubmit, EditorActionDone
  <2> QED
    BY <1>0, <2>1 DEF CreateToken, Begin, Active
<1>7. ASSUME NEW t \in tasks, Callback(t) PROVE OneOperation' /\ SavedOperation'
  <2>1. Alive /\ saved' = saved
    BY <1>7 DEF Callback
  <2>2. CASE TokenUnverified(t)
    <3>1. {"startVerify"} \in SUBSET Command /\ Emit({"startVerify"})
          /\ tasks' = tasks \ {t} /\ processing' = processing
      BY <2>2 DEF TokenUnverified, Command
    <3>2. CASE life' \in {"started", "stopped"}
      BY <1>0, <2>1, <3>1, <3>2, EmitEffect
    <3> QED
      BY <1>3, <2>1, <3>1, <3>2
  <2>3. CASE TokenPosted(t)
    BY <1>0, <2>1, <2>3 DEF TokenPosted
  <2>4. ASSUME NEW c \in {"success", "errorDialog"}, Emit({c}), tasks' = tasks \ {t}
        PROVE  OneOperation' /\ SavedOperation'
    <3>1. {c} \in SUBSET Command
      BY DEF Command
    <3>2. CASE life' \in {"started", "stopped"}
      BY <1>0, <2>1, <2>4, <3>1, <3>2, EmitEffect
    <3> QED
      BY <1>3, <2>1, <2>4, <3>1, <3>2
  <2> QED
    BY <1>7, <2>2, <2>3, <2>4 DEF Callback, TokenComplete, TokenError
<1>8. CASE VerifySucceeded \/ VerifyCanceled
  <2>0. life = "started" /\ verifying
    BY <1>8 DEF VerifySucceeded, VerifyCanceled
  <2>1. tasks = {} /\ commands = {}
    BY <1>0, <2>0
  <2>2. CASE VerifySucceeded
    BY <2>0, <2>1, <2>2 DEF VerifySucceeded, Begin
  <2>3. CASE VerifyCanceled
    BY <2>0, <2>1, <2>3 DEF VerifyCanceled
  <2> QED
    BY <1>8, <2>2, <2>3
<1>9. CASE Start
  BY <1>0, <1>9 DEF Start, Deliver, Acknowledged
<1>10. CASE Stop
  BY <1>0, <1>10 DEF Stop, Saved
<1>11. CASE Leave \/ Destroy \/ Kill
  <2>1. life' \in {"finishing", "gone", "dead"}
    BY <1>11 DEF Leave, Destroy, Kill
  <2>2. life' = "dead" => life = "stopped" /\ UNCHANGED <<commands, verifying, saved>>
    BY <1>11 DEF Leave, Destroy, Kill
  <2> QED
    BY <1>0, <2>1, <2>2
<1>12. CASE Restore
  <2>1. /\ life = "dead" /\ life' = "stopped" /\ UNCHANGED <<tasks, verifying, saved>>
        /\ processing' = saved.processing /\ commands' = saved.commands
    BY <1>12 DEF Restore
  <2>2. tasks' = {}
    BY <1>0, <2>1
  <2>3. verifying' \/ "startVerify" \in commands' => processing'
    BY <1>0, <2>1
  <2>4. verifying' \/ "startVerify" \in saved.commands' => saved.processing'
    BY <1>0, <2>1
  <2> QED
    BY <2>2, <2>3, <2>4
<1> QED
  BY <1>1, <1>4, <1>5, <1>6, <1>7, <1>8, <1>9, <1>10, <1>11, <1>12 DEF Next

(* One token operation at a time on a card form screen.                    *)
THEOREM OneOperationHolds == Spec => []OneOperation
<1>1. OperationInv => OneOperation
  BY DEF OperationInv
<1> QED
  BY OperationInitial, OperationStep, <1>1, PTL DEF Spec

-----------------------------------------------------------------------------
(* What is saved of a killed process: a lock has its reason in it, and the *)
(* commands are those that have not been acted on.                         *)
SavedLock ==
  life = "dead" /\ saved.processing => verifying \/ "startVerify" \in saved.commands

SavedCommands ==
  /\ life = "stopped" => saved.commands \subseteq commands
  /\ life = "dead" =>
       \A c \in DOMAIN asked :
         asked[c] = served[c] + (IF c \in saved.commands THEN 1 ELSE 0)

(* No second error can come while the first waits for the screen.          *)
ErrorEnds ==
  life \in {"started", "stopped"} /\ "errorDialog" \in commands => tasks = {}

QuietInv ==
  /\ OperationInv
  /\ LockedForAReason /\ SavedLock
  /\ ServedOnce /\ SavedCommands /\ ErrorEnds

(* A new screen is unlocked and has nothing to serve.                      *)
LEMMA QuietInitial == Init => QuietInv
<1> SUFFICES ASSUME Init PROVE QuietInv
  OBVIOUS
<1>1. ServedOnce
  BY DEF Init, ServedOnce
<1>2. saved.commands = {}
  BY DEF Init, Saved
<1> QED
  BY <1>1, <1>2, OperationInitial DEF Init, QuietInv, LockedForAReason, SavedLock,
     SavedCommands, ErrorEnds

(* Setting commands keeps the account of what was asked for.               *)
LEMMA EmitServed ==
  ASSUME NEW C \in SUBSET Command, QuietInv, Alive, Emit(C),
         life' \in {"started", "stopped"}, saved' = saved,
         C \cap {"errorDialog", "startVerify"} # {} => tasks # {}
  PROVE  ServedOnce' /\ SavedCommands'
<1> USE DEF ServedOnce, SavedCommands
<1>0. BaseInv /\ TypeOK /\ Settled /\ OneOperation /\ ErrorEnds /\ ServedOnce /\ SavedCommands
  BY DEF QuietInv, OperationInv, BaseInv
<1>1. /\ life' = life
      /\ DOMAIN asked = {"errorDialog", "startVerify"} /\ DOMAIN served = DOMAIN asked
      /\ \A c \in DOMAIN asked : asked[c] \in Nat /\ served[c] \in Nat
      /\ DOMAIN asked' = DOMAIN asked
      /\ \A c \in DOMAIN asked : asked'[c] = IF c \in C THEN asked[c] + 1 ELSE asked[c]
  BY <1>0, EmitEffect DEF TypeOK, Counts
<1>2. \A c \in DOMAIN asked : c \in C => c \notin commands
  BY <1>0, <1>1, EmitEffect DEF OneOperation, ErrorEnds
<1>3. CASE life = "started"
  <2>1. /\ commands' = {} /\ commands = {}
        /\ \A c \in DOMAIN asked : served'[c] = IF c \in C THEN served[c] + 1 ELSE served[c]
    BY <1>0, <1>1, <1>3, EmitEffect DEF Settled
  <2>2. \A c \in DOMAIN asked : asked'[c] = served'[c]
    BY <1>0, <1>1, <1>3, <2>1
  <2> QED
    BY <1>1, <1>3, <2>1, <2>2
<1>4. CASE life = "stopped"
  <2>1. commands' = commands \cup C /\ served' = served
    BY <1>0, <1>4, EmitEffect
  <2>2. \A c \in DOMAIN asked : asked[c] = served[c] + (IF c \in commands THEN 1 ELSE 0)
    BY <1>0, <1>4
  <2>3. \A c \in DOMAIN asked : asked'[c] = served[c] + (IF c \in commands \cup C THEN 1 ELSE 0)
    BY <1>1, <1>2, <2>2
  <2> QED
    BY <1>0, <1>1, <1>4, <2>1, <2>3
<1> QED
  BY <1>1, <1>3, <1>4

(* Every step keeps locks and commands in order when kills are quiet.      *)
LEMMA QuietStep ==
  ASSUME Death # "any", QuietInv, [Next]_vars
  PROVE  QuietInv'
<1> DEFINE Rest == LockedForAReason /\ SavedLock /\ ServedOnce /\ SavedCommands /\ ErrorEnds
<1> SUFFICES Rest'
  BY OperationStep, BaseStep DEF QuietInv, OperationInv, BaseInv, Settled
<1> USE DEF Settled, LockedForAReason, SavedLock, ServedOnce, SavedCommands, ErrorEnds,
            history, vm
<1>0. BaseInv /\ TypeOK /\ Settled /\ OneOperation /\ Rest
  BY DEF QuietInv, OperationInv, BaseInv
<1>1. CASE UNCHANGED vars
  BY <1>0, <1>1 DEF vars
<1>2. ASSUME UNCHANGED <<life, processing, commands, tasks, verifying, saved, history>>
      PROVE  Rest'
  BY <1>0, <1>2
<1>3. ASSUME NEW C \in SUBSET Command, Alive, Emit(C), life' \notin {"started", "stopped"}
      PROVE  Rest'
  BY <1>3 DEF Emit, Deliver, Alive
<1>4. CASE BrandsFetched
  <2>1. {"addCardForm"} \in SUBSET Command /\ Alive /\ Emit({"addCardForm"})
        /\ UNCHANGED <<processing, tasks, saved>>
    BY <1>4 DEF BrandsFetched, Command
  <2>2. CASE life' \in {"started", "stopped"}
    <3>1. ServedOnce' /\ SavedCommands'
      BY <2>1, <2>2, EmitServed
    <3>2. /\ life' = life
          /\ "errorDialog" \in commands' => "errorDialog" \in commands
          /\ verifying \/ "startVerify" \in commands => verifying' \/ "startVerify" \in commands'
      <4>1. CASE life = "started"
        <5>1. life' = life /\ commands' = {} /\ commands = {}
              /\ verifying' = (verifying \/ "startVerify" \in {"addCardForm"})
          BY <1>0, <2>1, <2>2, <4>1, EmitEffect
        <5> QED
          BY <5>1
      <4>2. CASE life = "stopped"
        <5>1. life' = life /\ commands' = commands \cup {"addCardForm"} /\ verifying' = verifying
          BY <1>0, <2>1, <2>2, <4>2, EmitEffect
        <5> QED
          BY <5>1
      <4> QED
        BY <1>0, <2>1, <2>2, <4>1, <4>2, EmitEffect
    <3>3. ErrorEnds'
      BY <1>0, <2>1, <3>2
    <3>4. LockedForAReason' /\ SavedLock'
      BY <1>0, <2>1, <2>2, <3>2
    <3> QED
      BY <3>1, <3>3, <3>4
  <2> QED
    BY <1>3, <2>1, <2>2
<1>5. CASE BrandsFailed \/ Reload \/ StatusShown
  BY <1>2, <1>5 DEF BrandsFailed, Reload, StatusShown
<1>6. CASE ClickSubmit \/ EditorActionDone
  <2>1. Active /\ CreateToken
    BY <1>6 DEF ClickSubmit, EditorActionDone
  <2>2. CASE life = "started"
    <3>1. tasks' # {} /\ UNCHANGED <<life, commands, saved, asked, served>>
      BY <2>1 DEF CreateToken, Begin
    <3> QED
      BY <1>0, <2>2, <3>1
  <2>3. CASE life = "finishing"
    BY <2>1, <2>3 DEF CreateToken
  <2> QED
    BY <2>1, <2>2, <2>3 DEF Active
<1>7. ASSUME NEW t \in tasks, Callback(t) PROVE Rest'
  <2>1. Alive /\ saved' = saved /\ tasks # {}
    BY <1>7 DEF Callback
  <2>2. CASE TokenPosted(t)
    <3>1. tasks' # {} /\ UNCHANGED <<life, processing, commands, verifying, saved, asked, served>>
      BY <2>1, <2>2 DEF TokenPosted
    <3> QED
      BY <1>0, <2>1, <3>1
  <2>3. ASSUME NEW c \in {"startVerify", "success", "errorDialog"}, Emit({c}),
               tasks' = tasks \ {t}, c # "startVerify" => processing' = FALSE
        PROVE  Rest'
    <3>1. {c} \in SUBSET Command
      BY DEF Command
    <3>2. CASE life' \in {"started", "stopped"}
      <4>1. ServedOnce' /\ SavedCommands'
        BY <2>1, <2>3, <3>1, <3>2, EmitServed
      <4>2. life' = life /\ tasks' = {}
        BY <1>0, <2>1, <2>3, <3>1, <3>2, EmitEffect DEF OneOperation
      <4>3. c = "startVerify" => verifying' \/ "startVerify" \in commands'
        BY <1>0, <2>1, <2>3, <3>1, <3>2, EmitEffect
      <4>4. LockedForAReason' /\ SavedLock' /\ ErrorEnds'
        BY <2>3, <3>2, <4>2, <4>3
      <4> QED
        BY <4>1, <4>4
    <3> QED
      BY <1>3, <2>1, <2>3, <3>1, <3>2
  <2> QED
    BY <1>7, <2>2, <2>3 DEF Callback, TokenUnverified, TokenComplete, TokenError
<1>8. CASE VerifySucceeded \/ VerifyCanceled
  <2>1. life = "started" /\ commands = {} /\ UNCHANGED <<life, commands, saved, asked, served>>
    BY <1>0, <1>8 DEF VerifySucceeded, VerifyCanceled
  <2>2. CASE VerifySucceeded
    BY <1>0, <2>1, <2>2 DEF VerifySucceeded, Begin
  <2>3. CASE VerifyCanceled
    BY <1>0, <2>1, <2>3 DEF VerifyCanceled
  <2> QED
    BY <1>8, <2>2, <2>3
<1>9. CASE Start
  <2>1. /\ life = "stopped" /\ Deliver(commands)
        /\ UNCHANGED <<processing, tasks, saved, asked>>
    BY <1>9 DEF Start
  <2>2. /\ life' \in {"started", "finishing"}
        /\ life' = "started" => commands' = {}
        /\ verifying' = (verifying \/ "startVerify" \in commands)
    BY <1>0, <2>1 DEF Deliver, Acknowledged, TypeOK, Command
  <2>3. \A c \in DOMAIN asked : asked[c] = served'[c]
    BY <1>0, <2>1 DEF Deliver, TypeOK, Counts
  <2>4. DOMAIN asked = {"errorDialog", "startVerify"} /\ \A c \in DOMAIN asked : served'[c] \in Nat
    BY <1>0, <2>3 DEF TypeOK, Counts
  <2>5. ServedOnce' /\ SavedCommands'
    BY <2>1, <2>2, <2>3, <2>4
  <2>6. ErrorEnds'
    BY <2>2
  <2>7. LockedForAReason' /\ SavedLock'
    BY <1>0, <2>1, <2>2
  <2> QED
    BY <2>5, <2>6, <2>7
<1>10. CASE Stop
  <2>1. saved'.commands = commands
    BY <1>10 DEF Stop, Saved
  <2> QED
    BY <1>0, <1>10, <2>1 DEF Stop
<1>11. CASE Leave \/ Destroy
  BY <1>11 DEF Leave, Destroy
<1>12. CASE Kill
  <2>1. /\ life = "stopped" /\ life' = "dead" /\ tasks = {} /\ processing = saved.processing
        /\ commands \subseteq saved.commands \cup {"addCardForm"}
        /\ UNCHANGED <<verifying, saved, asked, served>>
    BY <1>12 DEF Kill, Quiet
  <2>2. \A c \in DOMAIN asked : c \in commands <=> c \in saved.commands
    BY <1>0, <2>1 DEF TypeOK, Counts
  <2> QED
    BY <1>0, <2>1, <2>2
<1>13. CASE Restore
  <2>1. /\ life = "dead" /\ life' = "stopped" /\ UNCHANGED <<tasks, verifying, saved, asked, served>>
        /\ processing' = saved.processing /\ commands' = saved.commands
    BY <1>13 DEF Restore
  <2>2. ServedOnce' /\ SavedCommands'
    BY <1>0, <2>1
  <2>3. tasks' = {}
    BY <1>0, <2>1
  <2>4. LockedForAReason' /\ SavedLock'
    BY <1>0, <2>1
  <2>5. ErrorEnds'
    BY <2>3
  <2> QED
    BY <2>2, <2>4, <2>5
<1> QED
  BY <1>1, <1>4, <1>5, <1>6, <1>7, <1>8, <1>9, <1>10, <1>11, <1>12, <1>13 DEF Next

(* Provided the process is not killed in the middle of an operation, the   *)
(* form is locked for a reason ...                                         *)
THEOREM LockedForAReasonHolds == Death # "any" => (Spec => []LockedForAReason)
<1> SUFFICES ASSUME Death # "any" PROVE Spec => []LockedForAReason
  OBVIOUS
<1>1. QuietInv /\ [Next]_vars => QuietInv'
  BY QuietStep
<1>2. QuietInv => LockedForAReason
  BY DEF QuietInv
<1> QED
  BY QuietInitial, <1>1, <1>2, PTL DEF Spec

(* ... and each error and verification is served once.                     *)
THEOREM ServedOnceHolds == Death # "any" => (Spec => []ServedOnce)
<1> SUFFICES ASSUME Death # "any" PROVE Spec => []ServedOnce
  OBVIOUS
<1>1. QuietInv /\ [Next]_vars => QuietInv'
  BY QuietStep
<1>2. QuietInv => ServedOnce
  BY DEF QuietInv
<1> QED
  BY QuietInitial, <1>1, <1>2, PTL DEF Spec

-----------------------------------------------------------------------------
(* The views of a screen in use, and of the state saved of it.             *)
ViewInv ==
  /\ BaseInv
  /\ life \in {"started", "stopped"} =>
       /\ fetching <=> fetchTask
       /\ fetchTask => view = {"loading"}
       /\ (view = {"content"}) <=> brands
       /\ brands => fragment \/ "addCardForm" \in commands
  /\ life = "started" /\ view = {"loading"} => fetchTask
  /\ life \in {"stopped", "dead"} =>
       /\ (saved.view = {"content"}) <=> saved.brands
       /\ saved.brands => saved.fragment \/ "addCardForm" \in saved.commands

(* A new screen shows the loading view and has not started.                *)
LEMMA ViewInitial == Init => ViewInv
  BY BaseInitial DEF Init, ViewInv, Saved

(* Every step keeps the views true.                                        *)
LEMMA ViewStep == ViewInv /\ [Next]_vars => ViewInv'
<1> SUFFICES ASSUME ViewInv, [Next]_vars PROVE ViewInv'
  OBVIOUS
<1> USE DEF ViewInv, history, vm
<1>0. BaseInv /\ BaseInv' /\ TypeOK /\ Settled
  BY BaseStep DEF BaseInv
<1>1. {"loading"} # {"content"} /\ {"error"} # {"content"} /\ {"error"} # {"loading"}
  OBVIOUS
<1>2. CASE UNCHANGED vars
  BY <1>0, <1>2 DEF vars
<1>3. ASSUME life' \notin {"started", "stopped", "dead"} PROVE ViewInv'
  BY <1>0, <1>3
<1>4. ASSUME life' = life, UNCHANGED <<fetchTask, view, brands, fetching, fragment,
                                       commands, saved>>
      PROVE  ViewInv'
  BY <1>0, <1>4
<1>5. CASE BrandsFetched
  <2>1. /\ {"addCardForm"} \in SUBSET Command /\ Alive /\ Emit({"addCardForm"})
        /\ ~fetchTask' /\ view' = {"content"} /\ brands' /\ ~fetching' /\ saved' = saved
    BY <1>5 DEF BrandsFetched, Command
  <2>2. CASE life' \in {"started", "stopped"}
    <3>1. life' = life /\ (fragment' \/ "addCardForm" \in commands')
      BY <1>0, <2>1, <2>2, EmitEffect
    <3> QED
      BY <1>0, <1>1, <2>1, <2>2, <3>1
  <2>3. life' # "dead"
    BY <2>1 DEF Emit, Deliver, Alive
  <2> QED
    BY <1>3, <2>2, <2>3
<1>6. CASE BrandsFailed
  <2>1. /\ ~fetchTask' /\ view' = {"error"} /\ ~fetching' /\ Alive /\ fetchTask
        /\ UNCHANGED <<life, brands, commands, fragment, saved>>
    BY <1>6 DEF BrandsFailed
  <2>2. life \in {"started", "stopped"} => ~brands
    BY <1>0, <1>1, <2>1
  <2> QED
    BY <1>0, <1>1, <2>1, <2>2
<1>7. CASE Reload
  <2>1. /\ view = {"error"} /\ FetchAcceptedBrands
        /\ UNCHANGED <<life, commands, fragment, saved>>
    BY <1>7 DEF Reload
  <2> QED
    BY <1>0, <1>1, <2>1 DEF FetchAcceptedBrands
<1>8. CASE ClickSubmit \/ EditorActionDone
  BY <1>4, <1>8 DEF ClickSubmit, EditorActionDone, CreateToken
<1>9. ASSUME NEW t \in tasks, Callback(t) PROVE ViewInv'
  <2>1. /\ Alive
        /\ UNCHANGED <<brands, fetching, fetchTask, view, saved>>
    BY <1>9 DEF Callback
  <2>2. CASE TokenPosted(t)
    BY <1>4, <2>1, <2>2 DEF TokenPosted
  <2>3. ASSUME NEW c \in {"startVerify", "success", "errorDialog"}, Emit({c})
        PROVE  ViewInv'
    <3>1. {c} \in SUBSET Command
      BY DEF Command
    <3>2. CASE life' \in {"started", "stopped"}
      <4>1. /\ life' = life
            /\ fragment \/ "addCardForm" \in commands => fragment' \/ "addCardForm" \in commands'
        <5>1. CASE life = "started"
          <6>1. commands = {} /\ fragment' = (fragment \/ "addCardForm" \in {c}) /\ life' = life
            BY <1>0, <2>1, <2>3, <3>1, <3>2, <5>1, EmitEffect DEF Settled
          <6> QED
            BY <6>1
        <5>2. CASE life = "stopped"
          BY <1>0, <2>1, <2>3, <3>1, <3>2, <5>2, EmitEffect
        <5> QED
          BY <1>0, <2>1, <2>3, <3>1, <3>2, <5>1, <5>2, EmitEffect
      <4> QED
        BY <1>0, <2>1, <3>2, <4>1
    <3>3. life' # "dead"
      BY <2>1, <2>3 DEF Emit, Deliver, Alive
    <3> QED
      BY <1>3, <3>2, <3>3
  <2> QED
    BY <1>9, <2>2, <2>3 DEF Callback, TokenUnverified, TokenComplete, TokenError
<1>10. CASE VerifySucceeded \/ VerifyCanceled
  BY <1>4, <1>10 DEF VerifySucceeded, VerifyCanceled
<1>11. CASE Start
  <2>1. /\ life = "stopped" /\ FetchAcceptedBrands /\ saved' = saved
        /\ life' \in {"started", "finishing"}
        /\ fragment' = (fragment \/ "addCardForm" \in commands)
    BY <1>11 DEF Start, Deliver
  <2>2. CASE ~brands /\ ~fetching
    BY <1>0, <1>1, <2>1, <2>2 DEF FetchAcceptedBrands
  <2>3. CASE brands
    <3>1. UNCHANGED <<fetching, fetchTask, view, brands>>
      BY <2>1, <2>3 DEF FetchAcceptedBrands
    <3>2. fragment \/ "addCardForm" \in commands
      BY <2>1, <2>3
    <3>3. fragment'
      BY <2>1, <3>2
    <3>4. view # {"loading"}
      BY <1>1, <2>1, <2>3
    <3> QED
      BY <1>0, <2>1, <3>1, <3>3, <3>4
  <2>4. CASE ~brands /\ fetching
    BY <1>0, <1>1, <2>1, <2>4 DEF FetchAcceptedBrands
  <2> QED
    BY <2>2, <2>3, <2>4
<1>12. CASE Stop
  <2>1. /\ life = "started" /\ life' = "stopped"
        /\ saved'.view = view /\ saved'.brands = brands
        /\ saved'.fragment = fragment /\ saved'.commands = commands
        /\ UNCHANGED <<fetchTask, view, brands, fetching, fragment, commands>>
    BY <1>12 DEF Stop, Saved
  <2>2. (view = {"content"}) <=> brands
    BY <2>1
  <2>3. brands => fragment \/ "addCardForm" \in commands
    BY <2>1
  <2>4. (saved'.view = {"content"}) <=> saved'.brands
    BY <2>1, <2>2
  <2>5. saved'.brands => saved'.fragment \/ "addCardForm" \in saved'.commands
    BY <2>1, <2>3
  <2> QED
    BY <1>0, <2>1, <2>4, <2>5
<1>13. CASE Leave \/ Destroy
  BY <1>3, <1>13 DEF Leave, Destroy
<1>14. CASE Kill
  BY <1>0, <1>14 DEF Kill
<1>15. CASE Restore
  <2>1. /\ life = "dead" /\ life' = "stopped" /\ ~fetching' /\ ~fetchTask'
        /\ view' = saved.view /\ brands' = saved.brands
        /\ fragment' = saved.fragment /\ commands' = saved.commands /\ saved' = saved
    BY <1>0, <1>15 DEF Restore, Settled
  <2> QED
    BY <1>0, <2>1
<1>16. CASE StatusShown
  BY <1>4, <1>16 DEF StatusShown
<1> QED
  BY <1>2, <1>5, <1>6, <1>7, <1>8, <1>9, <1>10, <1>11, <1>12, <1>13, <1>14, <1>15,
     <1>16 DEF Next

(* What a started screen shows is true of the brands and the form.         *)
THEOREM ViewIsTrueHolds == Spec => []ViewIsTrue
<1>1. ViewInv => ViewIsTrue
  BY DEF ViewInv, ViewIsTrue, BaseInv, Settled
<1> QED
  BY ViewInitial, ViewStep, <1>1, PTL DEF Spec
=============================================================================

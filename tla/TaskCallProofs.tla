--------------------------- MODULE TaskCallProofs ---------------------------
(***************************************************************************)
(* Proofs about TaskCall, for any number of tasks and of executions.       *)
(***************************************************************************)
EXTENDS TaskCall, TLAPS

(* What a task's execution has told, and is about to tell.                 *)
ToldOf(c) ==
  /\ pc[c] # "over" => outcome[c] = <<>>
  /\ outcome[c] = <<>> \/ \E o \in Outcome : outcome[c] = <<o>>
  /\ outcome[c] = <<"success">> => answer[c] = "token"
  /\ pc[c] = "calling" => verdict[c] \in {Convert(answer[c]), "Canceled"}

Told == \A c \in Call : ToldOf(c)

CallInv == TypeOK /\ Told

-----------------------------------------------------------------------------
(* A task is answered in one of the ways there are.                        *)
LEMMA AnswerType == \A c \in Call : AnswersTo(c) \subseteq AllAnswers
  BY AnswerAssumption DEF AnswersTo

(* Every answer is converted into something that can be told.              *)
LEMMA ConvertType == \A a \in AllAnswers : Convert(a) \in Outcome
  BY DEF Outcome, Convert

(* Only a token is a success.                                              *)
LEMMA ConvertSuccess ==
  \A a \in AllAnswers : Convert(a) = "success" => a = "token"
  BY DEF Convert, AllAnswers

(* An outcome is not taken for a list of them.                             *)
LEMMA ToldFirst ==
  \A o \in Outcome : /\ Append(<<>>, o) = <<o>>
                     /\ <<o>> # <<>> /\ Len(<<o>>) = 1
                     /\ <<o>> \in Seq(Outcome)
                     /\ <<o>> = <<"success">> => o = "success"
  OBVIOUS

(* No task has been executed at first.                                     *)
LEMMA CallInitial == Init => CallInv
  <1> SUFFICES ASSUME Init PROVE CallInv
    OBVIOUS
  <1>1. "failure" \in AllAnswers /\ "idle" \in Step
    BY DEF AllAnswers, Step
  <1>2. <<>> \in Seq(Call) /\ <<>> \in Seq(Outcome)
    OBVIOUS
  <1>3. TypeOK
    BY <1>1, <1>2 DEF Init, TypeOK
  <1>4. Told
    BY DEF Init, Told, ToldOf
  <1> QED
    BY <1>3, <1>4 DEF CallInv

(* Every step of a task keeps the types and the account of what is told.   *)
LEMMA CallStep == CallInv /\ [Next]_vars => CallInv'
  <1> SUFFICES ASSUME CallInv, [Next]_vars
               PROVE  CallInv'
    OBVIOUS
  <1> USE DEF CallInv, TypeOK, Told, ToldOf
  <1>1. ASSUME NEW c \in Call, NEW m \in {"run", "enqueue"}, Execute(c, m)
        PROVE  CallInv'
    BY <1>1 DEF Execute, Step
  <1>2. ASSUME NEW c \in Call, NEW m \in {"run", "enqueue"}, ExecuteAgain(c, m)
        PROVE  CallInv'
    BY <1>2 DEF ExecuteAgain
  <1>3. ASSUME NEW c \in Call, Cancel(c)
        PROVE  CallInv'
    BY <1>3 DEF Cancel
  <1>4. ASSUME NEW c \in Call, NEW a \in AnswersTo(c), Return(c, a)
        PROVE  CallInv'
    <2>1. a \in AllAnswers /\ Convert(a) \in Outcome
      BY ConvertType, AnswerType
    <2>2. outcome[c] = <<>>
      BY <1>4 DEF Return
    <2>3. outcome' = [outcome EXCEPT ![c] = <<Convert(a)>>]
      BY <1>4, <2>1, <2>2, ToldFirst DEF Return
    <2>4. Convert(a) = "success" => a = "token"
      BY <2>1, ConvertSuccess
    <2>5. TypeOK'
      BY <1>4, <2>1, <2>3, ToldFirst DEF Return, Step
    <2>6. Told'
      <3> SUFFICES ASSUME NEW d \in Call PROVE ToldOf(d)'
        BY DEF Told, ToldOf
      <3>1. CASE d = c
        <4>1. outcome'[d] = <<Convert(a)>> /\ pc'[d] = "over" /\ answer'[d] = a
          BY <1>4, <2>3, <3>1 DEF Return
        <4> QED
          BY <2>1, <2>4, <4>1, ToldFirst DEF ToldOf
      <3>2. CASE d # c
        BY <1>4, <2>3, <3>2 DEF Return, ToldOf
      <3> QED
        BY <3>1, <3>2
    <2> QED
      BY <2>5, <2>6
  <1>5. ASSUME NEW c \in Call, NEW a \in AnswersTo(c), Respond(c, a)
        PROVE  CallInv'
    <2>1. a \in AllAnswers
      BY AnswerType
    <2>2. Append(executor, c) \in Seq(Call)
      OBVIOUS
    <2>3. TypeOK'
      BY <1>5, <2>1, <2>2 DEF Respond, Step
    <2>4. Told'
      <3> SUFFICES ASSUME NEW d \in Call PROVE ToldOf(d)'
        OBVIOUS
      <3>1. outcome'[d] = outcome[d] /\ (outcome[d] # <<>> => d # c)
        BY <1>5 DEF Respond
      <3>2. d # c => answer'[d] = answer[d] /\ pc'[d] = pc[d]
        BY <1>5 DEF Respond
      <3>3. d = c => pc'[d] = "answered" /\ outcome[d] = <<>>
        BY <1>5 DEF Respond
      <3>4. verdict' = verdict
        BY <1>5 DEF Respond
      <3>5. <<>> # <<"success">>
        OBVIOUS
      <3>6. CASE d = c
        BY <3>1, <3>3, <3>5, <3>6
      <3>7. CASE d # c
        BY <3>1, <3>2, <3>4, <3>7
      <3> QED
        BY <3>6, <3>7
    <2> QED
      BY <2>3, <2>4
  <1>6. ASSUME NEW c \in Call, Judge(c)
        PROVE  CallInv'
    <2>1. Convert(answer[c]) \in Outcome /\ "Canceled" \in Outcome
      BY ConvertType DEF Outcome
    <2>2. PICK v \in {Convert(answer[c]), "Canceled"} :
                 verdict' = [verdict EXCEPT ![c] = v]
      BY <1>6 DEF Judge
    <2> QED
      BY <1>6, <2>1, <2>2 DEF Judge, Step
  <1>7. ASSUME NEW c \in Call, CallBack(c)
        PROVE  CallInv'
    <2>1. verdict[c] \in Outcome
      BY <1>7, ConvertType DEF CallBack, Outcome
    <2>2. outcome' = [outcome EXCEPT ![c] = <<verdict[c]>>]
      BY <1>7, <2>1, ToldFirst DEF CallBack
    <2>3. verdict[c] = "success" => answer[c] = "token"
      BY <1>7, ConvertSuccess DEF CallBack
    <2>4. TypeOK'
      <3>1. <<verdict[c]>> \in Seq(Outcome)
        BY <2>1, ToldFirst
      <3>2. Tail(executor) \in Seq(Call)
        BY <1>7 DEF CallBack, Current
      <3> QED
        BY <1>7, <2>2, <3>1, <3>2 DEF CallBack, Step
    <2>5. Told'
      <3> SUFFICES ASSUME NEW d \in Call PROVE ToldOf(d)'
        BY DEF Told, ToldOf
      <3>1. CASE d = c
        <4>1. outcome'[d] = <<verdict[c]>> /\ pc'[d] = "over" /\ answer'[d] = answer[c]
          BY <1>7, <2>2, <3>1 DEF CallBack
        <4> QED
          BY <2>1, <2>3, <4>1, ToldFirst DEF ToldOf
      <3>2. CASE d # c
        BY <1>7, <2>2, <3>2 DEF CallBack, ToldOf
      <3> QED
        BY <3>1, <3>2
    <2> QED
      BY <2>4, <2>5
  <1>8. ASSUME NEW c \in Call, Crash(c)
        PROVE  CallInv'
    BY <1>8 DEF Crash, Current, Step
  <1>9. CASE UNCHANGED vars
    BY <1>9 DEF vars
  <1> QED
    BY <1>1, <1>2, <1>3, <1>4, <1>5, <1>6, <1>7, <1>8, <1>9 DEF Next

(* ResultCall and the wrapper keep the types of their state.               *)
THEOREM TypeCorrect == Spec => []TypeOK
  <1>1. CallInv => TypeOK
    BY DEF CallInv
  <1> QED
    BY <1>1, CallInitial, CallStep, PTL DEF Spec

(* However a task is used and whatever is answered, one outcome is told at *)
(* most, and success only of a token.                                      *)
THEOREM ToldOnceHolds == Spec => []ToldOnce
  <1>1. CallInv => ToldOnce
    <2> SUFFICES ASSUME CallInv, NEW c \in Call
                 PROVE  /\ Len(outcome[c]) <= 1
                        /\ outcome[c] = <<"success">> => answer[c] = "token"
      BY DEF ToldOnce
    <2>1. ToldOf(c)
      BY DEF CallInv, Told
    <2>2. CASE outcome[c] = <<>>
      BY <2>1, <2>2 DEF ToldOf
    <2>3. ASSUME NEW o \in Outcome, outcome[c] = <<o>>
          PROVE  Len(outcome[c]) <= 1
      BY <2>3
    <2> QED
      BY <2>1, <2>2, <2>3 DEF ToldOf
  <1> QED
    BY <1>1, CallInitial, CallStep, PTL DEF Spec

-----------------------------------------------------------------------------
(* Careful tasks, if their answers can be converted.                       *)

(* No answer to a careful task makes the conversion fail.                  *)
ConvertibleAssumption == Answer \cap {"empty", "malformed"} = {}

(* The requests of each careful task by how far it has got; what is about to be    *)
(* told can be told.                                                       *)
OnceInv ==
  \A c \in Careful :
    /\ starts[c] = (IF pc[c] = "idle" THEN 0 ELSE 1)
    /\ completions[c] = (IF pc[c] = "over" THEN 1 ELSE 0)
    /\ Convert(answer[c]) # "throws"
    /\ pc[c] = "over" => outcome[c] # <<>>

(* Answers that are no "empty" and no "malformed" one can be converted.    *)
LEMMA Converted ==
  ASSUME ConvertibleAssumption, NEW c \in Careful, NEW a \in AnswersTo(c)
  PROVE  Convert(a) # "throws"
  BY AnswerAssumption DEF ConvertibleAssumption, AnswersTo, Convert, AllAnswers

(* Every step of such a task keeps the account of its requests.            *)
LEMMA OnceStep ==
  ConvertibleAssumption /\ CallInv /\ OnceInv /\ [Next]_vars => OnceInv'
  <1> SUFFICES ASSUME ConvertibleAssumption, CallInv, OnceInv, [Next]_vars
               PROVE  OnceInv'
    OBVIOUS
  <1> USE CarefulAssumption DEF OnceInv, CallInv, TypeOK
  <1>1. ASSUME NEW c \in Call, NEW m \in {"run", "enqueue"}, Execute(c, m)
        PROVE  OnceInv'
    BY <1>1 DEF Execute
  <1>2. ASSUME NEW c \in Call, NEW m \in {"run", "enqueue"}, ExecuteAgain(c, m)
        PROVE  OnceInv'
    BY <1>2 DEF ExecuteAgain
  <1>3. ASSUME NEW c \in Call, Cancel(c)
        PROVE  OnceInv'
    BY <1>3 DEF Cancel
  <1>4. ASSUME NEW c \in Call, NEW a \in AnswersTo(c), Return(c, a)
        PROVE  OnceInv'
    <2>1. c \in Careful => Convert(a) # "throws"
      BY Converted
    <2>3. Convert(a) \in Outcome
      BY ConvertType, AnswerType
    <2>2. outcome' = [outcome EXCEPT ![c] = <<Convert(a)>>]
      BY <1>4, <2>3, ToldFirst DEF Return, Told, ToldOf
    <2> QED
      BY <1>4, <2>3, <2>1, <2>2, ToldFirst DEF Return
  <1>5. ASSUME NEW c \in Call, NEW a \in AnswersTo(c), Respond(c, a)
        PROVE  OnceInv'
    <2>1. c \in Careful => Convert(a) # "throws"
      BY Converted
    <2> QED
      BY <1>5, <2>1 DEF Respond
  <1>6. ASSUME NEW c \in Call, Judge(c)
        PROVE  OnceInv'
    BY <1>6 DEF Judge
  <1>7. ASSUME NEW c \in Call, CallBack(c)
        PROVE  OnceInv'
    <2>1. verdict[c] \in Outcome
      BY <1>7, ConvertType DEF CallBack, Outcome, Told, ToldOf
    <2>2. outcome' = [outcome EXCEPT ![c] = <<verdict[c]>>]
      BY <1>7, <2>1, ToldFirst DEF CallBack, Told, ToldOf
    <2> QED
      BY <1>7, <2>1, <2>2, ToldFirst DEF CallBack
  <1>8. ASSUME NEW c \in Call, Crash(c)
        PROVE  OnceInv'
    BY <1>8 DEF Crash, Told, ToldOf
  <1>9. CASE UNCHANGED vars
    BY <1>9 DEF vars
  <1> QED
    BY <1>1, <1>2, <1>3, <1>4, <1>5, <1>6, <1>7, <1>8, <1>9 DEF Next

(* The account of a task's requests holds from the beginning on.           *)
LEMMA Once == ConvertibleAssumption /\ Spec => [](CallInv /\ OnceInv)
  <1> SUFFICES ASSUME ConvertibleAssumption
               PROVE  Spec => [](CallInv /\ OnceInv)
    OBVIOUS
  <1>1. Convert("failure") # "throws"
    BY DEF Convert
  <1>2. Init => OnceInv
    <2> SUFFICES ASSUME Init, NEW c \in Careful
                 PROVE  /\ pc[c] = "idle" /\ answer[c] = "failure"
                        /\ starts[c] = 0 /\ completions[c] = 0
      BY <1>1, Zenon DEF OnceInv
    <2>1. c \in Call
      BY CarefulAssumption
    <2> QED
      BY <2>1 DEF Init
  <1> QED
    BY <1>2, CallInitial, CallStep, OnceStep, PTL DEF Spec

(* If the answers can be converted, a careful execution that is over has   *)
(* told its outcome, whatever the other tasks do ...                       *)
THEOREM NotifiedHolds == ConvertibleAssumption /\ Spec => []Notified
  <1>1. OnceInv => Notified
    BY DEF OnceInv, Notified
  <1> QED
    BY <1>1, Once, PTL

(* No task completes more requests than it has started.                    *)
CountInv == \A c \in Call : completions[c] + (IF GoingOn(c) THEN 1 ELSE 0) <= starts[c]

(* A task completes a request when an execution ends, or throws.           *)
LEMMA CountStep == TypeOK /\ CountInv /\ [Next]_vars => CountInv'
  <1> SUFFICES ASSUME TypeOK, CountInv, [Next]_vars, NEW c \in Call
               PROVE  (completions[c] + (IF GoingOn(c) THEN 1 ELSE 0) <= starts[c])'
    BY DEF CountInv
  <1> USE DEF GoingOn
  <1>0. /\ starts[c] \in Nat /\ completions[c] \in Nat
        /\ starts \in [Call -> Nat] /\ completions \in [Call -> Nat] /\ pc \in [Call -> Step]
        /\ completions[c] + (IF GoingOn(c) THEN 1 ELSE 0) <= starts[c]
    BY DEF TypeOK, CountInv
  <1>1. ASSUME NEW d \in Call, NEW m \in {"run", "enqueue"}, Execute(d, m)
        PROVE  (completions[c] + (IF GoingOn(c) THEN 1 ELSE 0) <= starts[c])'
    BY <1>0, <1>1 DEF Execute
  <1>2. ASSUME NEW d \in Call, NEW m \in {"run", "enqueue"}, ExecuteAgain(d, m)
        PROVE  (completions[c] + (IF GoingOn(c) THEN 1 ELSE 0) <= starts[c])'
    BY <1>0, <1>2 DEF ExecuteAgain
  <1>3. ASSUME NEW d \in Call, NEW a \in AnswersTo(d), Return(d, a) \/ Respond(d, a)
        PROVE  (completions[c] + (IF GoingOn(c) THEN 1 ELSE 0) <= starts[c])'
    BY <1>0, <1>3 DEF Return, Respond
  <1>4. ASSUME NEW d \in Call, Cancel(d) \/ Judge(d) \/ CallBack(d) \/ Crash(d)
        PROVE  (completions[c] + (IF GoingOn(c) THEN 1 ELSE 0) <= starts[c])'
    BY <1>0, <1>4 DEF Cancel, Judge, CallBack, Crash
  <1>5. CASE UNCHANGED vars
    BY <1>0, <1>5 DEF vars
  <1> QED
    BY <1>1, <1>2, <1>3, <1>4, <1>5 DEF Next

(* ... and startRequest and completeRequest come in pairs, as              *)
(* TokenObserver assumes; no other task completes more than it starts.     *)
THEOREM PairedHolds == ConvertibleAssumption /\ Spec => []Paired
  <1>1. CallInv /\ OnceInv /\ CountInv => Paired
    <2> SUFFICES ASSUME CallInv, OnceInv, CountInv, NEW c \in Careful
                 PROVE  starts[c] = completions[c] + (IF GoingOn(c) THEN 1 ELSE 0)
      BY DEF Paired, CountInv
    <2>1. /\ starts[c] = (IF pc[c] = "idle" THEN 0 ELSE 1)
          /\ completions[c] = (IF pc[c] = "over" THEN 1 ELSE 0)
      BY DEF OnceInv
    <2>2. pc[c] \in Step
      BY CarefulAssumption DEF CallInv, TypeOK
    <2> QED
      BY <2>1, <2>2 DEF GoingOn, Step
  <1>2. Init => CountInv
    <2> SUFFICES ASSUME Init, NEW c \in Call
                 PROVE  completions[c] + (IF GoingOn(c) THEN 1 ELSE 0) <= starts[c]
      BY DEF CountInv
    <2>1. completions[c] = 0 /\ starts[c] = 0 /\ ~GoingOn(c)
      BY DEF Init, GoingOn
    <2> QED
      BY <2>1
  <1>3. CallInv => TypeOK
    BY DEF CallInv
  <1> QED
    BY <1>1, <1>2, <1>3, Once, CallInitial, CallStep, CountStep, PTL DEF Spec

-----------------------------------------------------------------------------
(* Cancellation on the main thread.                                        *)

(* A callback that is about to run does not tell the success of a careful  *)
(* task that was cancelled.                                                *)
CancelInv == \A c \in cancelled \cap Careful : pc[c] = "calling" => verdict[c] # "success"

(* Every step keeps the callbacks of cancelled tasks from success.         *)
LEMMA CancelStep ==
  CallInv /\ CancelInv /\ [Next]_vars => CancelInv'
  <1> SUFFICES ASSUME CallInv, CancelInv, [Next]_vars
               PROVE  CancelInv'
    OBVIOUS
  <1> USE DEF CancelInv, CallInv, TypeOK
  <1>1. ASSUME NEW c \in Call, NEW m \in {"run", "enqueue"},
               Execute(c, m) \/ ExecuteAgain(c, m)
        PROVE  CancelInv'
    BY <1>1 DEF Execute, ExecuteAgain
  <1>2. ASSUME NEW c \in Call, Cancel(c)
        PROVE  CancelInv'
    BY <1>2 DEF Cancel
  <1>3. ASSUME NEW c \in Call, NEW a \in AnswersTo(c), Return(c, a) \/ Respond(c, a)
        PROVE  CancelInv'
    BY <1>3 DEF Return, Respond
  <1>4. ASSUME NEW c \in Call, Judge(c)
        PROVE  CancelInv'
    <2>1. Convert("failure") # "success"
      BY DEF Convert
    <2>2. c \in cancelled \cap Careful => verdict'[c] # "success"
      BY <1>4, <2>1 DEF Judge
    <2> QED
      BY <1>4, <2>2 DEF Judge
  <1>5. ASSUME NEW c \in Call, CallBack(c) \/ Crash(c)
        PROVE  CancelInv'
    BY <1>5 DEF CallBack, Crash
  <1>6. CASE UNCHANGED vars
    BY <1>6 DEF vars
  <1> QED
    BY <1>1, <1>2, <1>3, <1>4, <1>5, <1>6 DEF Next

(* An enqueued task that was cancelled on the main thread does not call    *)
(* back with a success.                                                    *)
THEOREM NoSuccessAfterCancelHolds == Spec => NoSuccessAfterCancel
  <1>1. Init => CancelInv
    BY DEF Init, CancelInv
  <1>2. ASSUME CallInv, CancelInv, [Next]_vars, NEW c \in cancelled \cap Careful,
               mode[c] = "enqueue", outcome'[c] # outcome[c]
        PROVE  outcome'[c] # <<"success">>
    <2> USE <1>2 DEF CallInv, TypeOK, Told, ToldOf
    <2>1. CallBack(c)
      BY DEF Next, vars, Execute, ExecuteAgain, Cancel, Return, Respond, Judge,
         CallBack, Crash
    <2>2. verdict[c] \in Outcome /\ verdict[c] # "success"
      BY <2>1, ConvertType DEF CallBack, Outcome, CancelInv
    <2>3. outcome'[c] = <<verdict[c]>>
      BY <2>1, <2>2, ToldFirst DEF CallBack
    <2> QED
      BY <2>2, <2>3, ToldFirst
  <1>3. CallInv /\ CancelInv /\ [Next]_vars =>
          [\A c \in cancelled \cap Careful :
             mode[c] = "enqueue" /\ outcome'[c] # outcome[c]
               => outcome'[c] # <<"success">>]_vars
    BY <1>2
  <1> QED
    BY <1>1, <1>3, CallInitial, CallStep, CancelStep, PTL DEF Spec, NoSuccessAfterCancel
=============================================================================

------------------------------ MODULE TaskCall ------------------------------
(***************************************************************************)
(* Token tasks: the Task that PayjpToken.wrapWithObserver puts around a    *)
(* ResultCall, which is executed by run() on a thread of the application   *)
(* or by enqueue() with a callback, answered by the network, and may be    *)
(* cancelled at any time.                                                  *)
(*                                                                         *)
(* TokenObserver assumes that each execution calls startRequest and        *)
(* completeRequest once, and CardFormScreen that it calls back once; this  *)
(* module says when they do.                                               *)
(***************************************************************************)
EXTENDS Naturals, Sequences

CONSTANTS
  Call,      (* tasks, each with the retrofit call it delegates to          *)
  Careful,   (* the tasks that are used as the card form uses them          *)
  Answer,    (* what the network may answer to these                        *)
  MaxStarts  (* bound: executions of one of the other tasks                 *)

(***************************************************************************)
(* A careful task is executed once and cancelled on the main thread, where *)
(* its callback runs; any other may be executed again, cancelled on every  *)
(* thread and answered in every way.                                       *)
(*                                                                         *)
(* "token": success with a body; "empty": success without one (204, 205);  *)
(* "envelope": an error described by an ErrorEnvelope; "noEnvelope": an    *)
(* error whose body is missing or JSON's null; "malformed": an error whose *)
(* body is something else, such as the page of a gateway; "failure": no    *)
(* response that can be read.                                              *)
(***************************************************************************)
AllAnswers == {"token", "empty", "envelope", "noEnvelope", "malformed", "failure"}

AnswersTo(c) == IF c \in Careful THEN Answer ELSE AllAnswers

ASSUME CarefulAssumption == Careful \subseteq Call
ASSUME AnswerAssumption  == Answer \subseteq AllAnswers /\ "failure" \in Answer
ASSUME BoundAssumption   == MaxStarts \in Nat

VARIABLES
  pc,          (* how far each task's execution has got                     *)
  mode,        (* by which method it was executed                           *)
  answer,      (* the network's answer, once there is one                   *)
  cancelled,   (* tasks for which isCanceled holds                          *)
  executor,    (* callbackExecutor: tasks whose callback it will run        *)
  verdict,     (* what each task's callback is about to be told             *)
  outcome,     (* what each task's execution has told the application       *)
  starts,      (* number of startRequest calls for each task                *)
  completions, (* number of completeRequest calls for each task             *)
  crashed      (* an uncaught exception has ended the process               *)

vars == <<pc, mode, answer, cancelled, executor, verdict, outcome, starts,
          completions, crashed>>

(* "answered": the callback waits in callbackExecutor; "calling": it has   *)
(* looked at the answer and is about to call the application.              *)
Step == {"idle", "waiting", "answered", "calling", "over"}

(* Faulty variant: an error without an envelope is not provided for.       *)
ConvertEnvelopes(a) ==
  IF a = "token" THEN "success"
  ELSE IF a \in {"envelope", "failure"} THEN "error" ELSE "throws"

(* body()!! of a success and generateHttpError of an error, which can fail *)
(* themselves: "throws".  An envelope becomes a PayjpCardException, a      *)
(* PayjpRateLimitException or a PayjpApiException, no envelope a           *)
(* RuntimeException, and a failure is passed on: all of them are errors.   *)
Convert(a) ==
  IF a = "token" THEN "success"
  ELSE IF a \in {"empty", "malformed"} THEN "throws" ELSE "error"

(* What the application is told.                                           *)
Outcome == {"success", "error", "throws", "Canceled"}

-----------------------------------------------------------------------------
(* Execution.                                                              *)

(* run() and enqueue() of the wrapper call startRequest and hand over to   *)
(* the call, which goes to the network.                                    *)
Execute(c, m) ==
  /\ ~crashed
  /\ pc[c] = "idle"
  /\ pc' = [pc EXCEPT ![c] = "waiting"]
  /\ mode' = [mode EXCEPT ![c] = m]
  /\ starts' = [starts EXCEPT ![c] = @ + 1]
  /\ UNCHANGED <<answer, cancelled, executor, verdict, outcome, completions, crashed>>

(* Faulty variant: a call can be executed again.                           *)
ExecuteAfresh(c, m) ==
  /\ ~crashed
  /\ c \notin Careful
  /\ pc[c] = "over"
  /\ starts[c] < MaxStarts
  /\ pc' = [pc EXCEPT ![c] = "waiting"]
  /\ mode' = [mode EXCEPT ![c] = m]
  /\ starts' = [starts EXCEPT ![c] = @ + 1]
  /\ UNCHANGED <<answer, cancelled, executor, verdict, outcome, completions, crashed>>

(* A call that was executed before throws: run() has a finally block,      *)
(* enqueue() has none.                                                     *)
ExecuteAgain(c, m) ==
  /\ ~crashed
  /\ c \notin Careful
  /\ pc[c] # "idle"
  /\ starts[c] < MaxStarts
  /\ starts' = [starts EXCEPT ![c] = @ + 1]
  /\ completions' = IF m = "run" THEN [completions EXCEPT ![c] = @ + 1] ELSE completions
  /\ UNCHANGED <<pc, mode, answer, cancelled, executor, verdict, outcome, crashed>>

(* cancel: a call that waits for the network is aborted, but its answer    *)
(* may already be there.  The main thread cancels between the jobs it runs.*)
(* A call cancelled before it is executed may be answered here as well,    *)
(* which only adds behaviours.                                             *)
Cancel(c) ==
  /\ ~crashed
  /\ c \notin cancelled
  /\ c \in Careful => \A d \in Call : pc[d] # "calling"
  /\ cancelled' = cancelled \cup {c}
  /\ UNCHANGED <<pc, mode, answer, executor, verdict, outcome, starts, completions,
                 crashed>>

-----------------------------------------------------------------------------
(* run(): the thread that called it gets the result or the exception.      *)

(* Faulty variant: an exception skips the completion.                      *)
ReturnWithoutFinally(c, a) ==
  /\ ~crashed
  /\ pc[c] = "waiting" /\ mode[c] = "run"
  /\ answer' = [answer EXCEPT ![c] = a]
  /\ outcome' = [outcome EXCEPT ![c] = Append(@, Convert(a))]
  /\ completions' = IF Convert(a) = "success" THEN [completions EXCEPT ![c] = @ + 1]
                    ELSE completions
  /\ pc' = [pc EXCEPT ![c] = "over"]
  /\ UNCHANGED <<mode, cancelled, executor, verdict, starts, crashed>>

(* execute, body and the finally block.  What fails here is thrown to the  *)
(* caller.                                                                 *)
Return(c, a) ==
  /\ ~crashed
  /\ pc[c] = "waiting" /\ mode[c] = "run"
  /\ answer' = [answer EXCEPT ![c] = a]
  /\ outcome' = [outcome EXCEPT ![c] = Append(@, Convert(a))]
  /\ completions' = [completions EXCEPT ![c] = @ + 1]
  /\ pc' = [pc EXCEPT ![c] = "over"]
  /\ UNCHANGED <<mode, cancelled, executor, verdict, starts, crashed>>

-----------------------------------------------------------------------------
(* enqueue(): the network's thread passes the answer to callbackExecutor.  *)

Respond(c, a) ==
  /\ ~crashed
  /\ pc[c] = "waiting" /\ mode[c] = "enqueue"
  /\ answer' = [answer EXCEPT ![c] = a]
  /\ executor' = Append(executor, c)
  /\ pc' = [pc EXCEPT ![c] = "answered"]
  /\ UNCHANGED <<mode, cancelled, verdict, outcome, starts, completions, crashed>>

Current(c) == executor # <<>> /\ c = Head(executor)

(* Faulty variant: cancellation is left to the network.                    *)
JudgeUncancelled(c) ==
  /\ ~crashed
  /\ Current(c) /\ pc[c] = "answered"
  /\ verdict' = [verdict EXCEPT ![c] = Convert(answer[c])]
  /\ pc' = [pc EXCEPT ![c] = "calling"]
  /\ UNCHANGED <<mode, answer, cancelled, executor, outcome, starts, completions, crashed>>

(* Faulty variant: a cancelled call is not called back.                    *)
JudgeUnlessCancelled(c) ==
  /\ ~crashed
  /\ Current(c) /\ pc[c] = "answered" /\ c \notin cancelled
  /\ verdict' = [verdict EXCEPT ![c] = Convert(answer[c])]
  /\ pc' = [pc EXCEPT ![c] = "calling"]
  /\ UNCHANGED <<mode, answer, cancelled, executor, outcome, starts, completions, crashed>>

(* The job looks whether the call was cancelled, then at the response.     *)
Judge(c) ==
  /\ ~crashed
  /\ Current(c) /\ pc[c] = "answered"
  /\ verdict' = [verdict EXCEPT ![c] =
                   IF c \in cancelled /\ answer[c] # "failure" THEN "Canceled"
                   ELSE Convert(answer[c])]
  /\ pc' = [pc EXCEPT ![c] = "calling"]
  /\ UNCHANGED <<mode, answer, cancelled, executor, outcome, starts, completions, crashed>>

(* Faulty variant: the application is called before the answer is looked at.*)
CallBackFirst(c) ==
  /\ ~crashed
  /\ Current(c) /\ pc[c] \in {"answered", "calling"} /\ verdict[c] # "throws"
  /\ outcome' = [outcome EXCEPT ![c] = Append(@, verdict[c])]
  /\ completions' = [completions EXCEPT ![c] = @ + 1]
  /\ pc' = [pc EXCEPT ![c] = "over"]
  /\ executor' = Tail(executor)
  /\ UNCHANGED <<mode, answer, cancelled, verdict, starts, crashed>>

(* completeRequest and the application's onSuccess or onError ...          *)
CallBack(c) ==
  /\ ~crashed
  /\ Current(c) /\ pc[c] = "calling" /\ verdict[c] # "throws"
  /\ outcome' = [outcome EXCEPT ![c] = Append(@, verdict[c])]
  /\ completions' = [completions EXCEPT ![c] = @ + 1]
  /\ pc' = [pc EXCEPT ![c] = "over"]
  /\ executor' = Tail(executor)
  /\ UNCHANGED <<mode, answer, cancelled, verdict, starts, crashed>>

(* ... unless there is nothing to call them with: nobody catches that.     *)
Crash(c) ==
  /\ ~crashed
  /\ Current(c) /\ pc[c] = "calling" /\ verdict[c] = "throws"
  /\ crashed' = TRUE
  /\ pc' = [pc EXCEPT ![c] = "over"]
  /\ executor' = Tail(executor)
  /\ UNCHANGED <<mode, answer, cancelled, verdict, outcome, starts, completions>>

-----------------------------------------------------------------------------
Init ==
  /\ pc = [c \in Call |-> "idle"]
  /\ mode = [c \in Call |-> "run"]
  /\ answer = [c \in Call |-> "failure"]
  /\ cancelled = {}
  /\ executor = <<>>
  /\ verdict = [c \in Call |-> "none"]
  /\ outcome = [c \in Call |-> <<>>]
  /\ starts = [c \in Call |-> 0]
  /\ completions = [c \in Call |-> 0]
  /\ crashed = FALSE
Next ==
  \/ \E c \in Call : \E m \in {"run", "enqueue"} : Execute(c, m) \/ ExecuteAgain(c, m)
  \/ \E c \in Call : Cancel(c)
  \/ \E c \in Call : \E a \in AnswersTo(c) : Return(c, a) \/ Respond(c, a)
  \/ \E c \in Call : Judge(c) \/ CallBack(c) \/ Crash(c)

(* The network answers or times out, and callbackExecutor runs its jobs.   *)
(* The application need not execute, nor cancel, anything.                 *)
Fairness ==
  /\ \A c \in Call : WF_vars(\E a \in AnswersTo(c) : Return(c, a) \/ Respond(c, a))
  /\ WF_vars(\E c \in Call : Judge(c) \/ CallBack(c) \/ Crash(c))

Spec == Init /\ [][Next]_vars /\ Fairness

-----------------------------------------------------------------------------
(* Every variable stays in its set.                                        *)
TypeOK ==
  /\ pc \in [Call -> Step]
  /\ mode \in [Call -> {"run", "enqueue"}]
  /\ answer \in [Call -> AllAnswers]
  /\ cancelled \subseteq Call
  /\ executor \in Seq(Call)
  /\ verdict \in [Call -> Outcome \cup {"none"}]
  /\ outcome \in [Call -> Seq(Outcome)]
  /\ starts \in [Call -> Nat]
  /\ completions \in [Call -> Nat]
  /\ crashed \in BOOLEAN

(* The execution has not told its outcome.                                 *)
GoingOn(c) == pc[c] \in {"waiting", "answered", "calling"}

(* However often a task is executed and cancelled, and wherever, its       *)
(* application is told one outcome at most, and a success only if the      *)
(* network answered with a token.                                          *)
ToldOnce ==
  \A c \in Call :
    /\ Len(outcome[c]) <= 1
    /\ outcome[c] = <<"success">> => answer[c] = "token"

(* A task that has been executed comes to its end.                         *)
Ended == \A c \in Call : pc[c] = "waiting" ~> pc[c] = "over" \/ crashed

(* "Run task and notify callback of result or error" (Task.enqueue): an    *)
(* execution of a careful task that is over has told its outcome.          *)
Notified == \A c \in Careful : pc[c] = "over" => outcome[c] # <<>>

(* What TokenObserver relies on, and RUNNING ("The request is running")    *)
(* means.  No task, however it is executed, answered and cancelled,        *)
(* completes a request that it has not started, or completes it while it   *)
(* is going on; and a careful one leaves none that it has started          *)
(* incomplete (PayjpToken.wrapWithObserver).  Others may: enqueue throws   *)
(* for a task that was executed before.                                    *)
Paired ==
  \A c \in Call :
    LET requests == completions[c] + (IF GoingOn(c) THEN 1 ELSE 0)
    IN  /\ requests <= starts[c]
        /\ c \in Careful => requests = starts[c]

(* A task that was cancelled on the main thread, where its callback runs,  *)
(* does not call back with a success afterwards: a screen that has been    *)
(* cleared does not get a token.                                           *)
NoSuccessAfterCancel ==
  [][\A c \in cancelled \cap Careful :
       mode[c] = "enqueue" /\ outcome'[c] # outcome[c] => outcome'[c] # <<"success">>]_vars
=============================================================================

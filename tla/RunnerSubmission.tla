-------------------------- MODULE RunnerSubmission --------------------------
(***************************************************************************)
(* The submission dispatcher of a controller or participant runner         *)
(* (agent-sdk/runtime/runner_submission.go): callers queue a submission,   *)
(* one goroutine hands the queued ones to the remote Agent, and the end of *)
(* the run stops both.  Each select of the code chooses among what is      *)
(* ready; the queue survives the goroutine, so a late caller can still     *)
(* enqueue.                                                                *)
(***************************************************************************)
EXTENDS Naturals, FiniteSets, Sequences

CONSTANTS
    Callers,        \* one submission each
    Capacity,       \* runnerSubmissionQueueCapacity
    None

ASSUME CapacityAssumption == Capacity \in Nat \ {0}

VARIABLES
    req,            \* caller -> its runnerSubmissionRequest and its place in submit
    queue,          \* dispatcher.queue
    pc,             \* run: select, taken, check, handle, reject, exited
    current,        \* the request run has taken, or None
    stopErr,        \* dispatcher.stopErr is set and stopped is closed
    closer,         \* close: idle, cancelling (it read activeCancel), returned
    activeCancel,   \* dispatcher.activeCancel is set
    callCancelled,  \* the context of the handler's call is cancelled
    parent,         \* the context of the run is cancelled
    handled         \* caller -> how often the handler did what was submitted

vars == <<req, queue, pc, current, stopErr, closer, activeCancel, callCancelled, parent, handled>>
dispatcher == <<queue, pc, current, stopErr, closer, activeCancel, callCancelled, parent, handled>>

\* at       idle, queueing, waiting (for a result, ctx or done), late (ctx done, but
\*          dispatched), returned
\* ctx      the caller's context is cancelled
\* result   what run sent on the buffered channel; answer: what submit returned
NoRequest == [at |-> "idle", ctx |-> FALSE, dispatched |-> FALSE, settled |-> FALSE,
              cancelled |-> FALSE, result |-> "none", answer |-> "none"]

Outcomes == {"ok", "failed", "notDispatched", "stopped"}

Request == [at : {"idle", "queueing", "waiting", "late", "returned"}, ctx : BOOLEAN,
            dispatched : BOOLEAN, settled : BOOLEAN, cancelled : BOOLEAN,
            result : Outcomes \cup {"none"}, answer : Outcomes \cup {"none"}]

\* One type invariant for the dispatcher and its callers.
TypeOK ==
    /\ req \in [Callers -> Request]
    /\ queue \in Seq(Callers) /\ Len(queue) <= Capacity
    /\ pc \in {"select", "taken", "check", "handle", "reject", "exited"}
    /\ current \in Callers \cup {None}
    /\ closer \in {"idle", "cancelling", "returned"}
    /\ {stopErr, activeCancel, callCancelled, parent} \subseteq BOOLEAN
    /\ handled \in [Callers -> 0 .. 1]

Init ==
    /\ req = [c \in Callers |-> NoRequest]
    /\ queue = <<>> /\ pc = "select" /\ current = None
    /\ stopErr = FALSE /\ closer = "idle" /\ activeCancel = FALSE /\ callCancelled = FALSE
    /\ parent = FALSE
    /\ handled = [c \in Callers |-> 0]

-----------------------------------------------------------------------------
\* submit

Set(c, fields) == req' = [req EXCEPT ![c] = fields]
Answer(c, answer) == req' = [req EXCEPT ![c].at = "returned", ![c].answer = answer]

Submit(c) ==
    /\ req[c].at = "idle"
    /\ Set(c, [req[c] EXCEPT !.at = "queueing"])
    /\ UNCHANGED dispatcher

\* The caller's context may end at any time; the handler's call derives from it.
ContextEnds(c) ==
    /\ req[c].at \in {"queueing", "waiting"} /\ ~req[c].ctx
    /\ Set(c, [req[c] EXCEPT !.ctx = TRUE])
    /\ callCancelled' = (callCancelled \/ (pc = "handle" /\ current = c))
    /\ UNCHANGED <<queue, pc, current, stopErr, closer, activeCancel, parent, handled>>

\* The first select.  Sending can win although the dispatcher has stopped.
Enqueue(c) ==
    /\ req[c].at = "queueing"
    /\ \/ /\ req[c].ctx
          /\ Answer(c, "notDispatched") /\ UNCHANGED dispatcher
       \/ /\ stopErr
          /\ Answer(c, "stopped") /\ UNCHANGED dispatcher
       \/ /\ Len(queue) < Capacity
          /\ queue' = Append(queue, c)
          /\ Set(c, [req[c] EXCEPT !.at = "waiting"])
          /\ UNCHANGED <<pc, current, stopErr, closer, activeCancel, callCancelled, parent, handled>>

\* Mutant of cancelBeforeDispatch: it forgets what run has already dispatched.
CancelUnlessSettled(c) == ~req[c].settled

\* cancelBeforeDispatch
cancelBeforeDispatch(c) == ~(req[c].dispatched \/ req[c].settled)

\* The second select, case ctx.Done.
GiveUp(c) ==
    /\ req[c].at = "waiting" /\ req[c].ctx
    /\ IF cancelBeforeDispatch(c)
          THEN req' = [req EXCEPT ![c].cancelled = TRUE, ![c].at = "returned",
                                  ![c].answer = "notDispatched"]
          ELSE Set(c, [req[c] EXCEPT !.at = "late"])
    /\ UNCHANGED dispatcher

\* The second or third select, case result.
TakeResult(c) ==
    /\ req[c].at \in {"waiting", "late"} /\ req[c].result # "none"
    /\ Answer(c, req[c].result)
    /\ UNCHANGED dispatcher

\* The second or third select, case done: a result that is there wins.
TakeDone(c) ==
    /\ req[c].at \in {"waiting", "late"} /\ pc = "exited"
    /\ Answer(c, IF req[c].result # "none" THEN req[c].result ELSE "stopped")
    /\ UNCHANGED dispatcher

-----------------------------------------------------------------------------
\* run and close

\* markSettled, and the result on its buffered channel.
Settled(c, result) == [req EXCEPT ![c].settled = TRUE, ![c].result = result]

control == <<closer, stopErr, activeCancel, callCancelled, parent>>

\* The select of run takes a request ...
Dequeue ==
    /\ pc = "select" /\ queue # <<>>
    /\ current' = Head(queue) /\ queue' = Tail(queue) /\ pc' = "taken"
    /\ UNCHANGED <<req, control, handled>>

\* ... which is dispatched unless its caller has gone (beginDispatch).
beginDispatch ==
    /\ pc = "taken"
    /\ IF req[current].ctx \/ req[current].cancelled \/ req[current].settled
          THEN /\ req' = Settled(current, "notDispatched")
               /\ pc' = "select" /\ current' = None
          ELSE /\ req' = [req EXCEPT ![current].dispatched = TRUE]
               /\ pc' = "check" /\ UNCHANGED current
    /\ UNCHANGED <<queue, control, handled>>

\* Mutant of Install: the stop is not checked under the lock that installs the cancel.
InstallUnchecked ==
    /\ pc = "check"
    /\ activeCancel' = TRUE /\ callCancelled' = (parent \/ req[current].ctx)
    /\ pc' = "handle"
    /\ UNCHANGED <<req, queue, current, stopErr, closer, parent, handled>>

\* Under the lock: a stopped dispatcher answers, another installs its cancel.
Install ==
    /\ pc = "check"
    /\ IF stopErr
          THEN /\ req' = Settled(current, "stopped")
               /\ pc' = "select" /\ current' = None
               /\ UNCHANGED <<activeCancel, callCancelled>>
          ELSE /\ activeCancel' = TRUE /\ callCancelled' = (parent \/ req[current].ctx)
               /\ pc' = "handle" /\ UNCHANGED <<req, current>>
    /\ UNCHANGED <<queue, stopErr, closer, parent, handled>>

\* The handler returns: it has done what was submitted, or it has failed without.
Handle ==
    /\ pc = "handle"
    /\ \E result \in {"ok", "failed"} :
          /\ req' = Settled(current, result)
          /\ handled' = [handled EXCEPT ![current] = @ + (IF result = "ok" THEN 1 ELSE 0)]
    /\ activeCancel' = FALSE /\ callCancelled' = FALSE
    /\ pc' = "select" /\ current' = None
    /\ UNCHANGED <<queue, stopErr, closer, parent>>

\* The select of run sees the end of the run or the stop, and closes.
Stop ==
    /\ pc = "select" /\ (parent \/ stopErr)
    /\ stopErr' = TRUE /\ pc' = "reject"
    /\ UNCHANGED <<req, queue, current, closer, activeCancel, callCancelled, parent, handled>>

\* rejectQueued, one request at a time, and then done.
rejectQueued ==
    /\ pc = "reject"
    /\ IF queue = <<>>
          THEN pc' = "exited" /\ UNCHANGED <<req, queue>>
          ELSE /\ req' = Settled(Head(queue), "stopped")
               /\ queue' = Tail(queue) /\ UNCHANGED pc
    /\ UNCHANGED <<current, control, handled>>

\* Mutant of Close: the running call is not cancelled.
CloseQuietly ==
    /\ closer = "idle"
    /\ stopErr' = TRUE /\ closer' = "returned"
    /\ UNCHANGED <<req, queue, pc, current, activeCancel, callCancelled, parent, handled>>

\* close by runner.finish: the error and stopped under the lock ...
Close ==
    /\ closer = "idle"
    /\ stopErr' = TRUE
    /\ closer' = IF activeCancel /\ ~stopErr THEN "cancelling" ELSE "returned"
    /\ UNCHANGED <<req, queue, pc, current, activeCancel, callCancelled, parent, handled>>

\* ... then the cancel it read there; one that has ended is cancelled to no effect.
CloseCancels ==
    /\ closer = "cancelling"
    /\ callCancelled' = (callCancelled \/ pc = "handle")
    /\ closer' = "returned"
    /\ UNCHANGED <<req, queue, pc, current, stopErr, activeCancel, parent, handled>>

\* The context of the run ends; AfterFunc cancels the call.
ParentEnds ==
    /\ ~parent /\ parent' = TRUE
    /\ callCancelled' = (callCancelled \/ pc = "handle")
    /\ UNCHANGED <<req, queue, pc, current, stopErr, closer, activeCancel, handled>>

-----------------------------------------------------------------------------

CallStep(c) == Enqueue(c) \/ GiveUp(c) \/ TakeResult(c) \/ TakeDone(c)
RunStep == Dequeue \/ beginDispatch \/ Install \/ Stop \/ rejectQueued

\* The dispatcher has ended and every caller has its answer.
Ended ==
    /\ pc = "exited" /\ closer # "cancelling"
    /\ \A c \in Callers : req[c].at \in {"idle", "returned"}
    /\ UNCHANGED vars

Next ==
    \/ \E c \in Callers : Submit(c) \/ ContextEnds(c) \/ CallStep(c)
    \/ RunStep \/ Handle
    \/ Close \/ CloseCancels \/ ParentEnds
    \/ Ended

Spec == Init /\ [][Next]_vars

\* Goroutines are scheduled.  A handler whose call is cancelled returns; one that is
\* not may wait for its Agent forever.
Fairness ==
    /\ \A c \in Callers : WF_vars(CallStep(c))
    /\ WF_vars(RunStep) /\ WF_vars(CloseCancels)
    /\ WF_vars(callCancelled /\ Handle)

FairSpec == Spec /\ Fairness

-----------------------------------------------------------------------------
\* Properties

\* A submission reported as not dispatched, or as refused by a closed run, was not
\* handled and never will be: callers route it to another Turn (isHostedChildInputClosingEdge).
RefusedIsNotHandled ==
    \A c \in Callers : req[c].answer \in {"notDispatched", "stopped"} =>
        /\ handled[c] = 0
        /\ ~(current = c /\ pc = "handle")

\* Success is reported exactly for what was handled, once.
OkIsHandled ==
    \A c \in Callers : req[c].answer # "none" => (req[c].answer = "ok" <=> handled[c] = 1)

\* What submit returns is what happened, in every interleaving of its selects with
\* those of run.
AnswerIsTrue == TypeOK /\ RefusedIsNotHandled /\ OkIsHandled

\* When close has returned, the call it found running is cancelled and no other
\* starts: it cannot keep the run open.
CloseReachesHandler == closer = "returned" /\ pc = "handle" => callCancelled

\* Once the run is stopped or its own context has ended, every submission is
\* answered, whether it was queued before or after the stop.
StopAnswersAll ==
    \A c \in Callers :
        (closer = "returned" \/ parent \/ req[c].ctx) /\ req[c].at # "idle" ~> req[c].at = "returned"

=============================================================================

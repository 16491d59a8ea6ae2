---------------------------- MODULE GatewayTurns ----------------------------
(***************************************************************************)
(* Turns of one Session in the Gateway (internal/kernel/gateway_turns.go,  *)
(* gateway_active.go, gateway_control.go, gateway_recovery.go, handle.go), *)
(* the runner that executes a Turn (agent-sdk/runtime/runner.go, chat.go), *)
(* its execution fence, and the callers that race for the Turn: Agent      *)
(* input from a child, participant prompts, configuration reconciliation,  *)
(* interrupts and Host shutdown.                                           *)
(***************************************************************************)
EXTENDS Integers, FiniteSets, Sequences, SequencesExt

CONSTANTS
    Senders,        \* routeHostedChildInputToParent, one input each
    Prompters,      \* PromptParticipant
    Reconcilers,    \* reconcileSessionExternalAgent
    Interrupters,   \* Interrupt
    Closers,        \* Quiesce
    Scenarios,      \* bound: the sets of callers that come together
    Faults,         \* bound: the environment's choices, a subset of AllFaults
    None,
    MaxTurns        \* bound: a later admission fails like a Session that cannot be read

Callers == Senders \cup Prompters \cup Reconcilers \cup Interrupters \cup Closers
TurnIDs == 1 .. MaxTurns

\* The observer refuses an event, the Session's context is cancelled, the inner Run or
\* the release of the fence or the recovery of a lost run fails, the fence is lost, and
\* the producer reports that it did not complete.
AllFaults == {"observer", "parent", "start", "release", "recover", "lost", "reported"}
ASSUME BoundsAssumption == Faults \subseteq AllFaults /\ Scenarios \subseteq SUBSET Callers

VARIABLES
    turn,           \* turnHandle, its producer goroutine and its runner, see NoTurn
    active,         \* Gateway.active for the Session: a Turn, or 0
    quiescing,      \* Gateway.quiescing
    blocks,         \* Gateway.turnAdmissionBlocks for the Session
    next,           \* the next Turn ID
    fence,          \* the Turn whose durable execution fence the store holds, or 0
    parent,         \* the runtime context of the Session is cancelled
    transcript,     \* the model input appended to the Session: whose, in order
    call            \* caller -> its call in progress, see NoCall

vars == <<turn, active, quiescing, blocks, next, fence, parent, transcript, call>>

\* pc         of BeginTurn and then runTurn, for this handle
\* cancelled, failed, terminal      of the handle; ctx: its run context is cancelled
\* runner     turnHandle.runner is set
\* run        the producer: boot (started), live, quiet (agent returned), done
\*            (runner.done closed), released (fence released), retrying
\* closed, queue                    runner.closed, runner.submissions
\* cut        a tool completed the Turn;  lost: the fence is absent or replaced
\* err        the producer or the release of its fence failed
NoTurn == [pc |-> "unused", kind |-> "kernel", by |-> None, cancelled |-> FALSE, failed |-> FALSE,
           ctx |-> FALSE, runner |-> FALSE, terminal |-> "none", run |-> "none", closed |-> FALSE,
           queue |-> <<>>, cut |-> FALSE, lost |-> FALSE, err |-> FALSE]

Turn == [pc : {"unused", "setup", "aborting", "abortFinishing", "aborted", "starting", "started",
               "waiting", "ending", "released", "finishing", "finished"},
         kind : {"kernel", "participant"}, by : Callers \cup {None}, cancelled : BOOLEAN,
         failed : BOOLEAN, ctx : BOOLEAN, runner : BOOLEAN,
         terminal : {"none", "completed", "cancelled", "failed"},
         run : {"none", "boot", "live", "quiet", "done", "retrying", "released"},
         closed : BOOLEAN, queue : Seq(Senders), cut : BOOLEAN, lost : BOOLEAN, err : BOOLEAN]

\* woken    activeChanged was closed since the caller took it
\* waits    the executions RecoverLostRun found lost and waits for
NoCall == [pc |-> "idle", turn |-> 0, woken |-> FALSE, waits |-> {}, result |-> "none"]

Call == [pc : {"absent", "idle", "select", "submit", "handle", "runner", "await", "asleep", "recover",
               "recovering", "recovered", "admit", "setup", "target", "cancel", "cancelFn",
               "mutate", "beside", "returned"},
         turn : 0 .. MaxTurns, woken : BOOLEAN, waits : SUBSET TurnIDs,
         result : {"none", "accepted", "rejected"}]

\* One type invariant for the state of the Gateway and its callers.
TypeOK ==
    /\ turn \in [TurnIDs -> Turn]
    /\ active \in 0 .. MaxTurns /\ fence \in 0 .. MaxTurns /\ next \in 1 .. MaxTurns + 1
    /\ quiescing \in BOOLEAN /\ parent \in BOOLEAN
    /\ blocks \in 0 .. Cardinality(Reconcilers)
    /\ transcript \in Seq(Senders)
    /\ call \in [Callers -> Call]

Init ==
    /\ turn = [t \in TurnIDs |-> NoTurn]
    /\ active = 0 /\ fence = 0 /\ next = 1 /\ blocks = 0
    /\ quiescing = FALSE /\ parent = FALSE
    /\ transcript = <<>>
    /\ \E present \in Scenarios :
          call = [c \in Callers |-> IF c \in present THEN NoCall ELSE [NoCall EXCEPT !.pc = "absent"]]

-----------------------------------------------------------------------------
\* Helpers

gateway == <<active, quiescing, blocks, next>>

Ctx(t) == turn[t].ctx \/ parent
Finished(t) == turn[t].pc \in {"abortFinishing", "aborted", "finishing", "finished"}

To(c, pc) == call' = [call EXCEPT ![c].pc = pc]
Return(c, result) == call' = [call EXCEPT ![c].pc = "returned", ![c].result = result]

\* A step of the caller alone.
Only(c, step) == step /\ UNCHANGED <<turn, gateway, fence, parent, transcript>>

\* A step of the Turn's own goroutines that is not seen by callers.
TurnStep(t, fields) ==
    /\ turn' = [turn EXCEPT ![t] = fields]
    /\ UNCHANGED <<gateway, parent, call>>

\* signalActiveChangedLocked wakes every caller that took the previous channel.
Woken(calls) ==
    [c \in Callers |->
        IF calls[c].pc \in {"asleep", "recovering", "recovered", "cancel", "cancelFn"}
        THEN [calls[c] EXCEPT !.woken = TRUE] ELSE calls[c]]

\* The error of a Turn that lost the race: input is routed again, a prompt fails.
Conflict(c) ==
    IF c \in Senders THEN To(c, "select") ELSE Return(c, "rejected")

-----------------------------------------------------------------------------
\* Agent input from a child: routeHostedChildInputToParent

Select(s) ==
    /\ s \in Senders /\ call[s].pc \in {"idle", "select"}
    /\ Only(s, IF active = 0
                  THEN To(s, "recover")
               ELSE IF turn[active].kind = "participant"
                  THEN Return(s, "rejected")
                  ELSE call' = [call EXCEPT ![s].pc = "submit", ![s].turn = active])

\* SubmitActiveTurn takes the handle only when it is the selected Turn.
SubmitActiveTurn(s) ==
    /\ call[s].pc = "submit"
    /\ Only(s, To(s, IF active = call[s].turn THEN "handle" ELSE "select"))

\* turnHandle.Submit; it waits for runnerReady, closed by setRunner, Cancel and finish.
SubmitHandle(s) ==
    LET t == call[s].turn IN
    /\ call[s].pc = "handle"
    /\ turn[t].cancelled \/ turn[t].runner \/ Finished(t)
    /\ Only(s, IF turn[t].cancelled THEN Return(s, "rejected")
               ELSE To(s, IF turn[t].runner THEN "runner" ELSE "await"))

\* runner.submitContext without a dispatcher: queued under the lock that closes input.
submitContext(s) ==
    LET t == call[s].turn IN
    /\ call[s].pc = "runner"
    /\ IF turn[t].closed
          THEN To(s, "await") /\ UNCHANGED turn
          ELSE /\ Return(s, "accepted")
               /\ turn' = [turn EXCEPT ![t].queue = Append(@, s)]
    /\ UNCHANGED <<gateway, fence, parent, transcript>>

\* WaitActiveTurnChange: the channel is taken under the lock that shows the Turn.
WaitActiveTurnChange(c) ==
    /\ call[c].pc = "await"
    /\ Only(c, IF active # call[c].turn
                  THEN To(c, IF c \in Senders THEN "select" ELSE "mutate")
                  ELSE call' = [call EXCEPT ![c].pc = "asleep", ![c].woken = FALSE])

Wake(c) ==
    /\ call[c].pc = "asleep" /\ call[c].woken
    /\ Only(c, To(c, IF c \in Closers THEN "idle" ELSE "await"))

-----------------------------------------------------------------------------
\* BeginTurn and PromptParticipant

Prompt(c) ==
    /\ c \in Prompters /\ call[c].pc = "idle"
    /\ Only(c, To(c, "recover"))

\* recoverLostActiveRun, to the call of RecoverLostRun.
recoverLostActiveRun(c) ==
    /\ call[c].pc = "recover"
    /\ Only(c, IF quiescing THEN Return(c, "rejected")
               ELSE IF active = 0 THEN To(c, "admit")
               ELSE call' = [call EXCEPT ![c].pc = "recovering", ![c].turn = active,
                                         ![c].woken = FALSE])

\* RecoverLostRun: no execution, or one whose fence is still the durable one, is a
\* conflict; lost ones are cancelled ...
RecoverLostRun(c) ==
    LET executions == {t \in TurnIDs : turn[t].run \notin {"none", "released"}} IN
    /\ call[c].pc = "recovering"
    /\ \/ /\ executions = {} \/ fence \in executions
          /\ Only(c, Conflict(c))
       \/ /\ executions # {} /\ fence \notin executions
          /\ turn' = [t \in TurnIDs |->
                        IF t \in executions THEN [turn[t] EXCEPT !.ctx = TRUE, !.err = TRUE]
                                            ELSE turn[t]]
          /\ call' = [call EXCEPT ![c].pc = "recovered", ![c].waits = executions]
          /\ UNCHANGED <<gateway, fence, parent, transcript>>

\* ... and waited for until their release has completed, and then the change of the
\* active Turn.
RecoverWaits(c) ==
    /\ call[c].pc = "recovered" /\ call[c].woken
    /\ \A t \in call[c].waits : turn[t].run = "released"
    /\ Only(c, call' = [call EXCEPT ![c].pc = "recover", ![c].waits = {}])

\* The error of either: the durable fence cannot be read, the first attempt to
\* release a lost execution failed, or the caller's context ended while it waited.
RecoverFails(c) ==
    /\ "recover" \in Faults /\ call[c].pc \in {"recovering", "recovered"}
    /\ Only(c, call' = [call EXCEPT ![c].pc = "returned", ![c].result = "rejected",
                                    ![c].waits = {}])

\* Mutant of Admit: quiescing is checked by recoverLostActiveRun only.
AdmitQuiescing(c) ==
    /\ call[c].pc = "admit"
    /\ IF blocks > 0 \/ next > MaxTurns
          THEN Only(c, Return(c, "rejected"))
       ELSE IF active # 0
          THEN Only(c, Conflict(c))
       ELSE /\ turn' = [turn EXCEPT ![next] =
                 [NoTurn EXCEPT !.pc = IF c \in Senders THEN "setup" ELSE "starting",
                                !.kind = IF c \in Senders THEN "kernel" ELSE "participant",
                                !.by = c]]
            /\ active' = next /\ next' = next + 1
            /\ call' = Woken([call EXCEPT ![c].pc = IF c \in Senders THEN "setup" ELSE "returned",
                                          ![c].turn = next,
                                          ![c].result = IF c \in Senders THEN @ ELSE "accepted"])
            /\ UNCHANGED <<quiescing, blocks, fence, parent, transcript>>

\* The admission, under Gateway.mu.
Admit(c) ==
    /\ call[c].pc = "admit"
    /\ IF quiescing \/ blocks > 0 \/ next > MaxTurns
          THEN Only(c, Return(c, "rejected"))
       ELSE IF active # 0
          THEN Only(c, Conflict(c))
       ELSE /\ turn' = [turn EXCEPT ![next] =
                 [NoTurn EXCEPT !.pc = IF c \in Senders THEN "setup" ELSE "starting",
                                !.kind = IF c \in Senders THEN "kernel" ELSE "participant",
                                !.by = c]]
            /\ active' = next /\ next' = next + 1
            /\ call' = Woken([call EXCEPT ![c].pc = IF c \in Senders THEN "setup" ELSE "returned",
                                          ![c].turn = next,
                                          ![c].result = IF c \in Senders THEN @ ELSE "accepted"])
            /\ UNCHANGED <<quiescing, blocks, fence, parent, transcript>>

\* Hooks, preparation, resolution and validation succeed: the producer is started.
Setup(c) ==
    /\ call[c].pc = "setup"
    /\ turn[call[c].turn].pc = "setup"
    /\ turn' = [turn EXCEPT ![call[c].turn].pc = "starting"]
    /\ Return(c, "accepted")
    /\ UNCHANGED <<gateway, fence, parent, transcript>>

\* One of them fails: cancelFn, handle.finish, releaseActive, and the error.
SetupFails(c) ==
    /\ call[c].pc = "setup"
    /\ turn[call[c].turn].pc = "setup"
    /\ turn' = [turn EXCEPT ![call[c].turn].pc = "aborting", ![call[c].turn].ctx = TRUE]
    /\ UNCHANGED <<gateway, fence, parent, transcript, call>>

AbortReturns(c) ==
    LET t == call[c].turn IN
    /\ call[c].pc = "setup" /\ turn[t].pc = "aborted"
    /\ turn' = [turn EXCEPT ![t].pc = "finished"]
    /\ active' = IF active = t THEN 0 ELSE active
    /\ call' = Woken([call EXCEPT ![c].pc = "returned", ![c].result = "rejected"])
    /\ UNCHANGED <<quiescing, blocks, next, fence, parent, transcript>>

-----------------------------------------------------------------------------
\* Reconciliation, interrupts and shutdown

BlockSessionTurnAdmission(r) ==
    /\ r \in Reconcilers /\ call[r].pc = "idle"
    /\ IF quiescing
          THEN Return(r, "rejected") /\ UNCHANGED blocks
          ELSE To(r, "target") /\ blocks' = blocks + 1
    /\ UNCHANGED <<turn, active, quiescing, next, fence, parent, transcript>>

\* ActiveTurn, then CancelActiveTurnAndWait of an affected Turn up to its Cancel.
\* No Turn can be admitted between the two.  A Turn of another Agent is left alone.
ActiveTurn(r) ==
    /\ r \in Reconcilers /\ call[r].pc = "target"
    /\ \/ /\ active = 0
          /\ Only(r, To(r, "mutate"))
       \/ /\ active # 0
          /\ Only(r, call' = [call EXCEPT ![r].pc = "cancel", ![r].turn = active])
       \/ /\ active # 0
          /\ Only(r, To(r, "beside"))

\* Mutant of Unblock: blocks are not counted.
UnblockAll(r) ==
    /\ call[r].pc \in {"mutate", "beside"}
    /\ blocks' = 0
    /\ Return(r, "accepted")
    /\ UNCHANGED <<turn, active, quiescing, next, fence, parent, transcript>>

\* The binding changes are done (or were refused): the deferred unblock.
Unblock(r) ==
    /\ call[r].pc \in {"mutate", "beside"}
    /\ blocks' = IF blocks <= 1 THEN 0 ELSE blocks - 1
    /\ Return(r, "accepted")
    /\ UNCHANGED <<turn, active, quiescing, next, fence, parent, transcript>>

Interrupt(i) ==
    /\ i \in Interrupters /\ call[i].pc = "idle"
    /\ Only(i, IF active = 0
                  THEN Return(i, "rejected")
                  ELSE call' = [call EXCEPT ![i].pc = "cancel", ![i].turn = active])

Quiesce(q) ==
    /\ q \in Closers /\ call[q].pc = "idle"
    /\ quiescing' = TRUE
    /\ IF active = 0
          THEN Return(q, "accepted")
          ELSE call' = [call EXCEPT ![q].pc = "cancel", ![q].turn = active, ![q].woken = FALSE]
    /\ UNCHANGED <<turn, active, blocks, next, fence, parent, transcript>>

\* What the caller of Cancel does next: Interrupt reports, Quiesce and
\* CancelActiveTurnAndWait wait for the Turn, whoever cancelled it.
AfterCancel(c, reported) ==
    IF c \in Interrupters THEN Return(c, reported)
    ELSE To(c, IF c \in Closers THEN "asleep" ELSE "await")

\* turnHandle.Cancel: a cancelled Turn is left alone, or else the mark, under the
\* handle's lock ...
Cancel(c) ==
    LET t == call[c].turn IN
    /\ call[c].pc = "cancel"
    /\ \/ turn[t].cancelled /\ AfterCancel(c, "rejected") /\ UNCHANGED turn
       \/ /\ ~turn[t].cancelled
          /\ turn' = [turn EXCEPT ![t].cancelled = TRUE]
          /\ To(c, "cancelFn")
    /\ UNCHANGED <<gateway, fence, parent, transcript>>

\* ... then cancelFn and runner.Cancel.
CancelProducer(c) ==
    /\ call[c].pc = "cancelFn"
    /\ turn' = [turn EXCEPT ![call[c].turn].ctx = TRUE]
    /\ AfterCancel(c, "accepted")
    /\ UNCHANGED <<gateway, fence, parent, transcript>>

\* The Host cancels the runtime context of the Session.
ParentCancelled ==
    /\ "parent" \in Faults /\ ~parent /\ parent' = TRUE
    /\ UNCHANGED <<turn, gateway, fence, transcript, call>>

-----------------------------------------------------------------------------
\* runTurn and runParticipantTurn

\* FencedRuntime.Run acquires the fence and starts the producer ...
Run(t) ==
    /\ turn[t].pc = "starting" /\ fence = 0
    /\ fence' = t
    /\ TurnStep(t, [turn[t] EXCEPT !.pc = "started", !.run = "boot"])
    /\ UNCHANGED transcript

\* ... or cannot acquire it, certainly when it is held; publishError.
RunFails(t) ==
    /\ turn[t].pc = "starting"
    /\ TurnStep(t, [turn[t] EXCEPT !.pc = "ending", !.failed = TRUE])
    /\ UNCHANGED <<fence, transcript>>

\* The inner Run fails after the fence was acquired: there is no runner, and Run returns
\* the error once the first attempt to release the fence has ended (WaitCompletion).
StartFails(t) ==
    /\ "start" \in Faults /\ turn[t].pc = "started" /\ turn[t].run = "boot"
    /\ TurnStep(t, [turn[t] EXCEPT !.pc = "waiting", !.run = "done", !.closed = TRUE, !.err = TRUE])
    /\ UNCHANGED <<fence, transcript>>

\* A Turn cancelled before its runner was known cancels the runner here.
setRunner(t) ==
    /\ turn[t].pc = "started"
    /\ TurnStep(t, [turn[t] EXCEPT !.pc = "waiting", !.runner = TRUE, !.ctx = @ \/ turn[t].cancelled])
    /\ UNCHANGED <<fence, transcript>>

\* The observer of the Turn's events refuses one (publishEnvelopes).
ObserverFails(t) ==
    /\ "observer" \in Faults
    /\ turn[t].pc \in {"starting", "started", "waiting"} /\ ~turn[t].failed
    /\ TurnStep(t, [turn[t] EXCEPT !.failed = TRUE, !.ctx = TRUE])
    /\ UNCHANGED <<fence, transcript>>

\* Mutant of WaitCompletion: the wait ends with the context of the Turn.
WaitCancelled(t) ==
    /\ turn[t].pc = "waiting" /\ (turn[t].run \in {"released", "retrying"} \/ Ctx(t))
    /\ TurnStep(t, [turn[t] EXCEPT !.pc = "ending", !.failed = @ \/ turn[t].err])
    /\ UNCHANGED <<fence, transcript>>

\* WaitCompletion returns only when the producer has stopped and the first
\* attempt to release its fence has ended.
WaitCompletion(t) ==
    /\ turn[t].pc = "waiting" /\ turn[t].run \in {"released", "retrying"}
    /\ TurnStep(t, [turn[t] EXCEPT !.pc = "ending", !.failed = @ \/ turn[t].err])
    /\ UNCHANGED <<fence, transcript>>

\* Mutant of releaseActive: nobody is told.
ReleaseSilently(t) ==
    /\ turn[t].pc = "ending"
    /\ turn' = [turn EXCEPT ![t].pc = "released", ![t].ctx = TRUE]
    /\ active' = IF active = t THEN 0 ELSE active
    /\ UNCHANGED <<quiescing, blocks, next, fence, parent, transcript, call>>

\* The deferred calls: cancel, releaseActive ...
releaseActive(t) ==
    /\ turn[t].pc = "ending"
    /\ turn' = [turn EXCEPT ![t].pc = "released", ![t].ctx = TRUE]
    /\ active' = IF active = t THEN 0 ELSE active
    /\ call' = IF active = t THEN Woken(call) ELSE call
    /\ UNCHANGED <<quiescing, blocks, next, fence, parent, transcript>>

\* ... and finishRuntime.  A failed setup calls finish while still active.
finish(t) ==
    /\ turn[t].pc \in {"released", "aborting"}
    /\ TurnStep(t, IF turn[t].pc = "aborting"
                   THEN [turn[t] EXCEPT !.pc = "abortFinishing"]
                   ELSE [turn[t] EXCEPT !.pc = "finishing", !.cancelled = @ \/ parent])
    /\ UNCHANGED <<fence, transcript>>

\* The terminal a producer reported itself is published unless the handle knows better.
publishFinalTerminal(t) ==
    /\ turn[t].pc \in {"finishing", "abortFinishing"}
    /\ \E reported \in {"completed"} \cup
             {k \in {"cancelled", "failed"} : "reported" \in Faults /\ turn[t].run # "none"} :
          TurnStep(t, [turn[t] EXCEPT
              !.pc = IF @ = "finishing" THEN "finished" ELSE "aborted",
              !.terminal = CASE turn[t].cancelled -> "cancelled"
                             [] turn[t].failed /\ ~turn[t].cancelled -> "failed"
                             [] OTHER -> reported])
    /\ UNCHANGED <<fence, transcript>>

-----------------------------------------------------------------------------
\* The producer: executeKernelTurn and the chat agent

\* The input that began the Turn is appended under the fence.
RunInput(t) ==
    /\ turn[t].run = "boot" /\ ~turn[t].lost
    /\ transcript' = IF turn[t].kind = "kernel" THEN Append(transcript, turn[t].by) ELSE transcript
    /\ TurnStep(t, [turn[t] EXCEPT !.run = "live"])
    /\ UNCHANGED fence

\* Mutant of drainSubmissions: the queue is not emptied.
DrainAndKeep(t) ==
    /\ turn[t].run = "live" /\ turn[t].queue # <<>> /\ ~turn[t].lost
    /\ transcript' = transcript \o turn[t].queue
    /\ UNCHANGED <<turn, gateway, fence, parent, call>>

\* A safe point: all queued input is taken and appended in order.
drainSubmissions(t) ==
    /\ turn[t].run = "live" /\ turn[t].queue # <<>> /\ ~turn[t].lost
    /\ transcript' = transcript \o turn[t].queue
    /\ TurnStep(t, [turn[t] EXCEPT !.queue = <<>>])
    /\ UNCHANGED fence

\* Mutant of drainFinalSubmissions: input is closed later, by finish.
EndWithoutClosing(t) ==
    /\ turn[t].run = "live" /\ turn[t].queue = <<>>
    /\ TurnStep(t, [turn[t] EXCEPT !.run = "quiet"])
    /\ UNCHANGED <<fence, transcript>>

\* The final safe point closes input and ends the run only when nothing is queued.
\* When cancelled while tasks are pending, the wait for them ends without closing.
drainFinalSubmissions(t) ==
    /\ turn[t].run = "live" /\ turn[t].queue = <<>>
    /\ \E closed \in {TRUE} \cup {b \in {FALSE} : Ctx(t)} :
          TurnStep(t, [turn[t] EXCEPT !.run = "quiet", !.closed = closed])
    /\ UNCHANGED <<fence, transcript>>

\* A tool result that completes the Turn ends the run without another safe point.
TurnComplete(t) ==
    /\ turn[t].run = "live" /\ turn[t].kind = "kernel"
    /\ TurnStep(t, [turn[t] EXCEPT !.run = "quiet", !.cut = TRUE])
    /\ UNCHANGED <<fence, transcript>>

\* Any other end: a model or tool error, a refused append, cancellation.
RunError(t) ==
    /\ turn[t].run \in {"boot", "live"}
    /\ TurnStep(t, [turn[t] EXCEPT !.run = "quiet", !.err = TRUE])
    /\ UNCHANGED <<fence, transcript>>

\* The journal records the outcome, refused when the fence was lost before it, and
\* runner.finish closes input.
RunnerFinish(t) ==
    /\ turn[t].run = "quiet"
    /\ \E refused \in BOOLEAN :
          TurnStep(t, [turn[t] EXCEPT !.run = "done", !.closed = TRUE,
                                      !.err = @ \/ (turn[t].lost /\ refused)])
    /\ UNCHANGED <<fence, transcript>>

\* releaseLoop: the exact fence is released, now or at a later attempt.
ReleaseFence(t) ==
    /\ turn[t].run \in {"done", "retrying"}
    /\ fence' = IF fence = t THEN 0 ELSE fence
    /\ TurnStep(t, [turn[t] EXCEPT !.run = "released"])
    /\ UNCHANGED transcript

\* The first attempt fails, or its commit is not known and cannot be read back.
ReleaseFenceFails(t) ==
    /\ "release" \in Faults /\ turn[t].run = "done"
    /\ fence' \in {fence, IF fence = t THEN 0 ELSE fence}
    /\ TurnStep(t, [turn[t] EXCEPT !.run = "retrying", !.err = TRUE])
    /\ UNCHANGED transcript

\* Another Host, which took over the Session, has removed the fence.
LoseFence(t) ==
    /\ "lost" \in Faults /\ fence = t /\ turn[t].run \in {"boot", "live", "quiet"}
    /\ fence' = 0
    /\ TurnStep(t, [turn[t] EXCEPT !.lost = TRUE])
    /\ UNCHANGED transcript

-----------------------------------------------------------------------------

CallStep(c) ==
    \/ SubmitActiveTurn(c) \/ SubmitHandle(c) \/ submitContext(c)
    \/ WaitActiveTurnChange(c) \/ Wake(c)
    \/ recoverLostActiveRun(c) \/ RecoverLostRun(c) \/ RecoverWaits(c)
    \/ Admit(c) \/ Setup(c) \/ SetupFails(c) \/ AbortReturns(c)
    \/ ActiveTurn(c) \/ Unblock(c) \/ Cancel(c) \/ CancelProducer(c)

CallBegins(c) ==
    Select(c) \/ Prompt(c) \/ BlockSessionTurnAdmission(c) \/ Interrupt(c) \/ Quiesce(c)

\* The steps a Turn takes by itself.
TurnProceeds(t) ==
    \/ Run(t) \/ RunFails(t) \/ setRunner(t) \/ WaitCompletion(t) \/ releaseActive(t)
    \/ finish(t) \/ publishFinalTerminal(t)

ProducerStops(t) == RunnerFinish(t) \/ ReleaseFence(t)

ProducerStep(t) ==
    \/ StartFails(t) \/ RunInput(t) \/ drainSubmissions(t) \/ drainFinalSubmissions(t) \/ TurnComplete(t)
    \/ RunError(t) \/ ReleaseFenceFails(t) \/ LoseFence(t) \/ ObserverFails(t)

AllFinished == \A t \in TurnIDs : turn[t].pc \in {"unused", "finished"} /\ turn[t].run # "retrying"

\* A Session without a Turn may stay idle.
Idle == AllFinished /\ UNCHANGED vars

Next ==
    \/ \E c \in Callers : CallBegins(c) \/ CallStep(c) \/ RecoverFails(c)
    \/ \E t \in TurnIDs : TurnProceeds(t) \/ ProducerStops(t) \/ ProducerStep(t)
    \/ ParentCancelled
    \/ Idle

Spec == Init /\ [][Next]_vars

\* Goroutines are scheduled; a selected call continues; nobody relies on the failure of
\* a recovery; a cancelled producer stops
\* (model and tool calls honour their context).  A producer that is not cancelled
\* may run forever.
Fairness ==
    /\ \A c \in Callers :
          /\ WF_vars(CallStep(c))
          /\ WF_vars(call[c].pc = "select" /\ Select(c))
          /\ WF_vars(quiescing /\ Quiesce(c))
    /\ \A t \in TurnIDs :
          /\ WF_vars(TurnProceeds(t))
          /\ WF_vars(ProducerStops(t))
          /\ WF_vars(Ctx(t) /\ RunError(t))

FairSpec == Spec /\ Fairness

-----------------------------------------------------------------------------
\* Properties

Producing(t) == turn[t].run \in {"boot", "live", "quiet"}

\* A producer that can still write belongs to the active Turn: runTurn releases the
\* active Turn only after its runner has finished, cancelled or not.
ProducerIsActive == \A t \in TurnIDs : Producing(t) => active = t

\* The Gateway is well formed, and its active Turn is the only one that produces.
TurnInv == TypeOK /\ ProducerIsActive

\* While a reconciliation changes execution bindings, holding its admission block
\* after CancelActiveTurnAndWait, no Turn is active and no producer is running.
ReconcileIsAlone ==
    \A r \in Reconcilers : call[r].pc = "mutate" =>
        active = 0 /\ \A t \in TurnIDs : ~Producing(t)

\* Once Quiesce has returned, no Turn is active or producing, and none ever will be.
QuiescedIsFinal ==
    (\E q \in Closers : call[q].result = "accepted") =>
        active = 0 /\ \A t \in TurnIDs : ~Producing(t)

\* The routing loop retries an input only after an outcome without effect: an input
\* reaches the model at most once, over all the Turns it was tried on, and never when
\* its routing failed.
InputAtMostOnce ==
    /\ IsInjective(transcript)
    /\ \A s \in Senders : call[s].result = "rejected" => ~Contains(transcript, s)

\* An input that was accepted has reached the model when its Turn is reported as
\* completed, unless a tool completed the Turn: drainFinalSubmissions closes input
\* only when nothing is queued.
AcceptedInputRuns ==
    \A s \in Senders :
        LET t == call[s].turn IN
        call[s].result = "accepted" /\ turn[t].terminal = "completed" /\ ~turn[t].cut
            => Contains(transcript, s)

\* CancelActiveTurnAndWait, as documented, returns when the producer has released its
\* durable execution fence.
CancelWaitsForFence ==
    \A r \in Reconcilers :
        call[r].pc = "mutate" /\ call[r].turn # 0 => fence # call[r].turn

\* Every call that waits for a Turn - to submit, to recover, to reconcile, to shut
\* down - returns: no change of the active Turn is missed.
CallReturns ==
    \A c \in Callers : call[c].pc \notin {"absent", "idle", "returned"} ~> call[c].pc = "returned"

=============================================================================

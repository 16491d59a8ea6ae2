--------------------------- MODULE FencedRuntime ---------------------------
(***************************************************************************)
(* The placement guard around one execution runtime                        *)
(* (internal/controlplane/fence_runtime.go, fence_recovery.go,             *)
(* fence_idle_compaction.go), composed with the Session store.             *)
(*                                                                         *)
(* An execution is a producer of SessionFence: it acquires the fence, runs,*)
(* stops, and its guard releases.  Four activities of a Host interleave:   *)
(* the producer, the finisher that waits for it, the release loop, and     *)
(* RecoverLostRun called by the next Turn.                                 *)
(***************************************************************************)
EXTENDS SessionFence

CONSTANT Recovering     \* the Hosts on which RecoverLostRun is called (a bound)

ASSUME RecoveringAssumption == Recovering \subseteq Hosts

VARIABLES
    exec,           \* producer -> its execution, see NoExec
    executions,     \* FencedRuntime.executions, as a set of producers
    rec,            \* the RecoverLostRun call in progress
    closing         \* Hosts whose lifecycle context is cancelled

rtVars == <<exec, executions, rec, closing>>
allVars == <<vars, rtVars>>

\* kind     run (runWithFence) or placed (executeWithSessionFence)
\* prod     the producer; outcome is meaningful once it has stopped
\* fin      the finisher: fencedRunner.finish, or the error path of runWithFence
\* rel      the release loop of the guard; first: its first attempt has ended
\* handoff  guard.idleHandoff is set; completions: calls of handoff.Complete
\* given    the call of handoff.Complete carried the window
\* loss     guard.lossErr is set; cancelled: the runner was told to cancel
NoExec == [kind |-> "none", prod |-> "none", outcome |-> "ok", fin |-> "none",
           rel |-> "idle", first |-> FALSE, prepared |-> FALSE, handoff |-> FALSE,
           completions |-> 0, given |-> FALSE, completed |-> FALSE, loss |-> FALSE, cancelled |-> FALSE]

Exec == [kind : {"none", "run", "placed"},
         prod : {"none", "starting", "running", "stopped"},
         outcome : {"ok", "error", "conflict"},
         fin : {"none", "firstRelease", "waiting", "prepare", "onFinish", "check", "finish", "done"},
         rel : {"idle", "loop", "retry", "released", "done", "abandoned"},
         first : BOOLEAN, prepared : BOOLEAN, handoff : BOOLEAN, completions : 0 .. 2,
         given : BOOLEAN, completed : BOOLEAN, loss : BOOLEAN, cancelled : BOOLEAN]

NoRec == [pc |-> "idle", host |-> None, all |-> {}, todo |-> {}]

Up(p) == claim[p].owner \in alive

\* A step of an activity of p that is not a store transaction.
Local(p, fields) ==
    /\ Up(p)
    /\ exec' = [exec EXCEPT ![p] = fields]
    /\ UNCHANGED vars

RTInit ==
    /\ Init
    /\ exec = [p \in Producers |-> NoExec]
    /\ executions = {}
    /\ rec = NoRec
    /\ closing = {}

-----------------------------------------------------------------------------
(* Starting an execution *)

\* runWithFence up to the call of execute: acquire, guard, register.
runWithFence(p, h) ==
    /\ AcquireSessionFence(p, h)
    /\ exec' = [exec EXCEPT ![p] = [NoExec EXCEPT !.kind = "run", !.prod = "starting"]]
    /\ executions' = executions \cup {p}
    /\ UNCHANGED <<rec, closing>>

\* A synchronous operation; the startup recovery of a Host takes over the fence
\* a dead Host left behind.
executeWithSessionFence(p, h) ==
    /\ AcquireSessionFence(p, h) \/ ReplacePriorHostSessionFence(p, h)
    /\ exec' = [exec EXCEPT ![p] = [NoExec EXCEPT !.kind = "placed", !.prod = "running"]]
    /\ UNCHANGED <<executions, rec, closing>>

\* execute returned an error or no handle: release first, complete afterwards.
StartFails(p) ==
    /\ exec[p].prod = "starting"
    /\ BeginRelease(p)
    /\ exec' = [exec EXCEPT ![p].prod = "stopped", ![p].outcome = "error",
                            ![p].fin = "firstRelease", ![p].rel = "loop"]
    /\ UNCHANGED <<executions, rec, closing>>

\* Mutant: only a loss recorded from now on is reported.
SetOnLossLate(e) == FALSE

\* newFencedRunner re-arms the loss callback: a loss recorded before the runner
\* existed cancels it now.
setOnLoss(e) == e.loss

StartLive(p) ==
    /\ exec[p].prod = "starting"
    /\ Local(p, [exec[p] EXCEPT !.prod = "running", !.fin = "waiting",
                                !.cancelled = setOnLoss(exec[p])])
    /\ UNCHANGED <<executions, rec, closing>>

-----------------------------------------------------------------------------
(* The producer *)

Write(p) ==
    /\ exec[p].prod = "running" /\ Up(p)
    /\ AppendEvents(RuntimeGuard(claim[p], TRUE), "visible")
    /\ UNCHANGED rtVars

\* The producer ends, by itself or cancelled; a rejected write ends it with a
\* fence conflict.  A placed operation goes straight to its release.
StopProducer(p, outcome) ==
    /\ exec[p].prod = "running"
    /\ outcome = "conflict" => fence # claim[p]
    /\ \/ /\ exec[p].kind = "run"
          /\ Local(p, [exec[p] EXCEPT !.prod = "stopped", !.outcome = outcome])
       \/ /\ exec[p].kind = "placed"
          /\ BeginRelease(p)
          /\ exec' = [exec EXCEPT ![p].prod = "stopped", ![p].outcome = outcome,
                                  ![p].rel = "loop"]
    /\ UNCHANGED <<executions, rec, closing>>

\* (*fencedRunner).WaitCompletion by a caller that sees the conflict.
WaitCompletion(p) ==
    /\ exec[p].kind = "run" /\ exec[p].fin # "firstRelease"
    /\ exec[p].prod = "stopped" /\ exec[p].outcome = "conflict" /\ ~exec[p].loss
    /\ Local(p, [exec[p] EXCEPT !.loss = TRUE, !.cancelled = TRUE])
    /\ UNCHANGED <<executions, rec, closing>>

-----------------------------------------------------------------------------
(* The finisher *)

\* What finishAfterProducer waits for, before it enters finish.
waitForProducer(p) == exec[p].prod = "stopped"

finishAfterProducer(p) ==
    /\ exec[p].fin = "waiting" /\ waitForProducer(p)
    /\ BeginRelease(p)
    /\ exec' = [exec EXCEPT ![p].fin = "prepare"]
    /\ UNCHANGED <<executions, rec, closing>>

\* beforeFinish: a completed Turn may prepare an idle handoff.
PrepareHandoff(p) ==
    /\ exec[p].fin = "prepare" /\ exec[p].outcome = "ok"
    /\ \E n \in DOMAIN log : PrepareIdle(p, n)
    /\ exec' = [exec EXCEPT ![p].fin = "onFinish", ![p].prepared = TRUE, ![p].handoff = TRUE]
    /\ UNCHANGED <<executions, rec, closing>>

SkipHandoff(p) ==
    /\ exec[p].fin = "prepare"
    /\ Local(p, [exec[p] EXCEPT !.fin = "onFinish"])
    /\ UNCHANGED <<executions, rec, closing>>

FirstReleaseDone(p) ==
    /\ exec[p].fin = "firstRelease" /\ exec[p].first
    /\ Local(p, [exec[p] EXCEPT !.fin = "onFinish"])
    /\ UNCHANGED <<executions, rec, closing>>

\* completeFencedExecution marks the execution, and then looks at the guard.
complete(p) ==
    /\ exec[p].fin = "onFinish"
    /\ Local(p, [exec[p] EXCEPT !.completed = TRUE, !.fin = "check"])
    /\ UNCHANGED <<executions, rec, closing>>

released(p) == exec[p].rel \in {"released", "done"}

\* Mutant: the release is left to find the completed execution.
CompleteOnly(p) ==
    /\ exec[p].fin = "check"
    /\ Local(p, [exec[p] EXCEPT !.fin = "finish"])
    /\ UNCHANGED <<executions, rec, closing>>

completeFencedExecution(p) ==
    /\ exec[p].fin = "check"
    /\ Local(p, [exec[p] EXCEPT !.fin = "finish"])
    /\ executions' = IF released(p) THEN executions \ {p} ELSE executions
    /\ UNCHANGED <<rec, closing>>

\* guard.finish starts the release loop, once.
StartLoop(e) == [e EXCEPT !.rel = IF @ = "idle" THEN "loop" ELSE @]

finish(p) ==
    /\ exec[p].fin = "finish"
    /\ Local(p, [StartLoop(exec[p]) EXCEPT !.fin = "done"])
    /\ UNCHANGED <<executions, rec, closing>>

-----------------------------------------------------------------------------
(* The release loop *)

Attempted(p, ok) ==
    [exec[p] EXCEPT !.first = TRUE, !.rel = IF ok THEN "released" ELSE "retry"]

completeIdleHandoff(e, opened) ==
    [e EXCEPT !.handoff = FALSE, !.completions = @ + 1, !.given = opened]

InLoop(p) == exec[p].rel = "loop" /\ Up(p)

\* An attempt the store did not commit, with the fence still there.
ReleaseFails(p) ==
    /\ InLoop(p)
    /\ exec' = [exec EXCEPT ![p] = Attempted(p, FALSE)]
    /\ UNCHANGED <<vars, executions, rec, closing>>

releaseSessionFence(p, answered) ==
    /\ InLoop(p)
    /\ ~exec[p].handoff
    /\ ReleaseSessionFence(p, answered)
    /\ exec' = [exec EXCEPT ![p] = Attempted(p, answered)]
    /\ UNCHANGED <<executions, rec, closing>>

\* Mutant: the job is told of its window before the answer is known.
ReleaseForIdleEager(p, answered) ==
    /\ InLoop(p)
    /\ exec[p].handoff
    /\ ReleaseSessionFenceForIdleCompaction(p, answered)
    /\ exec' = [exec EXCEPT ![p] = [Attempted(p, answered) EXCEPT
                    !.completions = @ + 1, !.given = TRUE, !.handoff = ~answered]]
    /\ UNCHANGED <<executions, rec, closing>>

\* The handoff transaction, or its replay.
releaseForIdle(p, answered) ==
    /\ InLoop(p)
    /\ exec[p].handoff
    /\ ReleaseSessionFenceForIdleCompaction(p, answered)
    /\ exec' = [exec EXCEPT ![p] = IF answered THEN completeIdleHandoff(Attempted(p, TRUE), TRUE)
                                               ELSE Attempted(p, FALSE)]
    /\ UNCHANGED <<executions, rec, closing>>

\* Mutant: a fence that is gone ends the handoff, without reading the window back.
ReleaseWithoutReadback(p, answered) ==
    /\ InLoop(p)
    /\ exec[p].handoff
    /\ ~ReleaseFirst(p)
    /\ ReleaseSessionFence(p, answered)
    /\ exec' = [exec EXCEPT ![p] = IF answered THEN completeIdleHandoff(Attempted(p, TRUE), FALSE)
                                               ELSE Attempted(p, FALSE)]
    /\ UNCHANGED <<executions, rec, closing>>

\* ErrIdleCompactionRevoked: no window, an ordinary release instead.
releaseAfterRevoked(p, answered) ==
    /\ InLoop(p)
    /\ exec[p].handoff
    /\ ~ReleaseReplay(p) /\ ~ReleaseFirst(p)
    /\ ReleaseSessionFence(p, answered)
    /\ exec' = [exec EXCEPT ![p] = IF answered THEN completeIdleHandoff(Attempted(p, TRUE), FALSE)
                                               ELSE Attempted(p, FALSE)]
    /\ UNCHANGED <<executions, rec, closing>>

\* Mutant: one attempt has to do.
RetryOnce(p) ==
    /\ exec[p].rel = "retry"
    /\ Local(p, [exec[p] EXCEPT !.rel = "abandoned"])
    /\ UNCHANGED <<executions, rec, closing>>

\* The retry timer, or the end of the Host's lifecycle.
Retry(p) ==
    /\ exec[p].rel = "retry"
    /\ \/ Local(p, [exec[p] EXCEPT !.rel = "loop"])
       \/ claim[p].owner \in closing /\ Local(p, [exec[p] EXCEPT !.rel = "abandoned"])
    /\ UNCHANGED <<executions, rec, closing>>

\* onReleased, called after the guard has published its release.
releaseFencedExecution(p) ==
    /\ exec[p].rel = "released"
    /\ Local(p, [exec[p] EXCEPT !.rel = "done"])
    /\ executions' = IF exec[p].completed THEN executions \ {p} ELSE executions
    /\ UNCHANGED <<rec, closing>>

-----------------------------------------------------------------------------
(* RecoverLostRun *)

RecoverLostRun(h) ==
    /\ rec.pc = "idle" /\ h \in alive \cap Recovering
    /\ LET S == {p \in executions : claim[p].owner = h}
       IN  S # {} /\ rec' = [pc |-> "inspect", host |-> h, all |-> S, todo |-> S]
    /\ UNCHANGED <<vars, exec, executions, closing>>

\* The call moves on to pc with the whole set once todo is exhausted.
Advance(p, pc) ==
    LET rest == rec.todo \ {p}
    IN  IF rest # {} THEN [rec EXCEPT !.todo = rest]
        ELSE [rec EXCEPT !.pc = pc, !.todo = rec.all]

lost(p) == exec[p].loss \/ fence # claim[p]

recoveryLoss(p) ==
    /\ rec.pc = "inspect" /\ p \in rec.todo
    /\ rec' = IF lost(p) THEN Advance(p, "record") ELSE NoRec
    /\ UNCHANGED <<vars, exec, executions, closing>>

recordLoss(p) ==
    /\ rec.pc = "record" /\ p \in rec.todo
    /\ rec' = Advance(p, "wait")
    /\ exec' = [exec EXCEPT ![p].loss = TRUE,
                            ![p].cancelled = @ \/ exec[p].prod = "running"]
    /\ UNCHANGED <<vars, executions, closing>>

\* The waiter itself may be the one that starts the release loop.
HelpFinish(p) ==
    /\ rec.pc = "wait" /\ p \in rec.todo
    /\ exec[p].completed /\ exec[p].rel = "idle"
    /\ exec' = [exec EXCEPT ![p] = StartLoop(@)]
    /\ UNCHANGED <<vars, executions, rec, closing>>

\* Quiescence: the execution has completed and the first release attempt ended.
quiesced(p) == exec[p].completed /\ exec[p].first

\* Mutant: a producer that was told to cancel counts as stopped.
WaitCancelled(p) ==
    /\ rec.pc = "wait" /\ p \in rec.todo
    /\ rec' = Advance(p, "recovered")
    /\ UNCHANGED <<vars, exec, executions, closing>>

waitForQuiescence(p) ==
    /\ rec.pc = "wait" /\ p \in rec.todo
    /\ quiesced(p)
    /\ rec' = IF released(p) THEN Advance(p, "recovered") ELSE NoRec
    /\ UNCHANGED <<vars, exec, executions, closing>>

\* The call returns: recovered, or because the caller's context has ended or
\* the fence cannot be read.
RecoverReturns ==
    /\ rec.pc # "idle"
    /\ rec' = NoRec
    /\ UNCHANGED <<vars, exec, executions, closing>>

-----------------------------------------------------------------------------
(* Hosts *)

HostStarts(h) == StartHost(h) /\ UNCHANGED rtVars

HostCloses(h) ==
    /\ h \in alive \ closing
    /\ closing' = closing \cup {h}
    /\ UNCHANGED <<vars, exec, executions, rec>>

HostLosesAuthority(h) == h \in closing /\ CloseAuthority(h) /\ UNCHANGED rtVars

\* A crash takes the memory of the process with it.
HostCrashes(h) ==
    /\ Crash(h)
    /\ exec' = [p \in Producers |-> IF claim[p].owner = h THEN NoExec ELSE exec[p]]
    /\ executions' = {p \in executions : claim[p].owner # h}
    /\ rec' = IF rec.host = h THEN NoRec ELSE rec
    /\ closing' = closing \ {h}

-----------------------------------------------------------------------------
ProducerStep(p) ==
    \/ StartFails(p) \/ StartLive(p)
    \/ \E o \in {"ok", "error", "conflict"} : StopProducer(p, o)

FinisherStep(p) ==
    \/ finishAfterProducer(p) \/ PrepareHandoff(p) \/ SkipHandoff(p) \/ FirstReleaseDone(p)
    \/ complete(p) \/ completeFencedExecution(p) \/ finish(p)

Answered(p) ==
    releaseSessionFence(p, TRUE) \/ releaseForIdle(p, TRUE) \/ releaseAfterRevoked(p, TRUE)

Unanswered(p) ==
    releaseSessionFence(p, FALSE) \/ releaseForIdle(p, FALSE) \/ releaseAfterRevoked(p, FALSE)

LoopStep(p) == Answered(p) \/ Unanswered(p) \/ ReleaseFails(p) \/ Retry(p) \/ releaseFencedExecution(p)

RecoveryStep(p) ==
    recoveryLoss(p) \/ recordLoss(p) \/ HelpFinish(p) \/ waitForQuiescence(p)

RTNext ==
    \/ \E p \in Producers, h \in Hosts : runWithFence(p, h) \/ executeWithSessionFence(p, h)
    \/ \E p \in Producers :
        \/ ProducerStep(p) \/ Write(p) \/ WaitCompletion(p)
        \/ FinisherStep(p) \/ LoopStep(p) \/ RecoveryStep(p)
    \/ RecoverReturns
    \/ \E h \in Hosts :
        \/ RecoverLostRun(h)
        \/ HostStarts(h) \/ HostCloses(h) \/ HostLosesAuthority(h) \/ HostCrashes(h)

RTSpec == RTInit /\ [][RTNext]_allVars

\* Goroutines that can run do run; a producer ends; and a store that is asked
\* again and again answers some time.
RTFairness ==
    \A p \in Producers :
        /\ WF_allVars(ProducerStep(p))
        /\ WF_allVars(FinisherStep(p))
        /\ WF_allVars(Retry(p) \/ releaseFencedExecution(p))
        /\ SF_allVars(Answered(p))

RTFairSpec == RTSpec /\ RTFairness

-----------------------------------------------------------------------------
(* Properties *)

\* Executions, registry and recovery call are well formed: the registry holds
\* executions under their own fence only (registerFencedExecution).
RTTypeOK ==
    /\ exec \in [Producers -> Exec]
    /\ executions \subseteq Producers
    /\ rec \in [pc : {"idle", "inspect", "record", "wait", "recovered"}, host : Hosts \cup {None},
                all : SUBSET Producers, todo : SUBSET Producers]
    /\ closing \subseteq Hosts

\* The fence of a live producer is never given back: it is there, or somebody
\* else has been issued a later one.
ProducerHasFence ==
    \A p \in Producers : exec[p].prod \in {"starting", "running"} /\ Up(p) =>
        fence = claim[p] \/ fenceEpoch > claim[p].token

\* A guard is marked lost only when its fence is gone for good.
LossIsReal == \A p \in Producers : exec[p].loss => fence # claim[p]

\* No lost wakeup between recordLoss and the runner that appears later: a
\* running producer whose guard is marked has been told to cancel.
LossReachesRunner ==
    \A p \in Producers :
        exec[p].kind = "run" /\ exec[p].prod = "running" /\ exec[p].loss => exec[p].cancelled

\* What holds of a guard and its runner between any two steps of the producer, the
\* release loop and recovery.
RuntimeInv == RTTypeOK /\ ProducerHasFence /\ LossIsReal /\ LossReachesRunner

\* The registry forgets an execution when it has completed and its fence is
\* released, whichever comes last, and not before: a live producer is always
\* found by RecoverLostRun, a finished one never blocks it.
ExecutionTracked ==
    \A p \in Producers : exec[p].kind = "run" /\ Up(p) =>
        /\ p \notin executions => exec[p].completed /\ released(p)
        /\ exec[p].rel = "done" /\ exec[p].fin \in {"finish", "done"} => p \notin executions

\* The idle job learns its outcome once: never twice, and not later than the
\* release that ends the guard.
HandoffCompletedOnce ==
    \A p \in Producers :
        /\ exec[p].completions <= 1
        /\ exec[p].prepared /\ released(p) => exec[p].completions = 1

\* RecoverLostRun reports success only when every execution it found has
\* stopped and no longer holds the Session.
RecoveredMeansQuiet ==
    rec.pc = "recovered" =>
        \A p \in rec.all : exec[p].prod = "stopped" /\ exec[p].completed /\ fence # claim[p]

\* No window is orphaned by a lost answer of the handoff transaction: once a guard
\* has ended, a window of its job that can still be used was given to that job.
WindowReachesJob ==
    \A p \in Producers :
        released(p) /\ window.job = p /\ WindowCurrent(window, idleEpoch) => exec[p].given

\* Every guard whose producer has stopped ends: the fence is given back, a
\* prepared idle job has its outcome, and the Session admits the next Turn,
\* unless the Host dies or shuts down first.
GuardEventuallyEnds ==
    \A p \in Producers :
        exec[p].prod = "stopped" ~>
            ((released(p) /\ fence # claim[p] /\ ~exec[p].handoff /\ p \notin executions)
                \/ claim[p].owner \notin alive \/ claim[p].owner \in closing)

=============================================================================

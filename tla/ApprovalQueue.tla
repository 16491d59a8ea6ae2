--------------------------- MODULE ApprovalQueue ---------------------------
(***************************************************************************)
(* The Session-scoped approval coordinator of the kernel                   *)
(* (internal/kernel/approval_queue.go) with the callers that wait on it    *)
(* (resolveApprovalRequest in gateway_approval.go), the Turns that own them*)
(* (handle.go), the clients that answer, and the admission barrier of a    *)
(* model step (agent-sdk/tool/tool.go).                                    *)
(*                                                                         *)
(* Every operation of the coordinator runs under its mutex and is one      *)
(* action here; callers, clients, Turns and watchers interleave.           *)
(***************************************************************************)
EXTENDS Naturals, Sequences, FiniteSets

CONSTANTS
    Requests,   \* approval request ids (pause tokens)
    Calls,      \* tool calls of the model
    Steps,      \* concurrent model steps
    Owners,     \* Turns
    None,
    Call,       \* [Requests -> Calls]
    Step,       \* [Calls -> Steps \cup {None}]
    Owner,      \* [Requests -> Owners]
    Detached,   \* requests of subagents, which outlive the Turn
    Modes,      \* [Requests -> approval modes it may be asked in], a bound
    Ends,       \* [Owners -> the ways its Turn may end], a bound
    MaxSteer    \* bound on steering submissions

ASSUME RequestAssumption ==
    /\ Call \in [Requests -> Calls] /\ Step \in [Calls -> Steps \cup {None}]
    /\ Owner \in [Requests -> Owners] /\ Detached \subseteq Requests
    /\ Modes \in [Requests -> SUBSET {"manual", "auto"}]
    /\ Ends \in [Owners -> SUBSET {"cancelled", "closed", "finished"}]
    /\ None \notin Steps \cup Owners /\ MaxSteer \in Nat

VARIABLES
    queue,      \* approvalCoordinator.queue; its members are the pending requests
    active,     \* approvalCoordinator.active
    group,      \* activeParallelGroup
    groupOwner, \* activeParallelOwner
    settled,    \* keys of approvalCoordinator.settled
    mode,       \* request -> "manual" (publishOnActivate) or "auto"
    activated,  \* requests whose activated channel is closed
    resolvedLog,\* requests with a "resolved" settlement in the durable Session
    sends,      \* request -> how many decisions were sent to its channel
    closes,     \* request -> how often its done channel was closed
    caller,     \* request -> where its resolveApprovalRequest call stands
    admitted,   \* calls that have passed MarkAdmissionComplete
    watch,      \* steps with a watchParallelAdmissionLocked goroutine
    ended,      \* owner -> the flags of its turnHandle: cancelled, closed, finished
    abandons,   \* owner -> those of them whose call of abandonOwner is still to come
    steers,     \* steering submissions so far
    since       \* request -> steers when it was enqueued

coordVars == <<queue, active, group, groupOwner, settled, activated, resolvedLog, sends, closes,
               watch>>
callerVars == <<mode, caller, since>>
turnVars == <<ended, abandons>>
vars == <<coordVars, callerVars, admitted, turnVars, steers>>

Elements(s) == {s[i] : i \in DOMAIN s}
Pending == Elements(queue)
Without(s, R) == LET keep(r) == r \notin R IN SelectSeq(s, keep)

Init ==
    /\ queue = <<>> /\ active = {} /\ group = None /\ groupOwner = None
    /\ settled = {} /\ activated = {} /\ resolvedLog = {}
    /\ sends = [r \in Requests |-> 0]
    /\ closes = [r \in Requests |-> 0]
    /\ mode = [r \in Requests |-> "auto"]
    /\ caller = [r \in Requests |-> "new"]
    /\ admitted = {} /\ watch = {}
    /\ ended = [o \in Owners |-> {}]
    /\ abandons = [o \in Owners |-> {}]
    /\ steers = 0
    /\ since = [r \in Requests |-> 0]

-----------------------------------------------------------------------------
(* activateNextLocked *)

\* Mutant: manual requests of one step share the head too.
GroupByStep(r) == Step[Call[r]]

\* autoApprovalParallelGroup: the model step of an automatic review.
parallelGroup(r) == IF mode[r] = "auto" THEN Step[Call[r]] ELSE None

Cohort(Q, g) == IF g = None THEN {} ELSE {r \in Elements(Q) : parallelGroup(r) = g}

\* channelClosed(activeParallelDone): every call of the step has been admitted.
AdmissionDone(g, A) == \A c \in Calls : Step[c] = g => c \in A

\* The outcome of the loop from queue Q, active set A, cohort g with owner o and
\* admitted calls adm.  An open cohort takes all its members and keeps the head
\* until it is empty and complete.  Otherwise an idle queue activates its first
\* request, after dropping the manual ones that cannot be persisted.
Activation(Q, A, g, o, adm, unpersistable) ==
    LET members == A \cup Cohort(Q, g)
        fails(r) == mode[r] = "manual" /\ r \in unpersistable
        k == CHOOSE i \in 0 .. Len(Q) : /\ \A j \in 1 .. i : fails(Q[j])
                                        /\ i = Len(Q) \/ ~fails(Q[i + 1])
        rest == SubSeq(Q, k + 1, Len(Q))
        g2 == parallelGroup(Head(rest))
        dropped == {Q[j] : j \in 1 .. k}
    IN  IF g # None /\ (members # {} \/ ~AdmissionDone(g, adm))
        THEN [queue |-> Q, active |-> members, group |-> g, owner |-> o, dropped |-> {}]
        ELSE IF A # {}
        THEN [queue |-> Q, active |-> A, group |-> None, owner |-> None, dropped |-> {}]
        ELSE IF rest = <<>>
        THEN [queue |-> <<>>, active |-> {}, group |-> None, owner |-> None, dropped |-> dropped]
        ELSE [queue |-> rest, active |-> {Head(rest)} \cup Cohort(rest, g2), group |-> g2,
              owner |-> IF g2 = None THEN None ELSE Owner[Head(rest)], dropped |-> dropped]

\* The coordinator after a handler that removed R from the queue, closed the
\* done channels of C and left cohort g with owner o and watchers W:
\* activateNextLocked runs last.
activateNextLocked(Q, R, C, g, o, adm, W) ==
    \E unpersistable \in SUBSET {r \in Elements(Q) \ active : mode[r] = "manual"} :
        LET a == Activation(Without(Q, R), active \ R, g, o, adm, unpersistable)
            new == a.active \ active
        IN  /\ queue' = a.queue
            /\ active' = a.active
            /\ group' = a.group
            /\ groupOwner' = a.owner
            /\ settled' = settled \cup R \cup a.dropped
            /\ activated' = activated \cup new
            /\ closes' = [r \in Requests |-> closes[r] + IF r \in C \cup a.dropped THEN 1 ELSE 0]
            /\ watch' = IF a.group \notin {None, g} THEN W \cup {a.group} ELSE W

\* pendingApproval.persisted: a manual request is activated by publishing it.
persisted(r) == mode[r] = "manual" /\ r \in activated

\* settleLocked(pending, "resolved"): a published request gets a durable
\* settlement first.  Settlements with other states are best effort, their
\* errors ignored, and leave no trace here.
settleLocked(r) == resolvedLog' = IF persisted(r) THEN resolvedLog \cup {r} ELSE resolvedLog

-----------------------------------------------------------------------------
(* resolveApprovalRequest *)

isTerminal(o) == ended[o] # {}

\* The call reads the mode and whether its Turn is over, before it locks.
Ask(r, m) ==
    /\ caller[r] = "new"
    /\ r \in Detached \/ ~isTerminal(Owner[r])
    /\ caller' = [caller EXCEPT ![r] = "entering"]
    /\ mode' = [mode EXCEPT ![r] = m]
    /\ UNCHANGED <<coordVars, since, admitted, turnVars, steers>>

Refuse(r) ==
    /\ caller[r] = "new"
    /\ r \notin Detached /\ isTerminal(Owner[r])
    /\ caller' = [caller EXCEPT ![r] = "gone"]
    /\ UNCHANGED <<coordVars, mode, since, admitted, turnVars, steers>>

enqueue(r) ==
    LET adm == admitted \cup {c \in {Call[r]} : Step[c] # None}
    IN  /\ caller[r] = "entering"
        /\ r \notin Pending \cup settled
        /\ admitted' = adm
        /\ since' = [since EXCEPT ![r] = steers]
        /\ activateNextLocked(Append(queue, r), {}, {}, group, groupOwner, adm, watch)
        /\ caller' = [caller EXCEPT ![r] = IF r \in settled' THEN "gone" ELSE "waiting"]
        /\ UNCHANGED <<resolvedLog, sends, mode, turnVars, steers>>

\* An automatic review starts once its request is active.
StartReview(r) ==
    /\ caller[r] = "waiting" /\ mode[r] = "auto"
    /\ r \in activated
    /\ caller' = [caller EXCEPT ![r] = "reviewing"]
    /\ UNCHANGED <<coordVars, mode, since, admitted, turnVars, steers>>

\* Mutant: the decision is handed over and the settlement written afterwards,
\* if the Session still takes it.
ResolveUnsettled(r) ==
    /\ r \in Pending /\ r \in active
    /\ sends' = [sends EXCEPT ![r] = @ + 1]
    /\ activateNextLocked(queue, {r}, {}, group, groupOwner, admitted, watch)
    /\ UNCHANGED resolvedLog

\* resolveLocked, when the settlement succeeds.
resolveLocked(r) ==
    /\ r \in Pending /\ r \in active
    /\ settleLocked(r)
    /\ sends' = [sends EXCEPT ![r] = @ + 1]
    /\ activateNextLocked(queue, {r}, {}, group, groupOwner, admitted, watch)

\* The reviewer decides and resolves its own request.
resolve(r) ==
    /\ caller[r] = "reviewing"
    /\ resolveLocked(r)
    /\ caller' = [caller EXCEPT ![r] = "resolved"]
    /\ UNCHANGED <<mode, since, admitted, turnVars, steers>>

\* waitForApprovalDecision receives what was decided.
Receive(r) ==
    /\ caller[r] = "resolved" \/ (caller[r] = "waiting" /\ mode[r] = "manual")
    /\ sends[r] > 0
    /\ caller' = [caller EXCEPT ![r] = "leaving"]
    /\ UNCHANGED <<coordVars, mode, since, admitted, turnVars, steers>>

Leaves(r) ==
    /\ caller' = [caller EXCEPT ![r] = "leaving"]
    /\ UNCHANGED <<coordVars, mode, since, admitted, turnVars, steers>>

\* OnAdmission fails, or the call stops waiting for its turn: done is closed, or a
\* context is over.
LeaveQueue(r) == caller[r] = "waiting" /\ Leaves(r)

\* The review fails, or its request is no longer there to be resolved.
ReviewFails(r) == caller[r] = "reviewing" /\ Leaves(r)

\* The call stops waiting for its decision.
WaitEnds(r) ==
    /\ caller[r] = "resolved" \/ (caller[r] = "waiting" /\ mode[r] = "manual")
    /\ Leaves(r)

\* Mutant: the deferred release does not look whether the request is still there.
ReleaseTwice(r) ==
    /\ caller[r] = "leaving"
    /\ caller' = [caller EXCEPT ![r] = "gone"]
    /\ activateNextLocked(queue, {r}, {r}, group, groupOwner, admitted, watch)
    /\ UNCHANGED <<resolvedLog, sends, mode, since, admitted, turnVars, steers>>

\* The deferred release of every call.
release(r) ==
    /\ caller[r] = "leaving"
    /\ caller' = [caller EXCEPT ![r] = "gone"]
    /\ IF r \in Pending
       THEN /\ activateNextLocked(queue, {r}, {r}, group, groupOwner, admitted, watch)
            /\ UNCHANGED <<resolvedLog, sends>>
       ELSE UNCHANGED coordVars
    /\ UNCHANGED <<mode, since, admitted, turnVars, steers>>

-----------------------------------------------------------------------------
(* Clients, Turns and watchers *)

submit(r) ==
    /\ mode[r] = "manual"
    /\ resolveLocked(r)
    /\ UNCHANGED <<callerVars, admitted, turnVars, steers>>

\* The settlement of an answer fails, though the Session may have it: the
\* request stays where it is.
SubmitFails(r) ==
    /\ r \in active /\ mode[r] = "manual"
    /\ settleLocked(r)
    /\ UNCHANGED <<queue, active, group, groupOwner, settled, activated, sends, closes, watch,
                   callerVars, admitted, turnVars, steers>>

abandonOwner(o) ==
    LET R == {r \in Pending : Owner[r] = o /\ r \notin Detached}
    IN  /\ IF groupOwner = o
           THEN activateNextLocked(queue, R, R, None, None, admitted, watch)
           ELSE activateNextLocked(queue, R, R, group, groupOwner, admitted, watch)
        /\ UNCHANGED <<resolvedLog, sends>>

\* The handle becomes terminal, and gives up its requests afterwards.
End(o, how) ==
    /\ how \in Ends[o] \ ended[o]
    /\ ended' = [ended EXCEPT ![o] = @ \cup {how}]
    /\ abandons' = [abandons EXCEPT ![o] = @ \cup {how}]
    /\ UNCHANGED <<coordVars, callerVars, admitted, steers>>

Abandon(o, how) ==
    /\ how \in abandons[o]
    /\ abandons' = [abandons EXCEPT ![o] = @ \ {how}]
    /\ abandonOwner(o)
    /\ UNCHANGED <<callerVars, ended, admitted, steers>>

Cancel(o) == End(o, "cancelled") \/ Abandon(o, "cancelled")

Close(o) == End(o, "closed") \/ Abandon(o, "closed")

finish(o) == End(o, "finished") \/ Abandon(o, "finished")

\* Mutant: requests of subagents are not the Turn's to invalidate.
InvalidateOwn ==
    LET R == {r \in Pending : mode[r] = "auto" /\ r \notin Detached}
    IN  /\ steers < MaxSteer
        /\ steers' = steers + 1
        /\ activateNextLocked(queue, R, R, group, groupOwner, admitted, watch)
        /\ UNCHANGED <<resolvedLog, sends, callerVars, admitted, turnVars>>

\* Steering: the user's intent changed, reviews under the old one are void.
invalidateAutoReviews ==
    LET R == {r \in Pending : mode[r] = "auto"}
    IN  /\ steers < MaxSteer
        /\ steers' = steers + 1
        /\ activateNextLocked(queue, R, R, group, groupOwner, admitted, watch)
        /\ UNCHANGED <<resolvedLog, sends, callerVars, admitted, turnVars>>

\* The gateway stops: everything pending is closed and nothing activated.
clear ==
    /\ queue # <<>> \/ group # None
    /\ settled' = settled \cup Pending
    /\ closes' = [r \in Requests |-> closes[r] + IF r \in Pending THEN 1 ELSE 0]
    /\ queue' = <<>> /\ active' = {} /\ group' = None /\ groupOwner' = None
    /\ UNCHANGED <<activated, resolvedLog, sends, watch, callerVars, admitted, turnVars, steers>>

\* A call that needs no approval, or is refused by policy.
MarkAdmissionComplete(c) ==
    /\ c \notin admitted /\ Step[c] # None
    /\ \A r \in Requests : Call[r] = c => caller[r] \in {"new", "gone"}
    /\ admitted' = admitted \cup {c}
    /\ UNCHANGED <<coordVars, callerVars, turnVars, steers>>

\* Mutant: the goroutine has nothing to do once its step is complete.
WatchNothing(g) ==
    /\ g \in watch /\ AdmissionDone(g, admitted)
    /\ watch' = watch \ {g}
    /\ UNCHANGED <<queue, active, group, groupOwner, settled, activated, resolvedLog, sends,
                   closes, callerVars, admitted, turnVars, steers>>

watchParallelAdmissionLocked(g) ==
    /\ g \in watch /\ AdmissionDone(g, admitted)
    /\ IF group = g
       THEN activateNextLocked(queue, {}, {}, group, groupOwner, admitted, watch \ {g})
       ELSE /\ watch' = watch \ {g}
            /\ UNCHANGED <<queue, active, group, groupOwner, settled, activated, closes>>
    /\ UNCHANGED <<resolvedLog, sends, callerVars, admitted, turnVars, steers>>

-----------------------------------------------------------------------------
CallerStep(r) ==
    \/ Refuse(r) \/ enqueue(r) \/ StartReview(r) \/ Receive(r) \/ release(r)
    \/ resolve(r) \/ LeaveQueue(r) \/ ReviewFails(r) \/ WaitEnds(r)

Next ==
    \/ \E r \in Requests :
        \/ CallerStep(r)
        \/ \E m \in Modes[r] : Ask(r, m)
        \/ submit(r) \/ SubmitFails(r)
    \/ \E o \in Owners : Cancel(o) \/ Close(o) \/ finish(o)
    \/ invalidateAutoReviews \/ clear
    \/ \E c \in Calls : MarkAdmissionComplete(c)
    \/ \E g \in Steps : watchParallelAdmissionLocked(g)

Spec == Init /\ [][Next]_vars

\* A goroutine that can proceed does; a reviewer and a user decide what is in
\* front of them; a model step finishes its admission.  Nothing is assumed of a
\* request that is not active, nor of Turns that would end it.
Fairness ==
    /\ \A r \in Requests :
        /\ WF_vars(enqueue(r) \/ StartReview(r) \/ Receive(r) \/ release(r))
        /\ WF_vars(resolve(r) \/ submit(r))
        /\ WF_vars(r \notin active /\ ReviewFails(r))
    /\ \A c \in Calls : WF_vars(MarkAdmissionComplete(c))
    /\ \A g \in Steps : WF_vars(watchParallelAdmissionLocked(g))

FairSpec == Spec /\ Fairness

-----------------------------------------------------------------------------
(* Properties *)

\* The registry, the queue and the callers are well formed: the queue holds a
\* request once, and active requests are queued (removeLocked keeps them so).
TypeOK ==
    /\ queue \in Seq(Requests) /\ Cardinality(Pending) = Len(queue)
    /\ active \subseteq Pending
    /\ group \in Steps \cup {None} /\ groupOwner \in Owners \cup {None}
    /\ settled \subseteq Requests /\ settled \cap Pending = {}
    /\ mode \in [Requests -> {"manual", "auto"}]
    /\ caller \in [Requests -> {"new", "entering", "waiting", "reviewing", "resolved",
                                "leaving", "gone"}]
    /\ admitted \subseteq Calls /\ watch \subseteq Steps
    /\ \A o \in Owners : abandons[o] \subseteq ended[o]

\* The head of the queue is one request, or automatic reviews of one model step:
\* a user is never asked two things at once, nor next to a review.
OneHead ==
    \A r, s \in active : r # s =>
        /\ mode[r] = "auto" /\ mode[s] = "auto"
        /\ Step[Call[r]] # None /\ Step[Call[r]] = Step[Call[s]]

\* A request outside any cohort is active only when it is first in the queue:
\* nobody overtakes in activateNextLocked.
FirstComeFirstServed ==
    \A r \in active : parallelGroup(r) = None => Head(queue) = r

\* A request ends once: one decision is sent or its done channel is closed, never
\* both and never twice (a second close would panic, a second send would block
\* with the mutex held), and it ends exactly when it leaves the queue.
OneOutcome ==
    \A r \in Requests :
        sends[r] + closes[r] = IF r \in settled THEN 1 ELSE 0

\* A tool hears a user's decision only after the request was published and its
\* settlement is in the durable Session.
DecisionIsDurable ==
    \A r \in Requests : mode[r] = "manual" /\ sends[r] > 0 => r \in resolvedLog

\* A review started under an earlier user intent never decides after the steering
\* that replaced it (invalidateAutoReviews), whoever owns the request.
SteeringVoidsReviews ==
    [][\A r \in Requests : mode[r] = "auto" /\ sends'[r] # sends[r] =>
            since[r] = steers]_vars

\* No lost wakeup: a queue with requests has an active head, or waits for a
\* cohort whose watcher will run activateNextLocked.
QueueNeverStalls == queue # <<>> => active # {} \/ (group # None /\ group \in watch)

\* What activateNextLocked keeps of the queue after every operation: it is well
\* formed, served in order and never stalled.
QueueInv == TypeOK /\ FirstComeFirstServed /\ QueueNeverStalls

\* Every queued request reaches the head or ends, as long as what is in front of
\* it is decided.
QueuedEventuallyActive ==
    \A r \in Requests : (r \in Pending) ~> (r \in active \/ r \notin Pending)

=============================================================================

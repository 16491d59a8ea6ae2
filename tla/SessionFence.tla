---------------------------- MODULE SessionFence ----------------------------
(***************************************************************************)
(* The durable Session document and the authority that may change it:      *)
(* the execution fence, the mutation guard every writer presents, and the  *)
(* idle-compaction window into which a completed Turn may turn its fence.  *)
(*                                                                         *)
(* One action is one transaction of the store (agent-sdk/session/file),    *)
(* which serialises them under its root lock.  The callers are abstract:   *)
(* a producer is one acquisition, and keeps the bearer claim it was given  *)
(* for as long as its Host process lives, whether or not the fence is      *)
(* still its own.                                                          *)
(***************************************************************************)
EXTENDS Naturals, Sequences, FiniteSets

CONSTANTS
    Hosts,          \* owner ids; a Host process draws a fresh one when it starts
    Producers,      \* acquisitions; the value is the random fence id and claim
    Purposes,       \* the Control mutation purposes that are exercised
    Candidates,     \* checkpoint payloads an idle job may produce
    None,           \* the empty string of the code
    WindowTTL,      \* lifetime of an idle window, in ticks (180 s)
    GrantTTL,       \* lifetime of a grant, in ticks (2 s)
    MaxEpoch,       \* bound: fences ever issued
    MaxIdleEpoch,   \* bound: invalidations of the idle window
    MaxLog,         \* bound: events ever appended
    MaxClock        \* bound: clock ticks

ASSUME NoneAssumption == None \notin Producers \cup Hosts \cup Candidates
ASSUME TTLAssumption == WindowTTL \in Nat /\ GrantTTL \in Nat

VARIABLES
    alive,          \* Hosts whose process runs
    started,        \* Hosts ever started
    authority,      \* the Host that holds the authority lock of the store
    fence,          \* doc.Fence
    fenceEpoch,     \* doc.FenceEpoch
    idleEpoch,      \* doc.Idle.Epoch
    window,         \* doc.Idle.Window
    log,            \* the event log of the Session
    state,          \* doc.State, abstracted to one value
    now,            \* the clock of the store
    claim,          \* producer -> the fence its acquisition returned
    source,         \* producer -> the idle source it prepared
    phase           \* producer -> how far its guard is

docVars == <<fence, fenceEpoch, idleEpoch, window, log, state>>
hostVars == <<alive, started, authority>>
clientVars == <<claim, source, phase>>
vars == <<docVars, hostVars, clientVars, now>>

-----------------------------------------------------------------------------
(* Values *)

\* The zero SessionFence: no FenceID.
NoFence == [id |-> None, owner |-> None, token |-> 0]

Fence == [id : Producers, owner : Hosts, token : Nat]

SessionFenceIsHeld(f) == f.id # None

StateValues == {0, 1}

Phases == {"new", "running", "releasing", "released"}

Kinds == {"visible", "journal", "checkpoint"}

\* token: the fencing token the writer presented (0 when it carried no fence).
\* Of a checkpoint: the job and payload, the last event it summarises, and the
\* visible events its job worked from.
Event == [kind : Kinds, token : Nat, job : Producers \cup {None},
          candidate : Candidates \cup {None}, summarizedThrough : Nat,
          source : SUBSET Nat]

PlainEvent(kind, token) ==
    [kind |-> kind, token |-> token, job |-> None, candidate |-> None,
     summarizedThrough |-> 0, source |-> {}]

\* What a prompt is built from: journal entries are not model input.
VisibleEvents(l) == {i \in DOMAIN l : l[i].kind # "journal"}

\* The fingerprint covers the state and the visible events; positions in an
\* append-only log stand for the events themselves.
CheckpointSourceStamp(l, s) == [state |-> s, visible |-> VisibleEvents(l)]

Stamp == [state : StateValues, visible : SUBSET Nat]

\* IdleCompactionSource: endSeq is the end of the coverage proof, 0 until the
\* job is prepared.
NoSource == [stamp |-> [state |-> 0, visible |-> {}], endSeq |-> 0]
Source == [stamp : Stamp, endSeq : Nat]

\* A nil window pointer.
NoWindow == [job |-> None, host |-> None, source |-> NoSource, epoch |-> 0,
             expiresAt |-> 0, candidate |-> None, grantExpiresAt |-> 0,
             consumed |-> FALSE, revoked |-> FALSE]

Window == [job : Producers \cup {None}, host : Hosts \cup {None}, source : Source,
           epoch : Nat, expiresAt : Nat, candidate : Candidates \cup {None},
           grantExpiresAt : Nat, consumed : BOOLEAN, revoked : BOOLEAN]

-----------------------------------------------------------------------------
(* Mutation guards *)

AllPurposes == {"approval", "conversation_interaction",
                "idle_conversation_interaction", "handoff", "coordinator",
                "participant", "session_lifecycle", "session_configuration",
                "test", "system_commit", "subagent_completion",
                "subagent_activity"}

ControlMutationMayOverlapRuntimeFence(purpose) ==
    purpose \in {"approval", "conversation_interaction", "participant",
                 "system_commit", "subagent_completion", "subagent_activity",
                 "test"}

controlMutationRequiresFence(purpose) == purpose \in {"handoff", "coordinator"}

\* bearer: the guard carries the claim of its fence.  A fence read back through
\* SessionFenceForObservation has lost it.
RuntimeGuard(f, b) ==
    [authority |-> "runtime", purpose |-> "", fence |-> f, bearer |-> b]
ControlGuard(p, f, b) ==
    [authority |-> "control", purpose |-> p, fence |-> f, bearer |-> b]
UnmarkedGuard ==
    [authority |-> "", purpose |-> "", fence |-> NoFence, bearer |-> FALSE]

sessionFenceMutationAuthorized(active, guard) ==
    /\ active.id = guard.fence.id
    /\ active.owner = guard.fence.owner
    /\ active.token = guard.fence.token
    /\ guard.bearer

ValidateControlMutationGuard(guard) ==
    /\ guard.purpose \in AllPurposes
    /\ controlMutationRequiresFence(guard.purpose) => SessionFenceIsHeld(guard.fence)

\* Mutant: a Control guard that carries a fence is taken at its word.
ControlFenceUnchecked(active, guard) ==
    \/ guard.authority = "control" /\ SessionFenceIsHeld(guard.fence)
    \/ /\ guard.authority = "runtime"
       /\ SessionFenceIsHeld(active)
       /\ sessionFenceMutationAuthorized(active, guard)

AuthorizeMutationGuard(active, guard) ==
    \/ /\ guard.authority = "control"
       /\ ValidateControlMutationGuard(guard)
       /\ IF SessionFenceIsHeld(guard.fence)
          THEN /\ SessionFenceIsHeld(active)
               /\ sessionFenceMutationAuthorized(active, guard)
          ELSE SessionFenceIsHeld(active) =>
                    ControlMutationMayOverlapRuntimeFence(guard.purpose)
    \/ /\ guard.authority = "runtime"
       /\ SessionFenceIsHeld(active)
       /\ sessionFenceMutationAuthorized(active, guard)
    \/ /\ guard.authority = ""
       /\ ~SessionFenceIsHeld(active)

\* The guards the callers of one moment can present: their own claims, fences
\* they only observed, and guards without a fence.
HeldClaims == {claim[p] : p \in {q \in Producers :
                    SessionFenceIsHeld(claim[q]) /\ claim[q].owner \in alive}}

Guards ==
    {RuntimeGuard(f, TRUE) : f \in HeldClaims}
    \cup {ControlGuard(c[1], c[2], TRUE) : c \in Purposes \X HeldClaims}
    \cup {ControlGuard(p, NoFence, FALSE) : p \in Purposes}
    \cup {RuntimeGuard(fence, FALSE), UnmarkedGuard}

-----------------------------------------------------------------------------
(* The idle window *)

\* (*IdleCompactionState).Invalidate
Invalidated(w) == IF w.job = None THEN w ELSE [w EXCEPT !.revoked = TRUE]

\* Mutant: no revocation.
InvalidateNothing == UNCHANGED <<idleEpoch, window>>

Invalidate ==
    /\ idleEpoch < MaxIdleEpoch
    /\ idleEpoch' = idleEpoch + 1
    /\ window' = Invalidated(window)

\* The window is neither revoked nor from an earlier epoch.
WindowCurrent(w, e) == w.job # None /\ ~w.revoked /\ w.epoch = e

\* Mutant: the window claim alone decides.
ValidateWindowClaim(p) == window.job = p /\ now < window.expiresAt

ValidateWindow(p) ==
    /\ WindowCurrent(window, idleEpoch)
    /\ ~window.consumed
    /\ window.job = p
    /\ now < window.expiresAt
    /\ ~SessionFenceIsHeld(fence)
    /\ CheckpointSourceStamp(log, state) = window.source.stamp

-----------------------------------------------------------------------------
Init ==
    /\ alive = {}
    /\ started = {}
    /\ authority = None
    /\ fence = NoFence
    /\ fenceEpoch = 0
    /\ idleEpoch = 0
    /\ window = NoWindow
    /\ log = <<>>
    /\ state = 0
    /\ now = 0
    /\ claim = [p \in Producers |-> NoFence]
    /\ source = [p \in Producers |-> NoSource]
    /\ phase = [p \in Producers |-> "new"]

Tick ==
    /\ now < MaxClock
    /\ now' = now + 1
    /\ UNCHANGED <<docVars, hostVars, clientVars>>

(* Host processes.  The authority lock is a file lock: one process has it,    *)
(* and it is free again when the process closes it or dies.  Closing it does  *)
(* not stop the producers of the process.                                    *)

StartHost(h) ==
    /\ h \notin started
    /\ authority = None
    /\ started' = started \cup {h}
    /\ alive' = alive \cup {h}
    /\ authority' = h
    /\ UNCHANGED <<docVars, clientVars, now>>

CloseAuthority(h) ==
    /\ authority = h
    /\ authority' = None
    /\ UNCHANGED <<alive, started, docVars, clientVars, now>>

Crash(h) ==
    /\ h \in alive
    /\ alive' = alive \ {h}
    /\ authority' = IF authority = h THEN None ELSE authority
    /\ UNCHANGED <<started, docVars, clientVars, now>>

(* Fences *)

\* Mutant: the id generator failed and nobody looked.
ClaimWithoutId(p, h) == [id |-> None, owner |-> h, token |-> fenceEpoch + 1]

NewSessionFenceClaim(p, h) == [id |-> p, owner |-> h, token |-> fenceEpoch + 1]

acquireSessionFence(p, h, replacePriorHost) ==
    /\ phase[p] = "new"
    /\ h \in alive
    /\ SessionFenceIsHeld(fence) => (replacePriorHost /\ fence.owner # h)
    /\ Invalidate
    /\ fenceEpoch < MaxEpoch
    /\ fenceEpoch' = fenceEpoch + 1
    /\ fence' = NewSessionFenceClaim(p, h)
    /\ claim' = [claim EXCEPT ![p] = fence']
    /\ phase' = [phase EXCEPT ![p] = "running"]
    /\ UNCHANGED <<log, state, hostVars, source, now>>

AcquireSessionFence(p, h) == acquireSessionFence(p, h, FALSE)

\* The pin on the authority lock is held for the whole transaction.
ReplacePriorHostSessionFence(p, h) ==
    /\ authority = h
    /\ acquireSessionFence(p, h, TRUE)

SessionFenceReleaseAuthorized(active, f) ==
    /\ SessionFenceIsHeld(active)
    /\ active.id = f.id
    /\ active.owner = f.owner

\* The producer has stopped and its guard starts to release.
BeginRelease(p) ==
    /\ phase[p] = "running"
    /\ claim[p].owner \in alive
    /\ phase' = [phase EXCEPT ![p] = "releasing"]
    /\ UNCHANGED <<docVars, hostVars, claim, source, now>>

\* A release whose answer is lost is retried with the same claim.
Answer(p, answered) ==
    phase' = IF answered THEN [phase EXCEPT ![p] = "released"] ELSE phase

Releasing(p) == phase[p] = "releasing" /\ claim[p].owner \in alive

\* The store refuses to release what is not the claimant's own; the caller
\* then reads the fence back and takes a missing or different one as released.
ReleaseSessionFence(p, answered) ==
    /\ Releasing(p)
    /\ IF SessionFenceReleaseAuthorized(fence, claim[p])
       THEN Invalidate /\ fence' = NoFence
       ELSE UNCHANGED <<idleEpoch, window, fence>>
    /\ Answer(p, answered)
    /\ UNCHANGED <<fenceEpoch, log, state, hostVars, claim, source, now>>

(* Mutations.  Every write of events or state goes through the guard and      *)
(* revokes the idle window in the same transaction.                           *)

\* Mutant: the guard is checked and the window left alone.
AuthorizeOnly(guard) ==
    /\ AuthorizeMutationGuard(fence, guard)
    /\ UNCHANGED <<idleEpoch, window>>

authorizeDocumentMutation(guard) ==
    /\ AuthorizeMutationGuard(fence, guard)
    /\ Invalidate

AppendEvents(guard, kind) ==
    /\ Len(log) < MaxLog
    /\ authorizeDocumentMutation(guard)
    /\ log' = Append(log, PlainEvent(kind, guard.fence.token))
    /\ UNCHANGED <<fence, fenceEpoch, state, hostVars, clientVars, now>>

UpdateState(guard, value) ==
    /\ authorizeDocumentMutation(guard)
    /\ state' = value
    /\ UNCHANGED <<fence, fenceEpoch, log, hostVars, clientVars, now>>

(* Idle compaction *)

\* PrepareIdleCompaction: a completed producer reads the Session back and fixes
\* the source of its job.  Others may write before the handoff is committed.
PrepareIdle(p, endSeq) ==
    /\ Releasing(p)
    /\ source[p] = NoSource
    /\ endSeq \in VisibleEvents(log)
    /\ source' = [source EXCEPT ![p] =
            [stamp |-> CheckpointSourceStamp(log, state), endSeq |-> endSeq]]
    /\ UNCHANGED <<docVars, hostVars, claim, phase, now>>

\* Mutant: a retry is recognised by its job alone.
ReplayByJob(p) == window.job = p

\* The branch of Release that recognises its own earlier commit.
ReleaseReplay(p) ==
    /\ window.job = p
    /\ WindowCurrent(window, idleEpoch)

ReleaseFirst(p) ==
    /\ window.job # p
    /\ SessionFenceReleaseAuthorized(fence, claim[p])
    /\ CheckpointSourceStamp(log, state) = source[p].stamp
    /\ source[p].endSeq \in source[p].stamp.visible

NewWindow(p) ==
    [job |-> p, host |-> claim[p].owner, source |-> source[p], epoch |-> idleEpoch + 1,
     expiresAt |-> now + WindowTTL, candidate |-> None, grantExpiresAt |-> 0,
     consumed |-> FALSE, revoked |-> FALSE]

\* One transaction turns the fence into a window.  The replay leaves the window
\* as it is, and clears the fence too.
ReleaseSessionFenceForIdleCompaction(p, answered) ==
    /\ Releasing(p)
    /\ source[p] # NoSource
    /\ \/ /\ ReleaseReplay(p)
          /\ UNCHANGED <<idleEpoch, window>>
       \/ /\ ReleaseFirst(p)
          /\ idleEpoch < MaxIdleEpoch
          /\ idleEpoch' = idleEpoch + 1
          /\ window' = NewWindow(p)
    /\ fence' = NoFence
    /\ Answer(p, answered)
    /\ UNCHANGED <<fenceEpoch, log, state, hostVars, claim, source, now>>

\* Only a caller that was told of its window has the bearer token of it.
HoldsWindow(p) ==
    /\ source[p] # NoSource
    /\ phase[p] = "released"
    /\ claim[p].owner \in alive

IssueIdleCompactionGrant(p, c) ==
    /\ HoldsWindow(p)
    /\ ValidateWindow(p)
    /\ IF window.candidate # None
       THEN /\ window.candidate = c
            /\ now < window.grantExpiresAt
            /\ UNCHANGED window
       ELSE window' = [window EXCEPT !.candidate = c,
                                     !.grantExpiresAt = now + GrantTTL]
    /\ UNCHANGED <<fence, fenceEpoch, idleEpoch, log, state, hostVars, clientVars, now>>

\* The checkpoint is already durable: the append answers with it.
IdleCheckpointReplay(p, c) ==
    \E i \in DOMAIN log :
        log[i].kind = "checkpoint" /\ log[i].job = p /\ log[i].candidate = c

CheckpointEvent(p, c) ==
    [kind |-> "checkpoint", token |-> 0, job |-> p, candidate |-> c,
     summarizedThrough |-> window.source.endSeq,
     source |-> window.source.stamp.visible]

\* Mutant: a live grant is all an append needs, and a retry works from whatever
\* the Session holds by then.
AppendByGrant(p, c) ==
    /\ HoldsWindow(p)
    /\ window.job = p
    /\ window.candidate = c
    /\ now < window.grantExpiresAt
    /\ Len(log) < MaxLog
    /\ window' = [window EXCEPT !.consumed = TRUE]
    /\ log' = Append(log, [CheckpointEvent(p, c) EXCEPT !.source = VisibleEvents(log)])
    /\ UNCHANGED <<fence, fenceEpoch, idleEpoch, state, hostVars, clientVars, now>>

AppendIdleCompactionCheckpoint(p, c) ==
    /\ HoldsWindow(p)
    /\ ~IdleCheckpointReplay(p, c)
    /\ ValidateWindow(p)
    /\ window.candidate = c
    /\ now < window.grantExpiresAt
    /\ Len(log) < MaxLog
    /\ window' = [window EXCEPT !.consumed = TRUE]
    /\ log' = Append(log, CheckpointEvent(p, c))
    /\ UNCHANGED <<fence, fenceEpoch, idleEpoch, state, hostVars, clientVars, now>>

RevokeIdleCompaction(p) ==
    /\ HoldsWindow(p)
    /\ window.job = p
    /\ Invalidate
    /\ UNCHANGED <<fence, fenceEpoch, log, state, hostVars, clientVars, now>>

\* Accounting receipts are journal entries, written whatever the fence and the
\* window are, and they leave both alone.
FinalizeCompactionReceipt ==
    /\ Len(log) < MaxLog
    /\ log' = Append(log, PlainEvent("journal", 0))
    /\ UNCHANGED <<fence, fenceEpoch, idleEpoch, window, state, hostVars, clientVars, now>>

\* Startup recovery, under a pin of the authority lock: the window of another
\* Host is revoked, and the attempts it left behind (if any) are journaled.
RecoverCompactionReceipts(h, journaled) ==
    /\ authority = h
    /\ IF window.job # None /\ ~window.revoked /\ window.host # h
       THEN Invalidate
       ELSE UNCHANGED <<idleEpoch, window>>
    /\ journaled => Len(log) < MaxLog
    /\ log' = IF journaled THEN Append(log, PlainEvent("journal", 0)) ELSE log
    /\ UNCHANGED <<fence, fenceEpoch, state, hostVars, clientVars, now>>

-----------------------------------------------------------------------------
Next ==
    \/ Tick
    \/ \E h \in Hosts :
        \/ StartHost(h)
        \/ CloseAuthority(h)
        \/ Crash(h)
        \/ \E j \in BOOLEAN : RecoverCompactionReceipts(h, j)
    \/ \E p \in Producers, h \in Hosts :
        \/ AcquireSessionFence(p, h)
        \/ ReplacePriorHostSessionFence(p, h)
    \/ \E g \in Guards :
        \/ \E k \in {"visible", "journal"} : AppendEvents(g, k)
        \/ \E v \in StateValues : UpdateState(g, v)
    \/ \E p \in Producers :
        \/ BeginRelease(p)
        \/ \E n \in DOMAIN log : PrepareIdle(p, n)
        \/ \E a \in BOOLEAN :
            \/ ReleaseSessionFence(p, a)
            \/ ReleaseSessionFenceForIdleCompaction(p, a)
        \/ \E c \in Candidates :
            \/ IssueIdleCompactionGrant(p, c)
            \/ AppendIdleCompactionCheckpoint(p, c)
        \/ RevokeIdleCompaction(p)
    \/ FinalizeCompactionReceipt

Spec == Init /\ [][Next]_vars

-----------------------------------------------------------------------------
(* Properties *)

\* The document, the process and the client state are well formed; a held fence
\* has an id, an owner and a token (NewSessionFenceClaim validates them).
TypeOK ==
    /\ alive \subseteq Hosts
    /\ started \subseteq Hosts
    /\ authority \in Hosts \cup {None}
    /\ fence \in Fence \cup {NoFence}
    /\ fenceEpoch \in Nat
    /\ idleEpoch \in Nat
    /\ window \in Window
    /\ log \in Seq(Event)
    /\ state \in StateValues
    /\ now \in Nat
    /\ claim \in [Producers -> Fence \cup {NoFence}]
    /\ source \in [Producers -> Source]
    /\ phase \in [Producers -> Phases]

\* The tokens in the log of writers that carried a fence never go back: once a
\* replacement has written, the fenced-off producer cannot write any more.
StaleProducerNeverWrites ==
    \A i, j \in DOMAIN log :
        i < j /\ log[i].token > 0 /\ log[j].token > 0 => log[i].token <= log[j].token

\* At most one producer's guard is accepted at any time.
OneAuthorizedProducer ==
    \A p, q \in Producers :
        /\ AuthorizeMutationGuard(fence, RuntimeGuard(claim[p], TRUE))
        /\ AuthorizeMutationGuard(fence, RuntimeGuard(claim[q], TRUE))
        => p = q

\* A window that still counts and a held fence exclude each other: this is what
\* makes it safe for the replayed handoff to clear the fence.
CurrentWindowExcludesFence ==
    WindowCurrent(window, idleEpoch) => ~SessionFenceIsHeld(fence)

\* While a window counts and is not consumed, what it was opened on is still
\* what the Session holds: no path changes the source without revoking it.
CurrentWindowIsFresh ==
    WindowCurrent(window, idleEpoch) /\ ~window.consumed =>
        CheckpointSourceStamp(log, state) = window.source.stamp

\* A checkpoint summarises every visible event before it: nothing that arrived
\* after the handoff is swallowed.
CheckpointCoversSource ==
    \A i \in DOMAIN log : log[i].kind = "checkpoint" =>
        /\ log[i].source = {j \in VisibleEvents(log) : j < i}
        /\ log[i].summarizedThrough \in log[i].source

\* One handoff yields at most one checkpoint, whatever is retried.
OneCheckpointPerJob ==
    \A i, j \in DOMAIN log :
        /\ log[i].kind = "checkpoint" /\ log[j].kind = "checkpoint"
        /\ log[i].job = log[j].job
        => i = j

\* A held fence disappears only after the producer that acquired it has begun
\* to release (a late or replayed release never clears a successor's), and is
\* replaced only by a Host that holds the authority lock and is not the owner.
FenceLeavesOnlyByItsOwner ==
    [][SessionFenceIsHeld(fence) /\ fence' # fence =>
        \/ /\ fence' = NoFence
           /\ phase[fence.id] = "releasing"
        \/ /\ fence'.owner = authority
           /\ fence'.owner # fence.owner
           /\ fence'.token > fence.token]_vars

\* A grant is for one payload and one deadline: asking again never extends it.
GrantNeverRenewed ==
    [][window.candidate # None /\ window'.job = window.job =>
        /\ window'.candidate = window.candidate
        /\ window'.grantExpiresAt = window.grantExpiresAt]_vars

-----------------------------------------------------------------------------
(* What the invariants above rest on *)

\* A claim belongs to one acquisition; the held fence is the claim of a producer
\* that has not finished releasing, and has the last token issued.
FenceInv ==
    /\ \A p \in Producers :
        IF phase[p] = "new"
        THEN claim[p] = NoFence /\ source[p] = NoSource
        ELSE claim[p].id = p /\ claim[p].token <= fenceEpoch
    /\ SessionFenceIsHeld(fence) =>
        /\ claim[fence.id] = fence
        /\ phase[fence.id] \in {"running", "releasing"}
        /\ fence.token = fenceEpoch

\* No event carries a token that was not issued yet.
TokensIssued == \A i \in DOMAIN log : log[i].token <= fenceEpoch

\* A job that has, or had, a window has given up its fence for good, and a job
\* that wrote its checkpoint has used its window up.
JobInv ==
    /\ window.epoch <= idleEpoch
    /\ window.job # None =>
        /\ phase[window.job] # "new"
        /\ fence.id # window.job
        /\ window.source.endSeq \in window.source.stamp.visible
    /\ \A i \in DOMAIN log : log[i].kind = "checkpoint" =>
        /\ log[i].job \in Producers
        /\ phase[log[i].job] # "new"
        /\ fence.id # log[i].job
        /\ window.job = log[i].job => window.consumed

=============================================================================

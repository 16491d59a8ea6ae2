------------------------- MODULE SessionFenceProofs -------------------------
(***************************************************************************)
(* Proofs about SessionFence for any Hosts, Producers and Candidates, any  *)
(* lifetimes and any bounds.                                               *)
(***************************************************************************)
EXTENDS SessionFence, TLAPS

-----------------------------------------------------------------------------
(* The guards callers can present *)

\* A guard that is accepted and carries a token carries the token of the fence
\* that is held: AuthorizeMutationGuard compares id, owner, token and claim.
LEMMA AuthorizedToken ==
    ASSUME TypeOK, NEW g \in Guards, AuthorizeMutationGuard(fence, g)
    PROVE  /\ g.fence.token \in Nat
           /\ g.fence.token = 0 \/ (SessionFenceIsHeld(fence) /\ g.fence.token = fence.token)
<1>0. fence \in Fence \cup {NoFence} /\ claim \in [Producers -> Fence \cup {NoFence}]
  BY DEF TypeOK
<1>a. \A f \in HeldClaims : f \in Fence
  BY <1>0 DEF HeldClaims, NoFence, SessionFenceIsHeld
<1>1. CASE \E f \in HeldClaims : g = RuntimeGuard(f, TRUE)
  <2> PICK f \in HeldClaims : g = RuntimeGuard(f, TRUE)
    BY <1>1
  <2>1. g.fence \in Fence
    BY <1>a DEF RuntimeGuard
  <2>2. SessionFenceIsHeld(fence) /\ fence.token = g.fence.token
    BY DEF RuntimeGuard, AuthorizeMutationGuard, sessionFenceMutationAuthorized
  <2> QED
    BY <2>1, <2>2 DEF Fence
<1>2. CASE \E c \in Purposes \X HeldClaims : g = ControlGuard(c[1], c[2], TRUE)
  <2> PICK c \in Purposes \X HeldClaims : g = ControlGuard(c[1], c[2], TRUE)
    BY <1>2
  <2>1. g.fence \in Fence
    BY <1>a DEF ControlGuard
  <2>2. SessionFenceIsHeld(g.fence)
    BY <2>1, NoneAssumption DEF Fence, SessionFenceIsHeld
  <2>3. g.authority = "control"
    BY DEF ControlGuard
  <2>4. SessionFenceIsHeld(fence) /\ fence.token = g.fence.token
    BY <2>2, <2>3 DEF AuthorizeMutationGuard, sessionFenceMutationAuthorized
  <2> QED
    BY <2>1, <2>4 DEF Fence
<1>3. CASE \E p \in Purposes : g = ControlGuard(p, NoFence, FALSE)
  BY <1>0, <1>3 DEF ControlGuard, NoFence
<1>4. CASE g = RuntimeGuard(fence, FALSE)
  BY <1>0, <1>4 DEF RuntimeGuard, AuthorizeMutationGuard, sessionFenceMutationAuthorized
<1>5. CASE g = UnmarkedGuard
  BY <1>5 DEF UnmarkedGuard, NoFence
<1> QED
  BY <1>1, <1>2, <1>3, <1>4, <1>5 DEF Guards

-----------------------------------------------------------------------------
(* Type correctness *)

\* The empty Session document is well formed.
LEMMA InitTypeOK == Init => TypeOK
  BY NoneAssumption DEF Init, TypeOK, NoFence, NoWindow, NoSource, Window, Source, Stamp,
     StateValues, Phases, Event

\* Invalidate leaves a window of the right shape.
LEMMA InvalidateType ==
    ASSUME TypeOK, Invalidate
    PROVE  idleEpoch' \in Nat /\ window' \in Window
<1>1. [window EXCEPT !.revoked = TRUE] \in Window
  BY DEF TypeOK, Window
<1> QED
  BY <1>1 DEF TypeOK, Invalidate, Invalidated

\* CheckpointSourceStamp digests any log and state to a stamp.
LEMMA StampType ==
    ASSUME TypeOK
    PROVE  CheckpointSourceStamp(log, state) \in Stamp
  BY DEF TypeOK, CheckpointSourceStamp, Stamp, VisibleEvents

\* An event that is not a checkpoint receipt is an event of the log.
LEMMA PlainEventType ==
    ASSUME NEW k \in Kinds, NEW t \in Nat
    PROVE  PlainEvent(k, t) \in Event
  BY DEF PlainEvent, Event

\* Every transaction, by every kind of caller, keeps the document well formed.
LEMMA NextTypeOK == TypeOK /\ [Next]_vars => TypeOK'
<1> SUFFICES ASSUME TypeOK, [Next]_vars PROVE TypeOK'
  OBVIOUS
<1>1. CASE Tick
  BY <1>1 DEF Tick, TypeOK, docVars, hostVars, clientVars
<1>2. ASSUME NEW h \in Hosts, StartHost(h) \/ CloseAuthority(h) \/ Crash(h) PROVE TypeOK'
  BY <1>2 DEF StartHost, CloseAuthority, Crash, TypeOK, docVars, hostVars, clientVars
<1>3. ASSUME NEW h \in Hosts, NEW j \in BOOLEAN, RecoverCompactionReceipts(h, j) PROVE TypeOK'
  <2>1. idleEpoch' \in Nat /\ window' \in Window
    BY <1>3, InvalidateType DEF RecoverCompactionReceipts, TypeOK
  <2>2. log' \in Seq(Event)
    <3>1. PlainEvent("journal", 0) \in Event
      BY PlainEventType DEF Kinds
    <3> QED
      BY <1>3, <3>1 DEF RecoverCompactionReceipts, TypeOK
  <2> QED
    BY <1>3, <2>1, <2>2 DEF RecoverCompactionReceipts, TypeOK, hostVars, clientVars
<1>4. ASSUME NEW p \in Producers, NEW h \in Hosts, NEW r \in BOOLEAN, acquireSessionFence(p, h, r)
      PROVE  TypeOK'
  <2>1. idleEpoch' \in Nat /\ window' \in Window
    BY <1>4, InvalidateType DEF acquireSessionFence
  <2>2. fence' \in Fence /\ fenceEpoch' \in Nat
    BY <1>4 DEF acquireSessionFence, NewSessionFenceClaim, Fence, TypeOK
  <2> QED
    BY <1>4, <2>1, <2>2 DEF acquireSessionFence, TypeOK, hostVars, Phases
<1>5. ASSUME NEW g \in Guards, NEW k \in {"visible", "journal"}, AppendEvents(g, k) PROVE TypeOK'
  <2>1. idleEpoch' \in Nat /\ window' \in Window
    BY <1>5, InvalidateType DEF AppendEvents, authorizeDocumentMutation
  <2>2. PlainEvent(k, g.fence.token) \in Event
    BY <1>5, AuthorizedToken, PlainEventType DEF AppendEvents, authorizeDocumentMutation, Kinds
  <2> QED
    BY <1>5, <2>1, <2>2 DEF AppendEvents, TypeOK, hostVars, clientVars
<1>6. ASSUME NEW g \in Guards, NEW v \in StateValues, UpdateState(g, v) PROVE TypeOK'
  BY <1>6, InvalidateType DEF UpdateState, authorizeDocumentMutation, TypeOK, hostVars, clientVars
<1>7. ASSUME NEW p \in Producers, BeginRelease(p) PROVE TypeOK'
  BY <1>7 DEF BeginRelease, TypeOK, docVars, hostVars, Phases
<1>8. ASSUME NEW p \in Producers, NEW n \in DOMAIN log, PrepareIdle(p, n) PROVE TypeOK'
  <2>1. [stamp |-> CheckpointSourceStamp(log, state), endSeq |-> n] \in Source
    BY StampType DEF Source, TypeOK
  <2> QED
    BY <1>8, <2>1 DEF PrepareIdle, TypeOK, docVars, hostVars
<1>9. ASSUME NEW p \in Producers, NEW a \in BOOLEAN, ReleaseSessionFence(p, a) PROVE TypeOK'
  BY <1>9, InvalidateType DEF ReleaseSessionFence, Answer, TypeOK, hostVars, Phases
<1>10. ASSUME NEW p \in Producers, NEW a \in BOOLEAN, ReleaseSessionFenceForIdleCompaction(p, a)
       PROVE  TypeOK'
  <2>1. claim[p].owner \in Hosts
    BY <1>10 DEF ReleaseSessionFenceForIdleCompaction, Releasing, TypeOK
  <2>2. idleEpoch' \in Nat /\ window' \in Window
    <3>1. NewWindow(p) \in Window
      BY <2>1, TTLAssumption DEF NewWindow, TypeOK, Window
    <3> QED
      BY <1>10, <3>1 DEF ReleaseSessionFenceForIdleCompaction, TypeOK
  <2> QED
    BY <1>10, <2>2 DEF ReleaseSessionFenceForIdleCompaction, Answer, TypeOK, hostVars, Phases
<1>11. ASSUME NEW p \in Producers, NEW c \in Candidates, IssueIdleCompactionGrant(p, c)
       PROVE  TypeOK'
  <2>1. [window EXCEPT !.candidate = c, !.grantExpiresAt = now + GrantTTL] \in Window
    <3>1. now + GrantTTL \in Nat /\ window \in Window
      BY TTLAssumption DEF TypeOK
    <3> QED
      BY <3>1 DEF Window
  <2> QED
    BY <1>11, <2>1 DEF IssueIdleCompactionGrant, TypeOK, hostVars, clientVars
<1>12. ASSUME NEW p \in Producers, NEW c \in Candidates, AppendIdleCompactionCheckpoint(p, c)
       PROVE  TypeOK'
  <2>1. window' \in Window
    BY <1>12 DEF AppendIdleCompactionCheckpoint, TypeOK, Window
  <2>2. CheckpointEvent(p, c) \in Event
    BY DEF CheckpointEvent, Event, Kinds, TypeOK, Window, Source, Stamp
  <2> QED
    BY <1>12, <2>1, <2>2 DEF AppendIdleCompactionCheckpoint, TypeOK, hostVars, clientVars
<1>13. ASSUME NEW p \in Producers, RevokeIdleCompaction(p) PROVE TypeOK'
  BY <1>13, InvalidateType DEF RevokeIdleCompaction, TypeOK, hostVars, clientVars
<1>14. CASE FinalizeCompactionReceipt
  <2>1. PlainEvent("journal", 0) \in Event
    BY PlainEventType DEF Kinds
  <2> QED
    BY <1>14, <2>1 DEF FinalizeCompactionReceipt, TypeOK, hostVars, clientVars
<1>15. CASE UNCHANGED vars
  BY <1>15 DEF vars, TypeOK, docVars, hostVars, clientVars
<1> QED
  BY <1>1, <1>2, <1>3, <1>4, <1>5, <1>6, <1>7, <1>8, <1>9, <1>10, <1>11, <1>12, <1>13,
     <1>14, <1>15 DEF Next, AcquireSessionFence, ReplacePriorHostSessionFence

\* Every transaction of the store leaves a well-formed Session document.
THEOREM TypeCorrect == Spec => []TypeOK
  BY InitTypeOK, NextTypeOK, PTL DEF Spec

-----------------------------------------------------------------------------
(* The fence and its claims *)

\* No fence is held and no token is issued at first.
LEMMA InitFenceInv == Init => FenceInv /\ TokensIssued
  BY DEF Init, FenceInv, TokensIssued, NoFence, SessionFenceIsHeld

\* A release is authorised exactly for the producer whose claim is held.
LEMMA ReleaseOwn ==
    ASSUME TypeOK, FenceInv, NEW p \in Producers, phase[p] # "new"
    PROVE  SessionFenceReleaseAuthorized(fence, claim[p]) <=> fence.id = p
<1>1. claim[p].id = p
  BY DEF FenceInv
<1>2. p # None
  BY NoneAssumption
<1>3. fence.id = p => claim[p] = fence
  BY <1>2 DEF FenceInv, SessionFenceIsHeld
<1> QED
  BY <1>1, <1>2, <1>3 DEF SessionFenceReleaseAuthorized, SessionFenceIsHeld

\* No transaction leaves two producers with the held claim: acquireSessionFence
\* issues a new token, and a release or a replacement empties the slot.
LEMMA NextFenceInv ==
    ASSUME TypeOK, FenceInv, [Next]_vars
    PROVE  FenceInv'
<1>1. ASSUME UNCHANGED <<fence, fenceEpoch, claim, phase, source>> PROVE FenceInv'
  BY <1>1 DEF FenceInv
<1>2. ASSUME NEW p \in Producers, NEW h \in Hosts, NEW r \in BOOLEAN, acquireSessionFence(p, h, r)
      PROVE  FenceInv'
  <2>1. /\ fence' = [id |-> p, owner |-> h, token |-> fenceEpoch + 1]
        /\ fenceEpoch' = fenceEpoch + 1
        /\ claim' = [claim EXCEPT ![p] = fence']
        /\ phase' = [phase EXCEPT ![p] = "running"]
        /\ source' = source
    BY <1>2 DEF acquireSessionFence, NewSessionFenceClaim
  <2>2. claim'[p] = fence' /\ phase'[p] = "running"
    BY <2>1 DEF TypeOK
  <2>3. ASSUME NEW q \in Producers
        PROVE  IF phase'[q] = "new"
               THEN claim'[q] = NoFence /\ source'[q] = NoSource
               ELSE claim'[q].id = q /\ claim'[q].token <= fenceEpoch'
    <3>1. CASE q = p
      BY <2>1, <2>2, <3>1 DEF TypeOK
    <3>2. CASE q # p
      <4>1. claim'[q] = claim[q] /\ phase'[q] = phase[q]
        BY <2>1, <3>2 DEF TypeOK
      <4>2. claim[q].token \in Nat /\ fenceEpoch \in Nat
        BY DEF TypeOK, Fence, NoFence
      <4> QED
        BY <2>1, <4>1, <4>2 DEF FenceInv
    <3> QED
      BY <3>1, <3>2
  <2> QED
    BY <2>1, <2>2, <2>3 DEF FenceInv
<1>3. ASSUME NEW p \in Producers, BeginRelease(p) PROVE FenceInv'
  BY <1>3 DEF BeginRelease, FenceInv, TypeOK, docVars
<1>4. ASSUME NEW p \in Producers, NEW n \in DOMAIN log, PrepareIdle(p, n) PROVE FenceInv'
  BY <1>4 DEF PrepareIdle, Releasing, FenceInv, TypeOK, docVars
<1>5. ASSUME NEW p \in Producers, NEW a \in BOOLEAN, phase[p] = "releasing",
             fence' = NoFence \/ (fence' = fence /\ fence.id # p),
             Answer(p, a), UNCHANGED <<fenceEpoch, claim, source>>
      PROVE  FenceInv'
  <2>1. \A q \in Producers : (phase'[q] = "new" <=> phase[q] = "new")
                            /\ (q # p => phase'[q] = phase[q])
    BY <1>5 DEF Answer, TypeOK
  <2>2. SessionFenceIsHeld(fence') => fence' = fence /\ fence.id # p
    BY <1>5 DEF SessionFenceIsHeld, NoFence
  <2>3. SessionFenceIsHeld(fence) => fence.id \in Producers
    BY DEF TypeOK, SessionFenceIsHeld, NoFence, Fence
  <2> QED
    BY <1>5, <2>1, <2>2, <2>3 DEF FenceInv
<1>6. ASSUME NEW p \in Producers, NEW a \in BOOLEAN, ReleaseSessionFence(p, a) PROVE FenceInv'
  <2>1. phase[p] = "releasing" /\ Answer(p, a) /\ UNCHANGED <<fenceEpoch, claim, source>>
    BY <1>6 DEF ReleaseSessionFence, Releasing
  <2>2. fence' = NoFence \/ (fence' = fence /\ fence.id # p)
    <3>1. SessionFenceReleaseAuthorized(fence, claim[p]) <=> fence.id = p
      BY <2>1, ReleaseOwn
    <3> QED
      BY <1>6, <3>1 DEF ReleaseSessionFence
  <2> QED
    BY <1>5, <2>1, <2>2
<1>7. ASSUME NEW p \in Producers, NEW a \in BOOLEAN, ReleaseSessionFenceForIdleCompaction(p, a)
      PROVE  FenceInv'
  BY <1>5, <1>7 DEF ReleaseSessionFenceForIdleCompaction, Releasing
<1> QED
  BY <1>1, <1>2, <1>3, <1>4, <1>6, <1>7 DEF Next, vars, docVars, hostVars, clientVars, Tick,
     StartHost, CloseAuthority, Crash, RecoverCompactionReceipts, AcquireSessionFence,
     ReplacePriorHostSessionFence, AppendEvents, UpdateState, IssueIdleCompactionGrant,
     AppendIdleCompactionCheckpoint, RevokeIdleCompaction, FinalizeCompactionReceipt

PlainAppend(k, t) == log' = Append(log, PlainEvent(k, t))

\* The three things a step can do to the log.  An appended event carries no
\* token, or the last one issued.
LEMMA LogStep ==
    ASSUME TypeOK, FenceInv, [Next]_vars
    PROVE  \/ UNCHANGED log
           \/ /\ UNCHANGED <<fence, fenceEpoch, phase>>
              /\ \E k \in {"visible", "journal"}, t \in {0, fenceEpoch} : PlainAppend(k, t)
           \/ \E p \in Producers, c \in Candidates : AppendIdleCompactionCheckpoint(p, c)
<1>1. ASSUME NEW g \in Guards, NEW k \in {"visible", "journal"}, AppendEvents(g, k)
      PROVE  /\ UNCHANGED <<fence, fenceEpoch, phase>>
             /\ \E t \in {0, fenceEpoch} : PlainAppend(k, t)
  <2>1. AuthorizeMutationGuard(fence, g) /\ PlainAppend(k, g.fence.token)
        /\ UNCHANGED <<fence, fenceEpoch, phase>>
    BY <1>1 DEF AppendEvents, authorizeDocumentMutation, clientVars, PlainAppend
  <2>2. g.fence.token \in {0, fenceEpoch}
    BY <2>1, AuthorizedToken DEF FenceInv
  <2> QED
    BY <2>1, <2>2
<1>2. ASSUME NEW h \in Hosts, NEW j \in BOOLEAN, RecoverCompactionReceipts(h, j)
      PROVE  \/ UNCHANGED log
             \/ UNCHANGED <<fence, fenceEpoch, phase>> /\ PlainAppend("journal", 0)
  BY <1>2 DEF RecoverCompactionReceipts, clientVars, PlainAppend
<1>3. ASSUME FinalizeCompactionReceipt
      PROVE  UNCHANGED <<fence, fenceEpoch, phase>> /\ PlainAppend("journal", 0)
  BY <1>3 DEF FinalizeCompactionReceipt, clientVars, PlainAppend
<1> QED
  BY <1>1, <1>2, <1>3 DEF Next, vars, docVars, Tick, StartHost, CloseAuthority, Crash,
     AcquireSessionFence, ReplacePriorHostSessionFence, acquireSessionFence, UpdateState,
     BeginRelease, PrepareIdle, ReleaseSessionFence, ReleaseSessionFenceForIdleCompaction,
     IssueIdleCompactionGrant, RevokeIdleCompaction

\* What an append leaves of the events before it.
LEMMA AppendFacts ==
    ASSUME TypeOK, NEW e, log' = Append(log, e)
    PROVE  /\ Len(log) \in Nat
           /\ DOMAIN log = 1 .. Len(log)
           /\ DOMAIN log' = 1 .. Len(log) + 1
           /\ \A i \in DOMAIN log : log'[i] = log[i]
           /\ log'[Len(log) + 1] = e
  BY DEF TypeOK

\* No step appends a token smaller than one already in the log.
LEMMA NextTokens ==
    ASSUME TypeOK, FenceInv, TokensIssued, StaleProducerNeverWrites, [Next]_vars
    PROVE  TokensIssued' /\ StaleProducerNeverWrites'
<1>0. fenceEpoch \in Nat /\ \A i \in DOMAIN log : log[i].token \in Nat
  <2>1. \A i \in DOMAIN log : log[i] \in Event
    BY DEF TypeOK
  <2> QED
    BY <2>1 DEF TypeOK, Event
<1>1. CASE UNCHANGED log
  <2>1. fenceEpoch' = fenceEpoch \/ fenceEpoch' = fenceEpoch + 1
    BY DEF Next, vars, docVars, Tick, StartHost, CloseAuthority, Crash,
       RecoverCompactionReceipts, AcquireSessionFence, ReplacePriorHostSessionFence,
       acquireSessionFence, AppendEvents, UpdateState, BeginRelease, PrepareIdle,
       ReleaseSessionFence, ReleaseSessionFenceForIdleCompaction, IssueIdleCompactionGrant,
       AppendIdleCompactionCheckpoint, RevokeIdleCompaction, FinalizeCompactionReceipt
  <2> QED
    BY <1>0, <1>1, <2>1 DEF TokensIssued, StaleProducerNeverWrites
<1>2. ASSUME NEW e, log' = Append(log, e), e.token \in {0, fenceEpoch}, fenceEpoch' = fenceEpoch
      PROVE  TokensIssued' /\ StaleProducerNeverWrites'
  <2>1. /\ Len(log) \in Nat
        /\ DOMAIN log = 1 .. Len(log)
        /\ DOMAIN log' = 1 .. Len(log) + 1
        /\ \A i \in DOMAIN log : log'[i] = log[i]
        /\ log'[Len(log) + 1] = e
    BY <1>2, AppendFacts
  <2>2. TokensIssued'
    BY <1>0, <1>2, <2>1 DEF TokensIssued
  <2>3. StaleProducerNeverWrites'
    BY <1>0, <1>2, <2>1 DEF TokensIssued, StaleProducerNeverWrites
  <2> QED
    BY <2>2, <2>3
<1>3. ASSUME NEW k \in {"visible", "journal"}, NEW t \in {0, fenceEpoch}, PlainAppend(k, t),
             fenceEpoch' = fenceEpoch
      PROVE  TokensIssued' /\ StaleProducerNeverWrites'
  BY <1>2, <1>3 DEF PlainAppend, PlainEvent
<1>4. ASSUME NEW p \in Producers, NEW c \in Candidates, AppendIdleCompactionCheckpoint(p, c)
      PROVE  TokensIssued' /\ StaleProducerNeverWrites'
  BY <1>2, <1>4 DEF AppendIdleCompactionCheckpoint, CheckpointEvent
<1> QED
  BY <1>1, <1>3, <1>4, LogStep

\* Once a replacement has written, the producer it replaced cannot: the tokens
\* in the log of any execution never go back (AuthorizeMutationGuard).
THEOREM FencingOrder == Spec => []StaleProducerNeverWrites
<1>1. Init => TypeOK /\ FenceInv /\ TokensIssued /\ StaleProducerNeverWrites
  BY InitTypeOK, InitFenceInv DEF Init, StaleProducerNeverWrites
<1>2. TypeOK /\ FenceInv /\ TokensIssued /\ StaleProducerNeverWrites /\ [Next]_vars
        => (TypeOK /\ FenceInv /\ TokensIssued /\ StaleProducerNeverWrites)'
  BY NextTypeOK, NextFenceInv, NextTokens
<1> QED
  BY <1>1, <1>2, PTL DEF Spec

\* The producer that the held fence names is the only one whose claim is held, and no
\* claim carries a token that was not issued (NewSessionFenceClaim, acquireSessionFence).
THEOREM ClaimsAreExact == Spec => []FenceInv
<1>1. TypeOK /\ FenceInv /\ [Next]_vars => (TypeOK /\ FenceInv)'
  BY NextTypeOK, NextFenceInv
<1> QED
  BY <1>1, InitTypeOK, InitFenceInv, PTL DEF Spec

\* At any time the store accepts the guard of one producer at most.
THEOREM OneWriter == Spec => []OneAuthorizedProducer
<1>1. TypeOK /\ FenceInv => OneAuthorizedProducer
  <2> SUFFICES ASSUME TypeOK, FenceInv, NEW p \in Producers,
                      AuthorizeMutationGuard(fence, RuntimeGuard(claim[p], TRUE))
               PROVE  p = fence.id
    BY DEF OneAuthorizedProducer
  <2>1. SessionFenceIsHeld(fence) /\ fence.id = claim[p].id
    BY DEF AuthorizeMutationGuard, RuntimeGuard, sessionFenceMutationAuthorized
  <2> QED
    BY <2>1 DEF FenceInv, NoFence, SessionFenceIsHeld
<1> QED
  BY <1>1, TypeCorrect, ClaimsAreExact, PTL

-----------------------------------------------------------------------------
(* The idle window *)

\* A revoked window stays out of the way whatever else the step does.
Revoked == idleEpoch' = idleEpoch + 1 /\ window' = Invalidated(window)

\* A grant changes neither whose window it is nor what it was opened on.
SameWindow ==
    /\ idleEpoch' = idleEpoch
    /\ window'.job = window.job /\ window'.source = window.source
    /\ window'.epoch = window.epoch /\ window'.revoked = window.revoked
    /\ window'.consumed = window.consumed

SameVisible == VisibleEvents(log') = VisibleEvents(log) /\ state' = state

\* Journal events are not part of what a prompt is built from, so an append of one
\* leaves the stamp of the source as it was.
LEMMA JournalInvisible ==
    ASSUME TypeOK, NEW t, log' = Append(log, PlainEvent("journal", t)), state' = state
    PROVE  SameVisible
<1>1. /\ Len(log) \in Nat
      /\ DOMAIN log = 1 .. Len(log)
      /\ DOMAIN log' = 1 .. Len(log) + 1
      /\ \A i \in DOMAIN log : log'[i] = log[i]
      /\ log'[Len(log) + 1] = PlainEvent("journal", t)
  BY AppendFacts
<1>2. PlainEvent("journal", t).kind = "journal"
  BY DEF PlainEvent
<1> QED
  BY <1>1, <1>2 DEF SameVisible, VisibleEvents

\* The four things a step can do to the window.
LEMMA WindowStep ==
    ASSUME TypeOK, [Next]_vars
    PROVE  \/ Revoked
           \/ SameWindow /\ SameVisible /\ (fence' = fence \/ fence' = NoFence)
           \/ \E p \in Producers, a \in BOOLEAN :
                /\ ReleaseSessionFenceForIdleCompaction(p, a)
                /\ ReleaseFirst(p)
                /\ idleEpoch' = idleEpoch + 1
                /\ window' = NewWindow(p)
           \/ \E p \in Producers, c \in Candidates : AppendIdleCompactionCheckpoint(p, c)
<1>1. ASSUME UNCHANGED <<fence, idleEpoch, window, log, state>>
      PROVE  SameWindow /\ SameVisible /\ fence' = fence
  BY <1>1 DEF SameWindow, SameVisible
<1>2. Invalidate => Revoked
  BY DEF Invalidate, Revoked
<1>3. ASSUME NEW h \in Hosts, NEW j \in BOOLEAN, RecoverCompactionReceipts(h, j)
      PROVE  Revoked \/ (SameWindow /\ SameVisible /\ fence' = fence)
  <2>1. UNCHANGED <<idleEpoch, window>> => SameWindow
    BY DEF SameWindow
  <2>2. SameVisible /\ fence' = fence
    BY <1>3, JournalInvisible DEF RecoverCompactionReceipts, SameVisible
  <2> QED
    BY <1>2, <1>3, <2>1, <2>2 DEF RecoverCompactionReceipts
<1>4. ASSUME FinalizeCompactionReceipt PROVE SameWindow /\ SameVisible /\ fence' = fence
  BY <1>4, JournalInvisible DEF FinalizeCompactionReceipt, SameWindow
<1>5. ASSUME NEW p \in Producers, NEW c \in Candidates, IssueIdleCompactionGrant(p, c)
      PROVE  SameWindow /\ SameVisible /\ fence' = fence
  <2>1. window' = window \/
        window' = [window EXCEPT !.candidate = c, !.grantExpiresAt = now + GrantTTL]
    BY <1>5 DEF IssueIdleCompactionGrant
  <2> QED
    BY <1>5, <2>1 DEF IssueIdleCompactionGrant, SameWindow, SameVisible, TypeOK, Window
<1>6. ASSUME NEW p \in Producers, NEW a \in BOOLEAN, ReleaseSessionFenceForIdleCompaction(p, a)
      PROVE  \/ SameWindow /\ SameVisible /\ fence' = NoFence
             \/ ReleaseFirst(p) /\ idleEpoch' = idleEpoch + 1 /\ window' = NewWindow(p)
  BY <1>6 DEF ReleaseSessionFenceForIdleCompaction, SameWindow, SameVisible
<1>7. ASSUME NEW p \in Producers, NEW a \in BOOLEAN, ReleaseSessionFence(p, a)
      PROVE  Revoked \/ (SameWindow /\ SameVisible /\ fence' = fence)
  BY <1>1, <1>2, <1>7 DEF ReleaseSessionFence
<1> QED
  BY <1>1, <1>2, <1>3, <1>4, <1>5, <1>6, <1>7 DEF Next, vars, docVars, Tick, StartHost,
     CloseAuthority, Crash, AcquireSessionFence, ReplacePriorHostSessionFence,
     acquireSessionFence, AppendEvents, UpdateState, authorizeDocumentMutation, BeginRelease,
     PrepareIdle, RevokeIdleCompaction

\* A window that was revoked or invalidated is not current.
LEMMA RevokedNotCurrent ==
    ASSUME TypeOK, Revoked
    PROVE  ~WindowCurrent(window', idleEpoch')
<1>1. [window EXCEPT !.revoked = TRUE].revoked = TRUE
  BY DEF TypeOK, Window
<1> QED
  BY <1>1 DEF Revoked, Invalidated, WindowCurrent

\* A step that keeps a window current changes neither its source nor the absence of
\* a fence.
LEMMA NextWindow ==
    ASSUME TypeOK, FenceInv, CurrentWindowExcludesFence, CurrentWindowIsFresh, [Next]_vars
    PROVE  CurrentWindowExcludesFence' /\ CurrentWindowIsFresh'
<1>1. CASE Revoked
  BY <1>1, RevokedNotCurrent DEF CurrentWindowExcludesFence, CurrentWindowIsFresh
<1>2. CASE SameWindow /\ SameVisible /\ (fence' = fence \/ fence' = NoFence)
  <2>1. WindowCurrent(window', idleEpoch') <=> WindowCurrent(window, idleEpoch)
    BY <1>2 DEF SameWindow, WindowCurrent
  <2>2. CheckpointSourceStamp(log', state') = CheckpointSourceStamp(log, state)
    BY <1>2 DEF SameVisible, CheckpointSourceStamp
  <2>3. SessionFenceIsHeld(fence') => SessionFenceIsHeld(fence)
    BY <1>2 DEF SessionFenceIsHeld, NoFence
  <2> QED
    BY <1>2, <2>1, <2>2, <2>3 DEF SameWindow, CurrentWindowExcludesFence, CurrentWindowIsFresh
<1>3. ASSUME NEW p \in Producers, NEW a \in BOOLEAN, ReleaseSessionFenceForIdleCompaction(p, a),
             ReleaseFirst(p), window' = NewWindow(p)
      PROVE  CurrentWindowExcludesFence' /\ CurrentWindowIsFresh'
  <2>1. fence' = NoFence /\ log' = log /\ state' = state
    BY <1>3 DEF ReleaseSessionFenceForIdleCompaction
  <2>2. window'.source = source[p]
    BY <1>3 DEF NewWindow
  <2>3. CheckpointSourceStamp(log, state) = source[p].stamp
    BY <1>3 DEF ReleaseFirst
  <2>4. CheckpointSourceStamp(log', state') = window'.source.stamp
    BY <2>1, <2>2, <2>3
  <2> QED
    BY <2>1, <2>4 DEF CurrentWindowExcludesFence, CurrentWindowIsFresh, SessionFenceIsHeld, NoFence
<1>4. ASSUME NEW p \in Producers, NEW c \in Candidates, AppendIdleCompactionCheckpoint(p, c)
      PROVE  CurrentWindowExcludesFence' /\ CurrentWindowIsFresh'
  <2>1. ~SessionFenceIsHeld(fence) /\ fence' = fence
    BY <1>4 DEF AppendIdleCompactionCheckpoint, ValidateWindow
  <2>2. window'.consumed = TRUE
    BY <1>4 DEF AppendIdleCompactionCheckpoint, TypeOK, Window
  <2> QED
    BY <2>1, <2>2 DEF CurrentWindowExcludesFence, CurrentWindowIsFresh
<1> QED
  BY <1>1, <1>2, <1>3, <1>4, WindowStep

WindowInv == TypeOK /\ FenceInv /\ CurrentWindowExcludesFence /\ CurrentWindowIsFresh

\* The two facts about a current window hold together; each step needs the fence facts.
LEMMA WindowInvariant == Spec => []WindowInv
<1>1. Init => WindowInv
  BY InitTypeOK, InitFenceInv DEF Init, WindowInv, CurrentWindowExcludesFence,
     CurrentWindowIsFresh, WindowCurrent, NoWindow
<1>2. WindowInv /\ [Next]_vars => WindowInv'
  BY NextTypeOK, NextFenceInv, NextWindow DEF WindowInv
<1> QED
  BY <1>1, <1>2, PTL DEF Spec

\* An idle window that counts and a held fence exclude each other, which is why
\* the replayed handoff (idleTransaction) may clear the fence unconditionally.
THEOREM WindowExcludesFence == Spec => []CurrentWindowExcludesFence
  BY WindowInvariant, PTL DEF WindowInv

\* No path of the store changes what a prompt is built from and leaves the idle
\* window of an earlier source standing (authorizeDocumentMutation, Invalidate).
THEOREM WindowIsFresh == Spec => []CurrentWindowIsFresh
  BY WindowInvariant, PTL DEF WindowInv

-----------------------------------------------------------------------------
(* Checkpoints *)

\* No producer starts over.
LEMMA PhaseNeverNewAgain ==
    ASSUME TypeOK, [Next]_vars, NEW q \in Producers, phase[q] # "new"
    PROVE  phase'[q] # "new"
<1>1. ASSUME NEW p \in Producers, NEW v \in Phases \ {"new"}, phase' = [phase EXCEPT ![p] = v]
      PROVE  phase'[q] # "new"
  BY <1>1 DEF TypeOK
<1>2. CASE phase' = phase
  BY <1>2
<1> QED
  BY <1>1, <1>2 DEF Next, vars, docVars, hostVars, clientVars, Tick, StartHost, CloseAuthority,
     Crash, RecoverCompactionReceipts, AcquireSessionFence, ReplacePriorHostSessionFence,
     acquireSessionFence, AppendEvents, UpdateState, BeginRelease, PrepareIdle,
     ReleaseSessionFence, ReleaseSessionFenceForIdleCompaction, Answer,
     IssueIdleCompactionGrant, AppendIdleCompactionCheckpoint, RevokeIdleCompaction,
     FinalizeCompactionReceipt, Phases

\* A fence changes hands only to a producer that is new.
LEMMA FenceStep ==
    ASSUME TypeOK, [Next]_vars
    PROVE  \/ fence' = fence
           \/ fence' = NoFence
           \/ fence'.id \in Producers /\ phase[fence'.id] = "new"
<1>1. ASSUME NEW p \in Producers, NEW h \in Hosts, NEW r \in BOOLEAN, acquireSessionFence(p, h, r)
      PROVE  fence'.id \in Producers /\ phase[fence'.id] = "new"
  BY <1>1 DEF acquireSessionFence, NewSessionFenceClaim
<1> QED
  BY <1>1 DEF Next, vars, docVars, hostVars, clientVars, Tick, StartHost, CloseAuthority,
     Crash, RecoverCompactionReceipts, AcquireSessionFence, ReplacePriorHostSessionFence,
     AppendEvents, UpdateState, BeginRelease, PrepareIdle,
     ReleaseSessionFence, ReleaseSessionFenceForIdleCompaction,
     IssueIdleCompactionGrant, AppendIdleCompactionCheckpoint, RevokeIdleCompaction,
     FinalizeCompactionReceipt

\* A job that gave its fence up does not get it back.
LEMMA FenceNeverBack ==
    ASSUME TypeOK, [Next]_vars, NEW q \in Producers, phase[q] # "new", fence.id # q
    PROVE  fence'.id # q
  BY FenceStep, NoneAssumption DEF NoFence

\* What JobInv says of the window.
WindowJob ==
    /\ window.epoch <= idleEpoch
    /\ window.job # None =>
        /\ phase[window.job] # "new"
        /\ fence.id # window.job
        /\ window.source.endSeq \in window.source.stamp.visible

\* What JobInv says of the event at position i.
EventJob(i) ==
    log[i].kind = "checkpoint" =>
        /\ log[i].job \in Producers
        /\ phase[log[i].job] # "new"
        /\ fence.id # log[i].job
        /\ window.job = log[i].job => window.consumed

\* JobInv, split by the window and by each event of the log.
LEMMA JobInvParts == JobInv <=> WindowJob /\ \A i \in DOMAIN log : EventJob(i)
  BY DEF JobInv, WindowJob, EventJob

\* The same split, of the next state.
LEMMA JobInvPartsPrime == JobInv' <=> WindowJob' /\ \A i \in DOMAIN log' : EventJob(i)'
  BY DEF JobInv, WindowJob, EventJob

\* Invalidated changes only what makes the window current.
LEMMA InvalidatedFields ==
    ASSUME TypeOK
    PROVE  /\ Invalidated(window).job = window.job
           /\ Invalidated(window).source = window.source
           /\ Invalidated(window).epoch = window.epoch
           /\ Invalidated(window).consumed = window.consumed
           /\ Invalidated(window).candidate = window.candidate
           /\ Invalidated(window).grantExpiresAt = window.grantExpiresAt
  BY DEF TypeOK, Invalidated, Window

\* The steps that keep the job of the window.
LEMMA SameJobStep ==
    ASSUME TypeOK, [Next]_vars, JobInv,
           window'.job = window.job, window'.source = window.source,
           window'.epoch = window.epoch, idleEpoch' \in {idleEpoch, idleEpoch + 1}
    PROVE  WindowJob'
<1>1. window.job \in Producers \cup {None} /\ window.epoch \in Nat /\ idleEpoch \in Nat
  BY DEF TypeOK, Window
<1>2. window'.epoch <= idleEpoch'
  BY <1>1 DEF JobInv
<1>3. ASSUME window'.job # None
      PROVE  /\ phase'[window'.job] # "new" /\ fence'.id # window'.job
             /\ window'.source.endSeq \in window'.source.stamp.visible
  BY <1>1, <1>3, PhaseNeverNewAgain, FenceNeverBack DEF JobInv
<1> QED
  BY <1>2, <1>3 DEF WindowJob

\* The window always belongs to a job that has left its fence.
LEMMA NextWindowJob ==
    ASSUME TypeOK, FenceInv, JobInv, [Next]_vars
    PROVE  WindowJob'
<1>1. CASE Revoked
  BY <1>1, SameJobStep, InvalidatedFields DEF Revoked
<1>2. CASE SameWindow
  BY <1>2, SameJobStep DEF SameWindow
<1>3. ASSUME NEW p \in Producers, NEW a \in BOOLEAN, ReleaseSessionFenceForIdleCompaction(p, a),
             ReleaseFirst(p), idleEpoch' = idleEpoch + 1, window' = NewWindow(p)
      PROVE  WindowJob'
  <2>1. window'.job = p /\ window'.source = source[p] /\ window'.epoch = idleEpoch'
    BY <1>3 DEF NewWindow
  <2>2. phase[p] # "new" /\ fence' = NoFence
    BY <1>3 DEF ReleaseSessionFenceForIdleCompaction, Releasing
  <2>3. phase'[p] # "new" /\ fence'.id # p
    BY <2>2, PhaseNeverNewAgain, NoneAssumption DEF NoFence
  <2>4. source[p].endSeq \in source[p].stamp.visible
    BY <1>3 DEF ReleaseFirst
  <2>5. idleEpoch' <= idleEpoch'
    BY <1>3 DEF TypeOK
  <2> QED
    BY <2>1, <2>3, <2>4, <2>5 DEF WindowJob
<1>4. ASSUME NEW p \in Producers, NEW c \in Candidates, AppendIdleCompactionCheckpoint(p, c)
      PROVE  WindowJob'
  <2>1. window' = [window EXCEPT !.consumed = TRUE] /\ idleEpoch' = idleEpoch
    BY <1>4 DEF AppendIdleCompactionCheckpoint
  <2>2. window'.job = window.job /\ window'.source = window.source /\ window'.epoch = window.epoch
    BY <2>1 DEF TypeOK, Window
  <2> QED
    BY <2>1, <2>2, SameJobStep
<1> QED
  BY <1>1, <1>2, <1>3, <1>4, WindowStep

\* How the window's job and consumption can change.
LEMMA ConsumedStep ==
    ASSUME TypeOK, FenceInv, [Next]_vars
    PROVE  \/ window'.job = window.job /\ (window.consumed => window'.consumed)
           \/ window'.job = fence.id /\ SessionFenceIsHeld(fence)
<1>1. CASE Revoked
  BY <1>1, InvalidatedFields DEF Revoked
<1>2. CASE SameWindow
  BY <1>2 DEF SameWindow
<1>3. ASSUME NEW p \in Producers, NEW a \in BOOLEAN, ReleaseSessionFenceForIdleCompaction(p, a),
             ReleaseFirst(p), window' = NewWindow(p)
      PROVE  window'.job = fence.id /\ SessionFenceIsHeld(fence)
  <2>1. phase[p] # "new"
    BY <1>3 DEF ReleaseSessionFenceForIdleCompaction, Releasing
  <2>2. fence.id = p
    BY <1>3, <2>1, ReleaseOwn DEF ReleaseFirst
  <2> QED
    BY <1>3, <2>2, NoneAssumption DEF NewWindow, SessionFenceIsHeld
<1>4. ASSUME NEW p \in Producers, NEW c \in Candidates, AppendIdleCompactionCheckpoint(p, c)
      PROVE  window'.job = window.job /\ window'.consumed
  BY <1>4 DEF AppendIdleCompactionCheckpoint, TypeOK, Window
<1> QED
  BY <1>1, <1>2, <1>3, <1>4, WindowStep

\* What is known of the job of a logged checkpoint stays true.
LEMMA OldEventJob ==
    ASSUME TypeOK, FenceInv, [Next]_vars, NEW i \in DOMAIN log, EventJob(i), log'[i] = log[i]
    PROVE  EventJob(i)'
<1> SUFFICES ASSUME log[i].kind = "checkpoint"
             PROVE  /\ log[i].job \in Producers
                    /\ phase'[log[i].job] # "new"
                    /\ fence'.id # log[i].job
                    /\ window'.job = log[i].job => window'.consumed
  BY DEF EventJob
<1>1. /\ log[i].job \in Producers
      /\ phase[log[i].job] # "new"
      /\ fence.id # log[i].job
      /\ window.job = log[i].job => window.consumed
  BY DEF EventJob
<1>2. phase'[log[i].job] # "new" /\ fence'.id # log[i].job
  BY <1>1, PhaseNeverNewAgain, FenceNeverBack
<1> QED
  BY <1>1, <1>2, ConsumedStep

\* What a checkpoint step finds and leaves.
LEMMA CheckpointStep ==
    ASSUME TypeOK, FenceInv, JobInv, NEW p \in Producers, NEW c \in Candidates,
           AppendIdleCompactionCheckpoint(p, c)
    PROVE  /\ log' = Append(log, CheckpointEvent(p, c))
           /\ window.job = p /\ ~window.consumed
           /\ window'.job = p /\ window'.consumed
           /\ UNCHANGED <<fence, phase>>
           /\ window.source.stamp.visible = VisibleEvents(log)
           /\ window.source.endSeq \in window.source.stamp.visible
<1>1. /\ log' = Append(log, CheckpointEvent(p, c))
      /\ window' = [window EXCEPT !.consumed = TRUE]
      /\ ValidateWindow(p)
      /\ UNCHANGED <<fence, phase>>
  BY DEF AppendIdleCompactionCheckpoint, clientVars
<1>2. window.job = p /\ ~window.consumed /\ CheckpointSourceStamp(log, state) = window.source.stamp
  BY <1>1 DEF ValidateWindow
<1>3. window'.job = p /\ window'.consumed
  BY <1>1, <1>2 DEF TypeOK, Window
<1>4. window.source.stamp.visible = VisibleEvents(log)
  BY <1>2 DEF CheckpointSourceStamp
<1>5. window.source.endSeq \in window.source.stamp.visible
  BY <1>2, NoneAssumption DEF JobInv
<1> QED
  BY <1>1, <1>2, <1>3, <1>4, <1>5

\* Every step keeps the job of the window, and of each checkpoint, spent.
LEMMA NextJobInv ==
    ASSUME TypeOK, FenceInv, JobInv, [Next]_vars
    PROVE  JobInv'
<1>0. \A i \in DOMAIN log : EventJob(i)
  BY JobInvParts
<1>1. CASE UNCHANGED log
  BY <1>0, <1>1, OldEventJob, NextWindowJob, JobInvPartsPrime
<1>2. ASSUME NEW e, log' = Append(log, e),
             e.kind = "checkpoint" =>
                /\ e.job \in Producers
                /\ phase'[e.job] # "new"
                /\ fence'.id # e.job
                /\ window'.job = e.job => window'.consumed
      PROVE  JobInv'
  <2>1. /\ Len(log) \in Nat
        /\ DOMAIN log = 1 .. Len(log)
        /\ DOMAIN log' = 1 .. Len(log) + 1
        /\ \A i \in DOMAIN log : log'[i] = log[i]
        /\ log'[Len(log) + 1] = e
    BY <1>2, AppendFacts
  <2>2. \A i \in DOMAIN log : EventJob(i)'
    BY <1>0, <2>1, OldEventJob
  <2>3. ASSUME NEW n, n = Len(log) + 1 PROVE EventJob(n)'
    BY <1>2, <2>1, <2>3 DEF EventJob
  <2>4. \A i \in DOMAIN log' : i \in DOMAIN log \/ i = Len(log) + 1
    BY <2>1
  <2> QED
    BY <2>2, <2>3, <2>4, NextWindowJob, JobInvPartsPrime
<1>3. ASSUME NEW k \in {"visible", "journal"}, NEW t \in {0, fenceEpoch}, PlainAppend(k, t)
      PROVE  JobInv'
  BY <1>2, <1>3 DEF PlainAppend, PlainEvent
<1>4. ASSUME NEW p \in Producers, NEW c \in Candidates, AppendIdleCompactionCheckpoint(p, c)
      PROVE  JobInv'
  <2>1. /\ log' = Append(log, CheckpointEvent(p, c))
        /\ window.job = p /\ window'.job = p /\ window'.consumed
        /\ UNCHANGED <<fence, phase>>
    BY <1>4, CheckpointStep
  <2>2. phase[p] # "new" /\ fence.id # p
    BY <2>1, NoneAssumption DEF JobInv
  <2>3. CheckpointEvent(p, c).job = p
    BY DEF CheckpointEvent
  <2> QED
    BY <1>2, <2>1, <2>2, <2>3
<1> QED
  BY <1>1, <1>3, <1>4, LogStep

\* A checkpoint is appended only by a window that is current, so it covers its source and
\* no other checkpoint has its job.
LEMMA NextCheckpoints ==
    ASSUME TypeOK, FenceInv, JobInv, OneCheckpointPerJob, CheckpointCoversSource, [Next]_vars
    PROVE  OneCheckpointPerJob' /\ CheckpointCoversSource'
<1>1. CASE UNCHANGED log
  BY <1>1 DEF OneCheckpointPerJob, CheckpointCoversSource, VisibleEvents
<1>2. ASSUME NEW e, log' = Append(log, e),
             e.kind = "checkpoint" =>
                /\ \A i \in DOMAIN log : log[i].kind = "checkpoint" => log[i].job # e.job
                /\ e.source = VisibleEvents(log) /\ e.summarizedThrough \in e.source
      PROVE  OneCheckpointPerJob' /\ CheckpointCoversSource'
  <2>1. /\ Len(log) \in Nat
        /\ DOMAIN log = 1 .. Len(log)
        /\ DOMAIN log' = 1 .. Len(log) + 1
        /\ \A i \in DOMAIN log : log'[i] = log[i]
        /\ log'[Len(log) + 1] = e
    BY <1>2, AppendFacts
  <2>2. OneCheckpointPerJob'
    <3> SUFFICES ASSUME NEW i \in DOMAIN log', NEW j \in DOMAIN log',
                        log'[i].kind = "checkpoint", log'[j].kind = "checkpoint",
                        log'[i].job = log'[j].job
                 PROVE  i = j
      BY DEF OneCheckpointPerJob
    <3>1. CASE i \in DOMAIN log /\ j \in DOMAIN log
      BY <2>1, <3>1 DEF OneCheckpointPerJob
    <3>2. CASE i = Len(log) + 1 /\ j \in DOMAIN log
      BY <1>2, <2>1, <3>2
    <3>3. CASE i \in DOMAIN log /\ j = Len(log) + 1
      BY <1>2, <2>1, <3>3
    <3> QED
      BY <2>1, <3>1, <3>2, <3>3
  <2>3. \A i \in DOMAIN log' : {j \in VisibleEvents(log') : j < i} = {j \in VisibleEvents(log) : j < i}
    BY <2>1 DEF VisibleEvents
  <2>4. {j \in VisibleEvents(log) : j < Len(log) + 1} = VisibleEvents(log)
    BY <2>1 DEF VisibleEvents
  <2>5. ASSUME NEW i \in DOMAIN log', log'[i].kind = "checkpoint"
        PROVE  /\ log'[i].source = {j \in VisibleEvents(log') : j < i}
               /\ log'[i].summarizedThrough \in log'[i].source
    <3>1. CASE i \in DOMAIN log
      BY <2>1, <2>3, <2>5, <3>1 DEF CheckpointCoversSource
    <3>2. CASE i = Len(log) + 1
      BY <1>2, <2>1, <2>3, <2>4, <2>5, <3>2
    <3> QED
      BY <2>1, <3>1, <3>2
  <2> QED
    BY <2>2, <2>5 DEF CheckpointCoversSource
<1>3. ASSUME NEW k \in {"visible", "journal"}, NEW t \in {0, fenceEpoch}, PlainAppend(k, t)
      PROVE  OneCheckpointPerJob' /\ CheckpointCoversSource'
  BY <1>2, <1>3 DEF PlainAppend, PlainEvent
<1>4. ASSUME NEW p \in Producers, NEW c \in Candidates, AppendIdleCompactionCheckpoint(p, c)
      PROVE  OneCheckpointPerJob' /\ CheckpointCoversSource'
  <2> DEFINE e == CheckpointEvent(p, c)
  <2>1. /\ log' = Append(log, e)
        /\ window.job = p /\ ~window.consumed
        /\ window.source.stamp.visible = VisibleEvents(log)
        /\ window.source.endSeq \in window.source.stamp.visible
    BY <1>4, CheckpointStep
  <2>2. e.source = VisibleEvents(log) /\ e.summarizedThrough \in e.source /\ e.job = p
    BY <2>1 DEF CheckpointEvent
  <2>3. \A i \in DOMAIN log : log[i].kind = "checkpoint" => log[i].job # p
    BY <2>1 DEF JobInv
  <2> HIDE DEF e
  <2> QED
    BY <1>2, <2>1, <2>2, <2>3
<1> QED
  BY <1>1, <1>3, <1>4, LogStep

CheckpointInv ==
    TypeOK /\ FenceInv /\ JobInv /\ OneCheckpointPerJob /\ CheckpointCoversSource

\* The facts about checkpoints need the facts about the window and its job.
LEMMA CheckpointInvariant == Spec => []CheckpointInv
<1>1. Init => CheckpointInv
  BY InitTypeOK, InitFenceInv DEF Init, CheckpointInv, JobInv, OneCheckpointPerJob,
     CheckpointCoversSource, NoWindow
<1>2. CheckpointInv /\ [Next]_vars => CheckpointInv'
  BY NextTypeOK, NextFenceInv, NextJobInv, NextCheckpoints DEF CheckpointInv
<1> QED
  BY <1>1, <1>2, PTL DEF Spec

\* A checkpoint stands for exactly the visible events before it: nothing that
\* was written after the handoff is swallowed (ValidateWindow, ValidateAppend).
THEOREM CheckpointsCoverTheirSource == Spec => []CheckpointCoversSource
  BY CheckpointInvariant, PTL DEF CheckpointInv

\* Whatever is retried, a job appends one checkpoint at most.
THEOREM CheckpointsAreUnique == Spec => []OneCheckpointPerJob
  BY CheckpointInvariant, PTL DEF CheckpointInv

-----------------------------------------------------------------------------
(* What a step may never do *)

\* What the step that empties the fence slot must have been.
LEMMA FenceLeaves ==
    ASSUME WindowInv, [Next]_vars, SessionFenceIsHeld(fence), fence' # fence
    PROVE  \/ fence' = NoFence /\ phase[fence.id] = "releasing"
           \/ fence'.owner = authority /\ fence'.owner # fence.owner /\ fence'.token > fence.token
<1> USE DEF WindowInv
<1>1. ASSUME NEW p \in Producers, NEW h \in Hosts, acquireSessionFence(p, h, TRUE), authority = h
      PROVE  fence'.owner = authority /\ fence'.owner # fence.owner /\ fence'.token > fence.token
  <2>1. fence'.owner = h /\ fence.owner # h /\ fence'.token = fenceEpoch + 1
    BY <1>1 DEF acquireSessionFence, NewSessionFenceClaim
  <2>2. fence.token = fenceEpoch /\ fenceEpoch \in Nat
    BY DEF FenceInv, TypeOK
  <2> QED
    BY <1>1, <2>1, <2>2
<1>2. ASSUME NEW p \in Producers, NEW h \in Hosts, acquireSessionFence(p, h, FALSE) PROVE FALSE
  BY <1>2 DEF acquireSessionFence
<1>3. ASSUME NEW p \in Producers, NEW a \in BOOLEAN, ReleaseSessionFence(p, a)
      PROVE  fence' = NoFence /\ phase[fence.id] = "releasing"
  <2>1. phase[p] = "releasing"
    BY <1>3 DEF ReleaseSessionFence, Releasing
  <2>2. SessionFenceReleaseAuthorized(fence, claim[p]) /\ fence' = NoFence
    BY <1>3 DEF ReleaseSessionFence
  <2> QED
    BY <2>1, <2>2, ReleaseOwn
<1>4. ASSUME NEW p \in Producers, NEW a \in BOOLEAN, ReleaseSessionFenceForIdleCompaction(p, a)
      PROVE  fence' = NoFence /\ phase[fence.id] = "releasing"
  <2>1. phase[p] = "releasing" /\ fence' = NoFence /\ (ReleaseReplay(p) \/ ReleaseFirst(p))
    BY <1>4 DEF ReleaseSessionFenceForIdleCompaction, Releasing
  <2>2. ~ReleaseReplay(p)
    BY DEF ReleaseReplay, CurrentWindowExcludesFence
  <2>3. SessionFenceReleaseAuthorized(fence, claim[p])
    BY <2>1, <2>2 DEF ReleaseFirst
  <2> QED
    BY <2>1, <2>3, ReleaseOwn
<1> QED
  BY <1>1, <1>2, <1>3, <1>4 DEF Next, vars, docVars, hostVars, clientVars, Tick, StartHost,
     CloseAuthority, Crash, RecoverCompactionReceipts, AcquireSessionFence,
     ReplacePriorHostSessionFence, AppendEvents, UpdateState, BeginRelease, PrepareIdle,
     IssueIdleCompactionGrant, AppendIdleCompactionCheckpoint, RevokeIdleCompaction,
     FinalizeCompactionReceipt

\* A held fence leaves the document only after its own producer began to
\* release, or is replaced by the Host that holds the authority lock: a late,
\* retried or replayed release never frees the fence of a successor.
THEOREM ExactRelease == Spec => FenceLeavesOnlyByItsOwner
<1>1. WindowInv /\ [Next]_vars =>
        [SessionFenceIsHeld(fence) /\ fence' # fence =>
            \/ /\ fence' = NoFence
               /\ phase[fence.id] = "releasing"
            \/ /\ fence'.owner = authority
               /\ fence'.owner # fence.owner
               /\ fence'.token > fence.token]_vars
  BY FenceLeaves
<1> QED
  BY <1>1, WindowInvariant, PTL DEF Spec, FenceLeavesOnlyByItsOwner

\* Asking again for a grant never changes its payload or extends its deadline
\* (IssueGrant), for as long as the window is that of the same job.
THEOREM GrantsAreFixed == Spec => GrantNeverRenewed
<1>1. TypeOK /\ [Next]_vars =>
        [window.candidate # None /\ window'.job = window.job =>
            /\ window'.candidate = window.candidate
            /\ window'.grantExpiresAt = window.grantExpiresAt]_vars
  <2> SUFFICES ASSUME TypeOK, Next, window.candidate # None, window'.job = window.job
               PROVE  /\ window'.candidate = window.candidate
                      /\ window'.grantExpiresAt = window.grantExpiresAt
    BY DEF vars, docVars
  <2>1. CASE window' = Invalidated(window)
    BY <2>1, InvalidatedFields
  <2>2. ASSUME NEW p \in Producers, NEW c \in Candidates, AppendIdleCompactionCheckpoint(p, c)
        PROVE  /\ window'.candidate = window.candidate
               /\ window'.grantExpiresAt = window.grantExpiresAt
    BY <2>2 DEF AppendIdleCompactionCheckpoint, TypeOK, Window
  <2>3. ASSUME NEW p \in Producers, NEW a \in BOOLEAN, ReleaseSessionFenceForIdleCompaction(p, a)
        PROVE  window' = window
    BY <2>3 DEF ReleaseSessionFenceForIdleCompaction, ReleaseFirst, NewWindow
  <2> QED
    BY <2>1, <2>2, <2>3 DEF Next, docVars, hostVars, clientVars, Tick, StartHost,
       CloseAuthority, Crash, RecoverCompactionReceipts, AcquireSessionFence,
       ReplacePriorHostSessionFence, acquireSessionFence, AppendEvents, UpdateState,
       authorizeDocumentMutation, Invalidate, BeginRelease, PrepareIdle, ReleaseSessionFence,
       IssueIdleCompactionGrant, RevokeIdleCompaction, FinalizeCompactionReceipt
<1> QED
  BY <1>1, TypeCorrect, PTL DEF Spec, GrantNeverRenewed

=============================================================================

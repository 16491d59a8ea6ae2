-------------------------- MODULE OperationLedger --------------------------
(***************************************************************************)
(* Control commands and their durable receipts                             *)
(* (control/appserver/command_service.go, operation_store_sqlite.go,       *)
(* operation_store_retention.go, operation_read.go): an intent is written  *)
(* before the effect and its result after it, so that a command retried    *)
(* under one operation ID has one effect.                                  *)
(*                                                                         *)
(* The ledger is addressed by (principal, operation ID); this is one       *)
(* address and the callers that use it, the Host that may die, and the     *)
(* sweep that reclaims expired receipts.                                   *)
(***************************************************************************)
EXTENDS Naturals, Sequences, FiniteSets

CONSTANTS
    Callers,        \* requests in flight
    Requests,       \* what the operation ID is used for (Action and Digest)
    Kind,           \* Requests -> "plain", "recoverable" or "transactional"
    Retentions,     \* terminal retentions a Host can be configured with
    CompletionTimeout, \* operationCompletionTimeout (5 s)
    Inherited,      \* <<version, result>> of the records an earlier release may have left
    None,
    MaxClock,       \* bound on the wall clock
    MaxAdmit        \* bound on the intents admitted

Kinds == {"plain", "recoverable", "transactional"}

ASSUME LedgerAssumption ==
    /\ Kind \in [Requests -> Kinds]
    /\ Retentions \subseteq Nat \ {0} /\ Retentions # {}
    /\ CompletionTimeout \in Nat /\ \A d \in Retentions : CompletionTimeout < d
    /\ MaxClock \in Nat /\ MaxAdmit \in Nat

VARIABLES
    row,        \* the OperationRecord of the address, or None
    gate,       \* the holder of its operationExecutionGate, in this Host
    policy,     \* the persisted terminal retention
    clock,
    caller,     \* caller -> where it is in execute or Operation
    sweeping,   \* the row the sweep has read as expired
    admitted,   \* history: the request of each intent, in order of creation
    applied,    \* history: admission -> how often its effect happened
    answers     \* history: admission -> {<<request, outcome>>} answered from it

vars == <<row, gate, policy, clock, caller, sweeping, admitted, applied, answers>>

Outcomes == {"accepted", "committed", "conflicted", "rejected", "unknown"}

\* n stands for Intent.CreatedAt, which tells two intents of one request apart.
\* ver: "legacy" is version 0, which has no retention of its own, "forever" has the
\* flag RetainForever; at: UpdatedAt.
Record == [n : 1 .. MaxAdmit, req : Requests, ver : {"legacy", "forever", "current"},
           ret : Retentions \cup {0}, result : Outcomes \cup {None}, at : Nat]

\* since: when the context of the completion was made.
NoCall == [pc |-> "idle", mode |-> "execute", req |-> None, snap |-> None, result |-> None,
           since |-> 0]

\* How often the effect of an inherited record can have happened.  Version 0 wrote
\* "rejected" for every error.
Effects(ver, o) ==
    IF o \in {"committed", "accepted"} THEN {1}
    ELSE IF o \in {None, "unknown"} \/ (ver = "legacy" /\ o = "rejected") THEN {0, 1}
    ELSE {0}

Init ==
    /\ gate = None /\ sweeping = None
    /\ policy \in Retentions
    /\ clock = 0
    /\ caller = [c \in Callers |-> NoCall]
    /\ \/ row = None /\ admitted = <<>> /\ applied = <<>> /\ answers = <<>>
       \/ \E r \in Requests, i \in Inherited : \E k \in Effects(i[1], i[2]) :
            /\ row = [n |-> 1, req |-> r, ver |-> i[1], ret |-> 0, result |-> i[2], at |-> 0]
            /\ admitted = <<r>> /\ applied = <<k>> /\ answers = <<{}>>

terminalOperationOutcome(o) == o \in {"committed", "conflicted", "rejected"}

operationRecordHasReclaimableTerminalOutcome(r) ==
    /\ r.ver # "forever" /\ terminalOperationOutcome(r.result)
    /\ r.ver # "legacy" \/ r.result # "rejected"

operationRecordRetentionDeadline(r) == r.at + IF r.ret > 0 THEN r.ret ELSE policy

\* classifyOperationRecord: the receipt may be forgotten.
Expired(r) ==
    /\ r # None /\ operationRecordHasReclaimableTerminalOutcome(r)
    /\ clock >= operationRecordRetentionDeadline(r)

\* A receipt of version 0 gets the retention of the present policy.
materializeTerminalRetention(r) ==
    IF r.ver = "legacy" /\ operationRecordHasReclaimableTerminalOutcome(r)
    THEN [r EXCEPT !.ver = "current", !.ret = policy] ELSE r

-----------------------------------------------------------------------------
(* Replies.  The execution gate is released on every way out. *)

Goto(c, pc) == caller' = [caller EXCEPT ![c].pc = pc]

\* Mutant: a caller that goes away keeps the gate.
ForgetLease(c) == gate' = gate

ReleaseLease(c) == gate' = IF gate = c THEN None ELSE gate

\* An answer from the receipt of admission n.
ReplyFrom(c, n, o) ==
    /\ caller' = [caller EXCEPT ![c] = NoCall]
    /\ ReleaseLease(c)
    /\ answers' = [answers EXCEPT ![n] = @ \cup {<<caller[c].req, o>>}]

\* An answer that promises nothing: unknown, conflicted or not found.
ReplyNothing(c) ==
    /\ caller' = [caller EXCEPT ![c] = NoCall]
    /\ ReleaseLease(c)
    /\ UNCHANGED answers

-----------------------------------------------------------------------------
(* Admission *)

\* CommandService.execute: the gate is for commands whose result can be proven.
execute(c, r) ==
    /\ caller[c].pc = "idle"
    /\ caller' = [caller EXCEPT ![c] =
        [NoCall EXCEPT !.req = r, !.pc = IF Kind[r] = "recoverable" THEN "gate" ELSE "load"]]
    /\ UNCHANGED <<row, gate, policy, clock, sweeping, admitted, applied, answers>>

\* CommandService.Operation reads the receipt; an intent without one is worth
\* the gate when its result can be proven.
Operation(c) ==
    /\ caller[c].pc = "idle" /\ row # None /\ row.result = None
    /\ Kind[row.req] = "recoverable"
    /\ caller' = [caller EXCEPT ![c] = [NoCall EXCEPT !.req = row.req, !.mode = "observe", !.pc = "gate"]]
    /\ UNCHANGED <<row, gate, policy, clock, sweeping, admitted, applied, answers>>

AcquireExecution(c) ==
    /\ caller[c].pc = "gate" /\ gate = None
    /\ gate' = c
    /\ Goto(c, "load")
    /\ UNCHANGED <<row, policy, clock, sweeping, admitted, applied, answers>>

\* The context ends while waiting, or the ledger fails.
Fails(c) ==
    /\ caller[c].pc \in {"gate", "load", "loaded", "recover", "complete", "completing", "late"}
    /\ ReplyNothing(c)
    /\ UNCHANGED <<row, policy, clock, sweeping, admitted, applied>>

loadOperationRecord(c) ==
    /\ caller[c].pc = "load"
    /\ caller' = [caller EXCEPT ![c].snap = row, ![c].pc = "loaded",
        ![c].req = IF caller[c].mode = "observe" /\ row # None THEN row.req ELSE @]
    /\ UNCHANGED <<row, gate, policy, clock, sweeping, admitted, applied, answers>>

\* INSERT OR IGNORE: the caller that inserts the intent dispatches it.  At the
\* bound MaxAdmit the insert fails.
insertOperationRecord(c) ==
    /\ caller[c].pc = "loaded" /\ caller[c].mode = "execute" /\ caller[c].snap = None
    /\ IF row # None
       THEN UNCHANGED <<row, gate, admitted, applied, answers>> /\ Goto(c, "load")
       ELSE IF Len(admitted) = MaxAdmit
       THEN UNCHANGED <<row, admitted, applied>> /\ ReplyNothing(c)
       ELSE /\ row' = [n |-> Len(admitted) + 1, req |-> caller[c].req, ver |-> "current",
                       ret |-> policy, result |-> None, at |-> clock]
            /\ admitted' = Append(admitted, caller[c].req)
            /\ applied' = Append(applied, 0)
            /\ answers' = Append(answers, {})
            /\ caller' = [caller EXCEPT ![c].snap = row', ![c].pc = "dispatch"]
            /\ UNCHANGED gate
    /\ UNCHANGED <<policy, clock, sweeping>>

\* A caller that finds an expired receipt makes room for its own intent.
deleteExpired(c) ==
    /\ caller[c].pc = "loaded" /\ caller[c].mode = "execute" /\ Expired(caller[c].snap)
    /\ row' = IF row = caller[c].snap THEN None ELSE row
    /\ Goto(c, "load")
    /\ UNCHANGED <<gate, policy, clock, sweeping, admitted, applied, answers>>

\* Begin writes the deadline it gives to a receipt of version 0.
Materialize(c) ==
    LET s == caller[c].snap  m == materializeTerminalRetention(s) IN
    /\ caller[c].pc = "loaded" /\ caller[c].mode = "execute"
    /\ s # None /\ ~Expired(s) /\ m # s
    /\ IF row = s THEN row' = m /\ caller' = [caller EXCEPT ![c].snap = m]
                  ELSE UNCHANGED row /\ Goto(c, "load")
    /\ UNCHANGED <<gate, policy, clock, sweeping, admitted, applied, answers>>

sameOperationIntent(r, c) == r.req = caller[c].req

\* Mutant: an intent without a result is dispatched again.
Redispatch(c) ==
    LET s == caller[c].snap IN
    /\ caller[c].pc = "loaded" /\ s # None /\ ~Expired(s)
    /\ caller[c].mode = "execute" => materializeTerminalRetention(s) = s
    /\ IF ~sameOperationIntent(s, c) THEN ReplyNothing(c)
       ELSE IF s.result # None THEN ReplyFrom(c, s.n, s.result)
       ELSE Goto(c, "dispatch") /\ UNCHANGED <<gate, answers>>
    /\ UNCHANGED <<row, policy, clock, sweeping, admitted, applied>>

\* The operation is known: conflict, its receipt, or an intent without one.
Found(c) ==
    LET s == caller[c].snap IN
    /\ caller[c].pc = "loaded" /\ s # None /\ ~Expired(s)
    /\ caller[c].mode = "execute" => materializeTerminalRetention(s) = s
    /\ IF ~sameOperationIntent(s, c) THEN ReplyNothing(c)
       ELSE IF s.result # None THEN ReplyFrom(c, s.n, s.result)
       ELSE IF Kind[s.req] = "recoverable" THEN Goto(c, "recover") /\ UNCHANGED <<gate, answers>>
       ELSE ReplyNothing(c)
    /\ UNCHANGED <<row, policy, clock, sweeping, admitted, applied>>

\* An observer finds nothing retained.
NotFound(c) ==
    /\ caller[c].pc = "loaded" /\ caller[c].mode = "observe"
    /\ caller[c].snap = None \/ Expired(caller[c].snap)
    /\ ReplyNothing(c)
    /\ UNCHANGED <<row, policy, clock, sweeping, admitted, applied>>

-----------------------------------------------------------------------------
(* Effects *)

monotonicOperationTime(r) == IF clock < r.at THEN r.at ELSE clock

\* A record that completes is of the current version; its deadline follows from at
\* and ret, if its outcome is terminal.
Stored(r, o) ==
    LET n == [r EXCEPT !.result = o, !.at = monotonicOperationTime(r)] IN
    IF r.ver = "forever" THEN n
    ELSE [n EXCEPT !.ver = "current", !.ret = IF @ = 0 THEN policy ELSE @]

\* Mutant: an unclassified backend error means rejected.
ErrorIsRejection(did) == "rejected"

\* resultForBackendError: an error the backend did not classify proves nothing.
resultForBackendError(did) == "unknown"

\* What ExecuteControlCommand reports of an effect that did or did not happen.
Reported(did) ==
    {resultForBackendError(did)} \cup (IF did THEN {"committed", "accepted"} ELSE {"rejected", "conflicted"})

\* The backend has returned; operationCompletionContext starts.
Completing(c, o) ==
    caller' = [caller EXCEPT ![c].result = o, ![c].pc = "complete", ![c].since = clock]

\* ExecuteControlCommand.  A transactional effect and its receipt are one
\* commit, whatever is reported afterwards.
ExecuteControlCommand(c, did, o) ==
    LET s == caller[c].snap  tx == Kind[s.req] = "transactional" IN
    /\ caller[c].pc = "dispatch"
    /\ o \in Reported(did) /\ (tx => o # "accepted")
    /\ applied' = [applied EXCEPT ![s.n] = @ + IF did THEN 1 ELSE 0]
    /\ row' = IF tx /\ did /\ row # None /\ row.n = s.n /\ row.result = None
              THEN Stored(row, "committed") ELSE row
    /\ Completing(c, o)
    /\ UNCHANGED <<gate, policy, clock, sweeping, admitted, answers>>

\* The domain's own records prove the effect.
Proven(c) == applied[caller[c].snap.n] > 0

RecoverControlCommand(c) ==
    /\ caller[c].pc = "recover"
    /\ IF Proven(c)
       THEN Completing(c, "committed") /\ UNCHANGED <<gate, answers>>
       ELSE ReplyNothing(c)
    /\ UNCHANGED <<row, policy, clock, sweeping, admitted, applied>>

-----------------------------------------------------------------------------
(* Completion: load, then compare and swap *)

\* A row that is gone or belongs to another request is a conflict.
CompleteLoad(c) ==
    /\ caller[c].pc = "complete"
    /\ IF row = None \/ row.req # caller[c].req THEN ReplyNothing(c)
       ELSE /\ caller' = [caller EXCEPT ![c].snap = row, ![c].pc = "completing"]
            /\ UNCHANGED <<gate, answers>>
    /\ UNCHANGED <<row, policy, clock, sweeping, admitted, applied>>

\* Mutant: the caller is told before the receipt is written.
ReplyFirst(c) ==
    LET s == caller[c].snap  o == caller[c].result IN
    /\ caller[c].pc = "completing"
    /\ row' = IF row = s /\ s.result = None THEN Stored(row, o) ELSE row
    /\ ReplyFrom(c, s.n, o)
    /\ UNCHANGED <<policy, clock, sweeping, admitted, applied>>

completeIn(c) ==
    LET s == caller[c].snap  o == caller[c].result IN
    /\ caller[c].pc = "completing"
    /\ IF s.result # None
       THEN IF s.result = o THEN ReplyFrom(c, s.n, o) /\ UNCHANGED row
                            ELSE ReplyNothing(c) /\ UNCHANGED row
       ELSE IF row = s
       THEN row' = Stored(row, o) /\ ReplyFrom(c, s.n, o)
       ELSE Goto(c, "complete") /\ UNCHANGED <<row, gate, answers>>
    /\ UNCHANGED <<policy, clock, sweeping, admitted, applied>>

-----------------------------------------------------------------------------
(* The sweep, the clock and the Host *)

\* The query wants a written deadline, which a row of version 0 does not have.
Sweep ==
    /\ sweeping = None /\ Expired(row) /\ row.ver # "legacy"
    /\ sweeping' = row
    /\ UNCHANGED <<row, gate, policy, clock, caller, admitted, applied, answers>>

\* Mutant: the row is deleted by its address.
DeleteByKey ==
    /\ sweeping # None
    /\ row' = None
    /\ sweeping' = None
    /\ UNCHANGED <<gate, policy, clock, caller, admitted, applied, answers>>

deleteOperationRecordCAS ==
    /\ sweeping # None
    /\ row' = IF row = sweeping THEN None ELSE row
    /\ sweeping' = None
    /\ UNCHANGED <<gate, policy, clock, caller, admitted, applied, answers>>

\* The clock moves, and can be set back.  The context of a completion that takes
\* longer than its timeout is over.
Tick ==
    /\ clock' \in 0 .. MaxClock /\ clock' # clock
    /\ caller' = [c \in Callers |->
        IF /\ caller[c].pc \in {"complete", "completing"}
           /\ clock' > caller[c].since + CompletionTimeout
        THEN [caller[c] EXCEPT !.pc = "late"] ELSE caller[c]]
    /\ UNCHANGED <<row, gate, policy, sweeping, admitted, applied, answers>>

\* The Host dies and starts again, perhaps with another retention.
Restart ==
    /\ policy' \in Retentions
    /\ caller' = [c \in Callers |-> NoCall]
    /\ gate' = None /\ sweeping' = None
    /\ UNCHANGED <<row, clock, admitted, applied, answers>>

-----------------------------------------------------------------------------
CallerStep(c) ==
    \/ AcquireExecution(c) \/ loadOperationRecord(c) \/ insertOperationRecord(c)
    \/ deleteExpired(c) \/ Materialize(c) \/ Found(c) \/ NotFound(c) \/ RecoverControlCommand(c)
    \/ \E did \in BOOLEAN, o \in Outcomes : ExecuteControlCommand(c, did, o)
    \/ CompleteLoad(c) \/ completeIn(c)

Next ==
    \/ \E c \in Callers :
        \/ \E r \in Requests : execute(c, r)
        \/ Operation(c) \/ Fails(c) \/ CallerStep(c)
    \/ Sweep \/ deleteOperationRecordCAS \/ Tick \/ Restart

Spec == Init /\ [][Next]_vars

-----------------------------------------------------------------------------
(* Properties *)

\* Every variable has its type; the row is the newest admission, and a current one
\* has a retention of its own (validateOperationRecord).
TypeOK ==
    /\ row \in Record \cup {None}
    /\ gate \in Callers \cup {None}
    /\ policy \in Retentions /\ clock \in 0 .. MaxClock
    /\ DOMAIN applied = DOMAIN admitted /\ DOMAIN answers = DOMAIN admitted
    /\ row # None => /\ row.n = Len(admitted) /\ row.req = admitted[row.n]
                     /\ row.ret > 0 <=> row.ver = "current"

\* One effect per admitted intent, and one caller that dispatches it: a retry
\* never repeats the effect of an operation the ledger still knows.
AtMostOnce ==
    /\ \A n \in DOMAIN applied : applied[n] <= 1
    /\ Cardinality({c \in Callers : caller[c].pc = "dispatch"}) <= 1

\* A receipt says what happened: committed only if the effect did, rejected or
\* conflicted only if it did not, unless version 0 wrote it.
ReceiptIsTrue ==
    row # None =>
        /\ row.result \in {"committed", "accepted"} => applied[row.n] = 1
        /\ row.result \in {"rejected", "conflicted"} /\ row.ver # "legacy" => applied[row.n] = 0

\* Whoever was told an outcome was told what the ledger holds: a retry of the
\* same operation gets the same answer.
AnswerIsReceipt ==
    row # None => \A a \in answers[row.n] : a[2] = row.result

\* A receipt answers only the request that it was written for.
OwnReceiptOnly ==
    \A n \in DOMAIN answers : \A a \in answers[n] : a[1] = admitted[n]

\* The execution gate is held by a call that still runs, so whoever waits for it
\* gets it when that call returns; and whoever proves an effect holds it.
GateIsLive ==
    /\ gate # None => caller[gate].pc \notin {"idle", "gate"}
    /\ \A c \in Callers : caller[c].pc = "recover" => gate = c

\* The ledger and its gate after every step of execute, Operation and the sweep.
LedgerInv == TypeOK /\ OwnReceiptOnly /\ GateIsLive

\* An effect that may have happened, or was promised to be remembered: an intent or an
\* outcome that proves nothing, a rejection of version 0, a permanent record.
MustStay(r) ==
    \/ r.result \in {None, "accepted", "unknown"}
    \/ r.ver = "legacy" /\ r.result = "rejected"
    \/ r.ver = "forever"

\* A result, once recorded, is never replaced; and a record that is all that prevents
\* a second effect is never forgotten, whatever the sweep had seen before.
LedgerNeverForgets ==
    [][row # None =>
        /\ MustStay(row) => row' # None /\ row'.n = row.n
        /\ row.result # None /\ row' # None /\ row'.n = row.n => row'.result = row.result]_vars

=============================================================================

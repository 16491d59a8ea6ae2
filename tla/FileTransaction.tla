-------------------------- MODULE FileTransaction --------------------------
(***************************************************************************)
(* The write-ahead transactions of the Session file store                  *)
(* (agent-sdk/session/file/transaction.go, store.go, event_log.go,         *)
(* document.go): a root marker, one WAL file per document, an event log, a *)
(* document and an index entry, written one file operation at a time by    *)
(* processes that share the root lock.                                     *)
(*                                                                         *)
(* Every file operation can fail, a process can die between any two of     *)
(* them, and a power failure can undo what was not yet synced.             *)
(***************************************************************************)
EXTENDS Naturals, Sequences

CONSTANTS
    Procs,      \* processes that open the store
    Sessions,   \* documents
    None,
    Batches,    \* bound: how many events a write with events has
    MaxTxn,     \* bound on the writes that are started
    MaxOutage   \* bound on power failures

ASSUME BoundAssumption ==
    Batches \subseteq Nat \ {0} /\ MaxTxn \in Nat /\ MaxOutage \in Nat

VARIABLES
    fs,         \* the file system as the processes see it
    disk,       \* what a power failure can leave of it
    lock,       \* the holder of the exclusive root lock
    proc,       \* process -> its operation
    hist,       \* the writes started, in order
    report,     \* what each of them returned to its caller
    outages     \* power failures so far

vars == <<fs, disk, lock, proc, hist, report, outages>>

\* A document: its Session revision, the sequence of its last event, and the
\* write whose content it has.
NoDoc == [rev |-> 0, len |-> 0, by |-> 0]
NoTxn == [s |-> None, id |-> 0, doc |-> NoDoc, events |-> <<>>, wal |-> FALSE, wraps |-> FALSE]

\* A write of session s with k events that continue the document's sequence.
\* wal: it is a transaction; wraps: its caller turns an error after the commit
\* into a session.CommittedError.
Txn(s, k, wal, wraps) ==
    LET id == Len(hist) + 1  d == fs.doc[s] IN
    [s |-> s, id |-> id, doc |-> [rev |-> d.rev + 1, len |-> d.len + k, by |-> id],
     events |-> [i \in 1 .. k |-> [id |-> id, seq |-> d.len + i]], wal |-> wal, wraps |-> wraps]

\* init: storeRootLock.recoveryInitialized; rec: the step belongs to recovery.
Idle == [pc |-> "idle", init |-> FALSE, rec |-> FALSE, t |-> NoTxn, base |-> 0]

Init ==
    /\ fs = [marker |-> FALSE, wal |-> [s \in Sessions |-> NoTxn],
             log |-> [s \in Sessions |-> <<>>], torn |-> [s \in Sessions |-> FALSE],
             doc |-> [s \in Sessions |-> NoDoc], idx |-> [s \in Sessions |-> 0]]
    /\ disk = [dir |-> [s \in Sessions |-> {<<NoTxn, NoDoc>>}],
               log |-> [s \in Sessions |-> {<<>>}]]
    /\ lock = None
    /\ proc = [p \in Procs |-> Idle]
    /\ hist = <<>>
    /\ report = <<>>
    /\ outages = 0

At(p, pc) == proc[p].pc = pc /\ lock = p
Goto(p, pc) == proc' = [proc EXCEPT ![p].pc = pc]

\* The WAL and the document of s are names in one directory.  Its changes reach
\* the disk in order; a sync forces them out.
Renamed(s) == disk' = [disk EXCEPT !.dir[s] = @ \cup {<<fs'.wal[s], fs'.doc[s]>>}]
DirSynced(s) == disk' = [disk EXCEPT !.dir[s] = {<<fs.wal[s], fs.doc[s]>>}]

\* Any part of the lines of an append can reach the disk before a sync does.
Appended(s) ==
    disk' = [disk EXCEPT !.log[s] = @ \cup {SubSeq(fs'.log[s], 1, n) : n \in Len(fs.log[s]) .. Len(fs'.log[s])}]

-----------------------------------------------------------------------------
(* withRootLockContext *)

\* Mutant: a process that has recovered once trusts itself.
RecoverOnce(p) == ~proc[p].init

NeedsRecovery(p) == ~proc[p].init \/ fs.marker

Open(p) ==
    /\ proc[p].pc = "idle" /\ lock = None
    /\ lock' = p
    /\ proc' = [proc EXCEPT ![p].pc = IF NeedsRecovery(p) THEN "recover" ELSE "open",
                            ![p].rec = NeedsRecovery(p)]
    /\ UNCHANGED <<fs, disk, hist, report, outages>>

\* A read, or a write that decides not to write.
Close(p) ==
    /\ At(p, "open")
    /\ lock' = None
    /\ Goto(p, "idle")
    /\ UNCHANGED <<fs, disk, hist, report, outages>>

\* recoverTransactions: the next committed WAL, or the marker when none is left.
recoverTransactions(p) ==
    /\ At(p, "recover")
    /\ \/ \E s \in Sessions :
            /\ fs.wal[s] # NoTxn
            /\ proc' = [proc EXCEPT ![p].pc = "append", ![p].t = fs.wal[s]]
       \/ (\A s \in Sessions : fs.wal[s] = NoTxn) /\ Goto(p, "unmark")
    /\ UNCHANGED <<fs, disk, lock, hist, report, outages>>

-----------------------------------------------------------------------------
(* Writes *)

Begin(p, t, pc) ==
    /\ At(p, "open")
    /\ Len(hist) < MaxTxn
    /\ hist' = Append(hist, t)
    /\ report' = Append(report, "none")
    /\ proc' = [proc EXCEPT ![p].pc = pc, ![p].t = t]
    /\ UNCHANGED <<fs, disk, lock, outages>>

StartSession(p, s) == fs.doc[s] = NoDoc /\ Begin(p, Txn(s, 0, TRUE, TRUE), "mark")

\* With events a transaction.  Without, the document is replaced directly and the
\* error of that is returned as it is; BindController does the same.
writeDocumentWithEvents(p, s, k) ==
    /\ fs.doc[s] # NoDoc
    /\ IF k = 0 THEN Begin(p, Txn(s, 0, FALSE, FALSE), "doc")
                ELSE Begin(p, Txn(s, k, TRUE, TRUE), "mark")

\* The other callers of writeDocument turn its late errors into a CommittedError.
writeDocument(p, s) == fs.doc[s] # NoDoc /\ Begin(p, Txn(s, 0, FALSE, TRUE), "doc")

\* The marker is synced before the WAL is written.
markTransactionRecoveryPending(p) ==
    /\ At(p, "mark")
    /\ fs' = [fs EXCEPT !.marker = TRUE]
    /\ Goto(p, "rename")
    /\ UNCHANGED <<disk, lock, hist, report, outages>>

\* The rename of the synced temporary file is the commit.
writeTransaction(p) ==
    LET t == proc[p].t IN
    /\ At(p, "rename")
    /\ fs' = [fs EXCEPT !.wal[t.s] = t]
    /\ Renamed(t.s)
    /\ Goto(p, "syncWal")
    /\ UNCHANGED <<lock, hist, report, outages>>

SyncWal(p) ==
    /\ At(p, "syncWal")
    /\ DirSynced(proc[p].t.s)
    /\ Goto(p, "append")
    /\ UNCHANGED <<fs, lock, hist, report, outages>>

-----------------------------------------------------------------------------
(* applyTransaction *)

\* The sequence of the last complete line.
throughSeq(l) == IF l = <<>> THEN 0 ELSE l[Len(l)].seq

\* Mutant: recovery appends the whole batch again.
AllEvents(l, t) == t.events

\* The events of t that the complete lines of the log lack.
Missing(l, t) == SelectSeq(t.events, LAMBDA e : \A i \in DOMAIN l : l[i] # e)

\* Recovery without an index of the log reads its tail and accepts it when what it
\* has of t is the same, and the rest continues it.
FromTail(l, t) ==
    /\ \A i \in DOMAIN l, j \in DOMAIN t.events : l[i].seq = t.events[j].seq => l[i] = t.events[j]
    /\ Missing(l, t) # <<>> => Missing(l, t)[1].seq = throughSeq(l) + 1

\* Whoever has an index or the decoded log compares event IDs only.  An ID stands
\* for one content here, so that this comparison never finds a conflict.
Accepted(l, t, indexed) == indexed \/ FromTail(l, t)

\* An append starts by cutting off what is behind the last complete line.
truncatePartialEventLogTail(f, s) == [f EXCEPT !.torn[s] = FALSE]

appendMissingTransactionEvents(p, indexed) ==
    LET t == proc[p].t IN
    /\ At(p, "append") /\ Accepted(fs.log[t.s], t, indexed)
    /\ IF Missing(fs.log[t.s], t) = <<>>
       THEN UNCHANGED <<fs, disk>> /\ Goto(p, "doc")
       ELSE /\ fs' = [truncatePartialEventLogTail(fs, t.s) EXCEPT !.log[t.s] = @ \o Missing(@, t)]
            /\ Appended(t.s)
            /\ proc' = [proc EXCEPT ![p].pc = "syncLog", ![p].base = Len(fs.log[t.s])]
    /\ UNCHANGED <<lock, hist, report, outages>>

\* The write stops after n of the lines, perhaps inside the next; the process
\* dies, or its rollback fails.
AppendPart(p, n, torn, indexed) ==
    LET t == proc[p].t IN
    /\ At(p, "append") /\ Accepted(fs.log[t.s], t, indexed)
    /\ n < Len(Missing(fs.log[t.s], t))
    /\ fs' = [fs EXCEPT !.log[t.s] = @ \o SubSeq(Missing(@, t), 1, n), !.torn[t.s] = torn]
    /\ Appended(t.s)
    /\ Goto(p, "failed")
    /\ UNCHANGED <<lock, hist, report, outages>>

\* Mutant: the log is not synced.
SyncLogNot(p) == At(p, "syncLog") /\ Goto(p, "doc") /\ UNCHANGED <<fs, disk, lock, hist, report, outages>>

\* SyncFile and SyncDirectory at the end of appendEventLogTransaction.
SyncLog(p) ==
    LET s == proc[p].t.s IN
    /\ At(p, "syncLog")
    /\ disk' = [disk EXCEPT !.log[s] = {fs.log[s]}, !.dir[s] = {<<fs.wal[s], fs.doc[s]>>}]
    /\ Goto(p, "doc")
    /\ UNCHANGED <<fs, lock, hist, report, outages>>

\* The sync fails; the append is undone, and the undo synced.
rollbackEventLogAppend(p) ==
    LET s == proc[p].t.s IN
    /\ At(p, "syncLog")
    /\ fs' = [fs EXCEPT !.log[s] = SubSeq(@, 1, proc[p].base)]
    /\ disk' = [disk EXCEPT !.log[s] = {fs'.log[s]}]
    /\ Goto(p, "failed")
    /\ UNCHANGED <<lock, hist, report, outages>>

writeDocumentInternal(p) ==
    LET t == proc[p].t IN
    /\ At(p, "doc")
    /\ fs' = [fs EXCEPT !.doc[t.s] = t.doc]
    /\ Renamed(t.s)
    /\ Goto(p, "syncDoc")
    /\ UNCHANGED <<lock, hist, report, outages>>

SyncDoc(p) ==
    /\ At(p, "syncDoc")
    /\ DirSynced(proc[p].t.s)
    /\ Goto(p, "index")
    /\ UNCHANGED <<fs, lock, hist, report, outages>>

Return(p, r) ==
    /\ lock' = None
    /\ proc' = [proc EXCEPT ![p] = [Idle EXCEPT !.init = proc[p].init]]
    /\ report' = IF proc[p].rec THEN report ELSE [report EXCEPT ![proc[p].t.id] = r]

\* upsertSessionIndex: one SQLite transaction.
upsertSessionIndex(p) ==
    LET t == proc[p].t IN
    /\ At(p, "index")
    /\ fs' = [fs EXCEPT !.idx[t.s] = t.doc.rev]
    /\ IF t.wal THEN Goto(p, "unlink") /\ UNCHANGED <<lock, report>> ELSE Return(p, "ok")
    /\ UNCHANGED <<disk, hist, outages>>

Unlink(p) ==
    /\ At(p, "unlink")
    /\ fs' = [fs EXCEPT !.wal[proc[p].t.s] = NoTxn]
    /\ Renamed(proc[p].t.s)
    /\ Goto(p, "syncUnlink")
    /\ UNCHANGED <<lock, hist, report, outages>>

SyncUnlink(p) ==
    /\ At(p, "syncUnlink")
    /\ DirSynced(proc[p].t.s)
    /\ Goto(p, IF proc[p].rec THEN "recover" ELSE "unmark")
    /\ UNCHANGED <<fs, lock, hist, report, outages>>

clearTransactionRecoveryMarker(p) ==
    /\ At(p, "unmark")
    /\ fs' = [fs EXCEPT !.marker = FALSE]
    /\ Goto(p, "syncUnmark")
    /\ UNCHANGED <<disk, lock, hist, report, outages>>

\* The end of a write, or of the recovery in front of an operation.
SyncUnmark(p) ==
    /\ At(p, "syncUnmark")
    /\ IF proc[p].rec
       THEN /\ proc' = [proc EXCEPT ![p] = [Idle EXCEPT !.pc = "open", !.init = TRUE]]
            /\ UNCHANGED <<lock, report>>
       ELSE Return(p, "ok")
    /\ UNCHANGED <<fs, disk, hist, outages>>

-----------------------------------------------------------------------------
(* Failures *)

\* Mutant: no caller of writeDocument looks at what kind of error it is.
OutcomeUnwrapped(p) ==
    IF proc[p].pc \in {"mark", "rename"} \/ ~proc[p].t.wal THEN "error" ELSE "committed"

\* Mutant: every error of a write that was prepared counts as committed.
AlwaysCommitted(p) == "committed"

\* An error before the rename of the WAL, or of the document where there is no
\* WAL, is an ordinary error; later it is a CommittedError, if the caller wraps it.
Outcome(p) ==
    IF \/ proc[p].pc \in {"mark", "rename"}
       \/ ~proc[p].t.wal /\ (proc[p].pc = "doc" \/ ~proc[p].t.wraps)
    THEN "error" ELSE "committed"

\* The next file operation fails.  A failed marker may still be there.
Fail(p) ==
    /\ lock = p /\ proc[p].pc \notin {"idle", "open"}
    /\ Return(p, Outcome(p))
    /\ fs' \in {fs} \cup IF proc[p].pc = "mark" THEN {[fs EXCEPT !.marker = TRUE]} ELSE {}
    /\ UNCHANGED <<disk, hist, outages>>

\* The process dies; another starts in its place.
Crash(p) ==
    /\ proc[p] # Idle
    /\ proc' = [proc EXCEPT ![p] = Idle]
    /\ lock' = IF lock = p THEN None ELSE lock
    /\ UNCHANGED <<fs, disk, hist, report, outages>>

\* The machine loses what was not synced.  The index is SQLite's own business,
\* and the marker only matters to a process that is still running.
PowerFailure ==
    /\ outages < MaxOutage /\ outages' = outages + 1
    /\ \E d \in [Sessions -> UNION {disk.dir[s] : s \in Sessions}],
          l \in [Sessions -> UNION {disk.log[s] : s \in Sessions}] :
        /\ \A s \in Sessions : d[s] \in disk.dir[s] /\ l[s] \in disk.log[s]
        /\ fs' = [fs EXCEPT !.wal = [s \in Sessions |-> d[s][1]],
                            !.doc = [s \in Sessions |-> d[s][2]], !.log = l]
        /\ disk' = [dir |-> [s \in Sessions |-> {d[s]}], log |-> [s \in Sessions |-> {l[s]}]]
    /\ lock' = None
    /\ proc' = [p \in Procs |-> Idle]
    /\ UNCHANGED <<hist, report>>

-----------------------------------------------------------------------------
Write(p) ==
    \/ markTransactionRecoveryPending(p) \/ writeTransaction(p) \/ SyncWal(p)
    \/ (\E indexed \in BOOLEAN : appendMissingTransactionEvents(p, indexed)) \/ SyncLog(p)
    \/ writeDocumentInternal(p) \/ SyncDoc(p) \/ upsertSessionIndex(p)
    \/ Unlink(p) \/ SyncUnlink(p) \/ clearTransactionRecoveryMarker(p) \/ SyncUnmark(p)

Next ==
    \/ \E p \in Procs :
        \/ Open(p) \/ Close(p) \/ recoverTransactions(p) \/ Write(p)
        \/ \E s \in Sessions :
            \/ StartSession(p, s) \/ writeDocument(p, s)
            \/ \E k \in {0} \cup Batches : writeDocumentWithEvents(p, s, k)
        \/ \E n \in 0 .. 1, torn \in BOOLEAN, indexed \in BOOLEAN : AppendPart(p, n, torn, indexed)
        \/ rollbackEventLogAppend(p) \/ Fail(p) \/ Crash(p)
    \/ PowerFailure

Spec == Init /\ [][Next]_vars

-----------------------------------------------------------------------------
(* Properties *)

Pcs == {"idle", "recover", "open", "mark", "rename", "syncWal", "append", "syncLog", "failed",
        "doc", "syncDoc", "index", "unlink", "syncUnlink", "unmark", "syncUnmark"}

\* Every variable has its type, one process at most is inside the lock, and a
\* log line is an event of a write that was started.
TypeOK ==
    /\ lock \in Procs \cup {None}
    /\ \A p \in Procs : proc[p].pc \in Pcs /\ (proc[p].pc # "idle" => lock = p)
    /\ DOMAIN report = DOMAIN hist
    /\ \A i \in DOMAIN report : report[i] \in {"none", "ok", "committed", "error"}
    /\ \A s \in Sessions :
        /\ \A i \in DOMAIN fs.log[s] : fs.log[s][i].id \in DOMAIN hist
        /\ <<fs.wal[s], fs.doc[s]>> \in disk.dir[s] /\ fs.log[s] \in disk.log[s]
    /\ outages \in 0 .. MaxOutage

Holds(l, t) == \A i \in DOMAIN t.events : \E j \in DOMAIN l : l[j] = t.events[i]

\* A write that returned nil survives any crash and any power failure: its
\* events and its document are in everything the disk can hold.
AckedIsDurable ==
    \A i \in DOMAIN hist : report[i] = "ok" =>
        /\ \A l \in disk.log[hist[i].s] : Holds(l, hist[i])
        /\ \A d \in disk.dir[hist[i].s] : d[2].rev >= hist[i].doc.rev

\* A write that returned a CommittedError is there, or its WAL is, and no
\* process crash takes it away.
CommittedIsThere ==
    \A i \in DOMAIN hist : report[i] = "committed" /\ outages = 0 =>
        \/ fs.wal[hist[i].s] = hist[i]
        \/ Holds(fs.log[hist[i].s], hist[i]) /\ fs.doc[hist[i].s].rev >= hist[i].doc.rev

\* Nothing of write t is in the files, nor in what a power failure can make of them.
NoTrace(t) ==
    /\ \A d \in disk.dir[t.s] : d[1].id # t.id /\ d[2].by # t.id
    /\ \A l \in disk.log[t.s] : \A j \in DOMAIN l : l[j].id # t.id

\* A write that returned an ordinary error left nothing behind - no WAL, no event, no
\* document, now or after any crash and recovery: the caller may prepare another one.
\* This is promised by the callers that look at the error.  bindControllerRequest and
\* writeDocumentWithEvents without events hand it on: theirs can be an error after
\* the document was replaced, which session.IsCommitted does not recognise.
FailedLeavesNoTrace ==
    \A i \in DOMAIN hist : report[i] = "error" /\ hist[i].wraps => NoTrace(hist[i])

\* Whoever holds the lock past recovery sees documents and logs that agree: no
\* committed WAL is pending, and the log has the document's events, each once.
\* After a power failure this can fail, see RecoveredIsSynced; what still holds
\* is that a Session that exists can be looked up in the index.
OpenIsConsistent ==
    \A p \in Procs, s \in Sessions : proc[p].pc = "open" =>
        /\ fs.doc[s] # NoDoc => fs.idx[s] > 0
        /\ outages = 0 =>
            /\ fs.wal[s] = NoTxn
            /\ ~fs.torn[s]
            /\ Len(fs.log[s]) = fs.doc[s].len
            /\ \A i \in DOMAIN fs.log[s] : fs.log[s][i].seq = i

\* A committed WAL can always be applied: no process crash leaves a log that
\* contradicts it.
RecoveryNeverConflicts ==
    outages = 0 => \A s \in Sessions : fs.wal[s] # NoTxn => FromTail(fs.log[s], fs.wal[s])

\* The store is well formed, and its WALs can be applied.
StoreInv == TypeOK /\ RecoveryNeverConflicts

\* What the package comment promises (doc.go): updates are durable.  Past
\* recovery, every event the document counts is synced.
RecoveredIsSynced ==
    \A p \in Procs, s \in Sessions : proc[p].pc = "open" =>
        \A l \in disk.log[s] : Len(l) = fs.doc[s].len

=============================================================================

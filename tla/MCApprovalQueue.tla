-------------------------- MODULE MCApprovalQueue --------------------------
EXTENDS ApprovalQueue

CONSTANTS r1, r2, r3, c1, c2, c3, s1, o1, o2

\* r1 and r2 are the approvals of two calls of one model step, r2 a subagent's;
\* r3 is asked by another Turn outside any step.
MCCall == [r \in Requests |-> CASE r = r1 -> c1 [] r = r2 -> c2 [] OTHER -> c3]
MCStep == [c \in Calls |-> IF c = c3 THEN None ELSE s1]
MCOwner == [r \in Requests |-> IF r = r3 THEN o2 ELSE o1]

\* r1 and r2 are asked in either mode, r3 is a question to the user.
UserLast == [r \in Requests |-> IF r = r3 THEN {"manual"} ELSE {"manual", "auto"}]

\* r1 opens a cohort, r3 is asked in either mode.
CohortFirst == [r \in Requests |-> IF r = r3 THEN {"manual", "auto"} ELSE {"auto"}]

\* The first Turn is cancelled and the second closed; or the first finishes.
CancelAndClose == [o \in Owners |-> IF o = o1 THEN {"cancelled"} ELSE {"closed"}]
FinishFirst == [o \in Owners |-> IF o = o1 THEN {"finished"} ELSE {}]

=============================================================================

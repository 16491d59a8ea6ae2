------------------------- MODULE MCOperationLedger -------------------------
EXTENDS OperationLedger, TLC

CONSTANTS c1, c2, create, configure, prompt

\* One request of each kind competes for the operation ID.
KindAll == create :> "recoverable" @@ configure :> "transactional" @@ prompt :> "plain"

\* What version 0 and permanent records can leave behind.
LegacyRecords == {<<"legacy", "committed">>, <<"legacy", "rejected">>, <<"legacy", None>>,
                  <<"forever", "committed">>, <<"forever", None>>}

Symmetry == Permutations(Callers)

=============================================================================

------------------------- MODULE MCRunnerSubmission -------------------------
EXTENDS RunnerSubmission

CONSTANTS c1, c2

=============================================================================

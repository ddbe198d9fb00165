--------------------------- MODULE MCFoldRecovery ---------------------------
EXTENDS FoldRecovery

=============================================================================

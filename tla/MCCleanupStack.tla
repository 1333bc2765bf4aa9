-------------------------- MODULE MCCleanupStack --------------------------
EXTENDS CleanupStack

CONSTANTS x, y
=============================================================================

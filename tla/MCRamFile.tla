----------------------------- MODULE MCRamFile -----------------------------
EXTENDS RamFile, TLC

CONSTANTS h1, h2

Perms == Permutations(Handle)
=============================================================================

------------------------------ MODULE MCRamFs ------------------------------
(* RamFs for TLC: entries, blocks and names are interchangeable.           *)
EXTENDS RamFs, TLC

Perms == Permutations(Entry) \cup Permutations(Block) \cup Permutations(Name)
=============================================================================

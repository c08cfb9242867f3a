------------------------- MODULE MCInventoryEntries -------------------------
(* InventoryEntries on small instances: an entry that exists and one to come. *)
EXTENDS InventoryEntries, TLC

Interchangeable == Permutations(Entries)
=============================================================================

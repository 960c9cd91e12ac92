----------------------------- MODULE MCEntryEditor -----------------------------
(* EntryEditor on small instances: requests are alike.                       *)
EXTENDS EntryEditor, TLC

MCSymmetry == Permutations(Calls)
=============================================================================

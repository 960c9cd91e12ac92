---------------------------- MODULE MCRitualMirror ----------------------------
(* RitualMirror on small instances.                                         *)
EXTENDS RitualMirror
=============================================================================

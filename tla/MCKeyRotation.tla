----------------------------- MODULE MCKeyRotation -----------------------------
(* KeyRotation on small instances: the first rows are in the first table, the *)
(* last one in the second.                                                    *)
EXTENDS KeyRotation

MCRows  == 1 .. 3
MCTable == [r \in MCRows |-> IF r = 3 THEN 2 ELSE 1]
=============================================================================

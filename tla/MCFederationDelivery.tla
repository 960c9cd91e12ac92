------------------------- MODULE MCFederationDelivery -------------------------
(* FederationDelivery on small instances, without symmetry: it is unsound for *)
(* liveness.                                                                  *)
EXTENDS FederationDelivery
=============================================================================

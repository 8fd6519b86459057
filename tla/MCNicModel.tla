----------------------------- MODULE MCNicModel -----------------------------
(* NicModel on small instances; the constants are in the cfg files. *)
EXTENDS NicModel
=============================================================================

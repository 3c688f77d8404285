-------------------------- MODULE MCMaterialRefine --------------------------
(***************************************************************************)
(* Small instances of MaterialRefine.  A tick is 40 s: a refine lasts one  *)
(* tick at most and the lease of 120 s is three.                           *)
(***************************************************************************)
EXTENDS MaterialRefine

=============================================================================

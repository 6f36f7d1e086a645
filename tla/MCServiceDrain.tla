--------------------------- MODULE MCServiceDrain ---------------------------
(***************************************************************************)
(* Instances of ServiceDrain.                                              *)
(***************************************************************************)
EXTENDS ServiceDrain
=============================================================================

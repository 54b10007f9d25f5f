--------------------------- MODULE MCLayerPipeline ---------------------------
(***************************************************************************)
(* Instances of LayerPipeline for TLC.                                     *)
(***************************************************************************)
EXTENDS LayerPipeline
=============================================================================

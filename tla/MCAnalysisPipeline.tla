------------------------- MODULE MCAnalysisPipeline -------------------------
(* Instances of AnalysisPipeline for model checking. *)
EXTENDS AnalysisPipeline
=============================================================================

-------------------------- MODULE MCMediaPipeline --------------------------
(* Small instances of MediaPipeline for the model checker.                  *)
EXTENDS MediaPipeline
=============================================================================

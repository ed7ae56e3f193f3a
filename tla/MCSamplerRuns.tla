--------------------------- MODULE MCSamplerRuns ---------------------------
(* Instance of SamplerRuns for TLC; the bounds are in Sampler.cfg. *)
EXTENDS SamplerRuns
=============================================================================

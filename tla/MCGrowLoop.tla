----------------------------- MODULE MCGrowLoop -----------------------------
(* 2^31 is 1024 and 64 MB are 32, in their proportion; a request may be 1 GB. *)
EXTENDS GrowLoop
=============================================================================

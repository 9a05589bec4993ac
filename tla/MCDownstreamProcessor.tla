------------------------- MODULE MCDownstreamProcessor -------------------------
(* Instances of DownstreamProcessor for TLC. *)
EXTENDS DownstreamProcessor
===============================================================================

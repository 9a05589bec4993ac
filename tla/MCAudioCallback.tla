--------------------------- MODULE MCAudioCallback ---------------------------
(* Instances of AudioCallback for TLC. *)
EXTENDS AudioCallback
===============================================================================

----------------------------- MODULE MCMainWindow -----------------------------
(* Instances of MainWindow for TLC. *)
EXTENDS MainWindow
===============================================================================

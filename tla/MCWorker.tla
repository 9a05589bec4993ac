------------------------------- MODULE MCWorker -------------------------------
(* Instances of Worker for TLC. *)
EXTENDS WorkerOwners, Integers

Desktops == {Desktop}

(* The command line client over TCP, with a working duration and for ever. *)
Owners == {Desktop, SanityCheck, CommandLine(60, FALSE), CommandLine(-1, FALSE)}
===============================================================================

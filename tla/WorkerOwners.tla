----------------------------- MODULE WorkerOwners -----------------------------
(* The programs that own a Worker, and how each sets it up. *)
EXTENDS Worker

(* client_qt5/mainwindow.cpp: asyncStart, PortAudio and a duration label. *)
Desktop == [ownThread |-> TRUE, realEndpoint |-> TRUE, hasReporter |-> TRUE,
            datagram |-> TRUE, hangsUp |-> TRUE]

(* client_cli/Entry.cpp: with a working duration the call has its own thread and ends
   with the program; without one main itself makes a call that nobody hangs up. *)
CommandLine(workingDuration, datagram) ==
    [ownThread |-> workingDuration >= 0, realEndpoint |-> TRUE, hasReporter |-> FALSE,
     datagram |-> datagram, hangsUp |-> workingDuration >= 0]

(* tests/sanity_check/audio: syncStart and the stub, stopped by another thread. *)
SanityCheck == [ownThread |-> FALSE, realEndpoint |-> FALSE, hasReporter |-> FALSE,
                datagram |-> TRUE, hangsUp |-> TRUE]
===============================================================================

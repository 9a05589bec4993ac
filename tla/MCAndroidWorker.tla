--------------------------- MODULE MCAndroidWorker ---------------------------
(* Instances of AndroidWorker for TLC. *)
EXTENDS AndroidWorker

(* A short answer and a longer packet of sound, of which the length of the one does
   not hold the other. *)
MCFrame == {Packet("LoginResponse", 0), Packet("AudioMessage", 40)}
===============================================================================

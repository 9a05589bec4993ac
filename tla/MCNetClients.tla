---------------------------- MODULE MCNetClients ----------------------------
(* Instances of NetClients for TLC. *)
EXTENDS NetClients

Format == INSTANCE NetPacket

(* Datagrams at the boundaries: less than a header, a header alone, a header that
   promises more than there is, the longest that the buffer holds, and one that it
   cuts. *)
Boundary == {[type |-> "LoginResponse", size |-> 0, len |-> FL]
                : FL \in {Format!FixHeaderLength - 1, Format!FixHeaderLength}}
            \cup {[type |-> "AudioMessage", size |-> 1, len |-> Format!FixHeaderLength],
                  Format!Packet("AudioMessage", Format!MaxLength - Format!FixHeaderLength),
                  Format!Packet("AudioMessage", Format!MaxLength - Format!FixHeaderLength + 1)}
===============================================================================

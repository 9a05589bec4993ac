---------------------------- MODULE MCRawUdpServer ----------------------------
(* Instances of RawUdpServer for TLC. *)
EXTENDS RawUdpServer, TLC

Symmetry == Permutations(Endpoint)

(* One datagram per branch of the handler: every request the clients send, a
   media packet with trailing bytes, an empty datagram, half a header, and a text
   that overflows the buffer. *)
MCFrame == {Packet("LoginRequest", 0), Packet("HeartBeatRequest", 0),
            Packet("LogoutRequest", 0),
            [Packet("AudioMessage", 40) EXCEPT !.len = 64],
            Packet("TextMessage", MaxLength - FixHeaderLength + 1),
            [type |-> "LogoutRequest", size |-> 0, len |-> FixHeaderLength - 1],
            [type |-> "Undefined", size |-> 0, len |-> 0]}
===============================================================================

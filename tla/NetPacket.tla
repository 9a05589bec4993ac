------------------------------ MODULE NetPacket ------------------------------
(***************************************************************************)
(* The datagram format shared by the server and every client               *)
(* (include/NetPacket.hpp, and the makePacket of each side).  A packet is   *)
(* a header of fixed length that carries, among others, the payload type    *)
(* and a 16-bit payload size, followed by the payload.  Contents are left   *)
(* out: a datagram is its type, the size its header announces, and the      *)
(* number of bytes that are really there.                                   *)
(***************************************************************************)
EXTENDS Naturals

FixHeaderLength == 20
SizeRange == 2^16            \* the size field is a uint16_t
MaxLength == 1024            \* the buffer every receiver reads a datagram into

PayloadType == {"Undefined", "HeartBeatRequest", "HeartBeatResponse",
                "LoginRequest", "LoginResponse", "UserInfo", "TextMessage",
                "AudioMessage", "AudioMessage_CN", "LogoutRequest",
                "LogoutResponse"}

(* What the server passes on from one client to the others. *)
MediaType == {"TextMessage", "AudioMessage", "AudioMessage_CN"}

(* The bytes of a packet whose payload takes n bytes; the constructor throws
   when n does not fit the size field. *)
Constructible(n) == n < SizeRange
Packet(type, n) == [type |-> type, size |-> n % SizeRange,
                    len |-> FixHeaderLength + (n % SizeRange)]

(* The bytes a receiver gets of a datagram: the kernel cuts what does not fit
   the buffer, without an error. *)
Received(d) == IF d.len <= MaxLength THEN d.len ELSE MaxLength

(* makePacket builds a packet from the received bytes, or yields nullptr. *)
MakePacket(d) == /\ Received(d) >= FixHeaderLength
                 /\ Received(d) >= FixHeaderLength + d.size

(* The packet that makePacket builds: bytes after the announced payload are
   left behind. *)
Parsed(d) == Packet(d.type, d.size)
==============================================================================

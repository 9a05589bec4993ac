---------------------------- MODULE RawUdpClient ----------------------------
(***************************************************************************)
(* The UDP transport of a client (client_essential/net_engine/              *)
(* RawUdpClient.cpp): its owner calls init and send and lets go of it in    *)
(* the end; a receiver thread reads datagrams, builds packets and hands them *)
(* to the owner's callback.  The RawUdpClientImpl refers to the client that *)
(* owns it, so that an initialised client is never freed and the destructor *)
(* of the impl, which would end the thread, never runs.                     *)
(***************************************************************************)
EXTENDS NetPacket, Sequences

CONSTANTS
    Datagram,        \* what may arrive: [type, size, len] records of NetPacket
    SocketBuffer,    \* bound: datagrams the kernel keeps for the socket
    MaxArrivals      \* bound: datagrams that arrive

VARIABLES
    impl_,           \* none, up, or failed: its constructor threw
    holders,         \* who has a shared_ptr to the client
    freed,
    s,               \* the datagrams in the socket
    arrived,         \* how many have been put there
    received,        \* how many receive_from has returned
    receiver_,       \* the receiver thread
    reply,           \* the datagram it handles
    packet,          \* what makePacket made of it
    reportsIcmp,     \* the system reports an unreachable port to the socket
    unreachable,     \* it has such a report for the next receive_from
    refusedOnce      \* a send found the server's port closed (history)

ownVars == <<impl_, holders, freed>>
inVars == <<s, arrived>>
threadVars == <<received, receiver_, reply, packet>>
icmpVars == <<reportsIcmp, unreachable, refusedOnce>>
vars == <<ownVars, inVars, threadVars, icmpVars>>

NoDatagram == Packet("Undefined", 0)
Built == {Parsed(d) : d \in Datagram \cup {NoDatagram}}

TypeOK == /\ impl_ \in {"none", "up", "failed"}
          /\ holders \subseteq {"owner", "impl"}
          /\ s \in Seq(Datagram) /\ Len(s) <= SocketBuffer
          /\ arrived \in 0 .. MaxArrivals /\ received \in 0 .. arrived
          /\ receiver_ \in {"none", "receiving", "calling", "deaf"}
          /\ reply \in Datagram \cup {NoDatagram}
          /\ packet \in Built
          /\ {freed, reportsIcmp, unreachable, refusedOnce} \subseteq BOOLEAN

Init == /\ impl_ = "none" /\ holders = {"owner"} /\ freed = FALSE
        /\ s = <<>> /\ arrived = 0
        /\ received = 0 /\ receiver_ = "none"
        /\ reply = NoDatagram /\ packet = NoDatagram
        /\ reportsIcmp \in BOOLEAN /\ unreachable = FALSE /\ refusedOnce = FALSE

-------------------------------------------------------------------------------
Holders_NoImpl == holders

(* The impl is given shared_from_this(). *)
Holders == holders \cup {"impl"}

(* init: the constructor of the impl resolves, which may throw, and starts the
   receiver. *)
InitClient ==
    /\ impl_ = "none" /\ "owner" \in holders
    /\ \/ /\ impl_' = "up"
          /\ holders' = Holders
          /\ receiver_' = "receiving"
       \/ /\ impl_' = "failed"
          /\ UNCHANGED <<holders, receiver_>>
    /\ UNCHANGED <<freed, inVars, received, reply, packet, icmpVars>>

(* sendUdp, from any thread of the owner; its errors are swallowed.  Where the
   server's port is closed some systems tell the socket's next receive_from. *)
Send(portClosed) ==
    /\ impl_ = "up" /\ "owner" \in holders
    /\ unreachable' = (unreachable \/ (portClosed /\ reportsIcmp))
    /\ refusedOnce' = (refusedOnce \/ portClosed)
    /\ UNCHANGED <<ownVars, inVars, threadVars, reportsIcmp>>

(* The owner's shared_ptr goes; the last one to go frees the client. *)
Release ==
    /\ "owner" \in holders /\ impl_ # "none"
    /\ holders' = holders \ {"owner"}
    /\ freed' = (holders' = {})
    /\ UNCHANGED <<impl_, inVars, threadVars, icmpVars>>

-------------------------------------------------------------------------------
(* A datagram comes in; the socket drops it when its buffer is full. *)
Arrive(d) ==
    /\ impl_ = "up" /\ arrived < MaxArrivals
    /\ Len(s) < SocketBuffer
    /\ s' = Append(s, d) /\ arrived' = arrived + 1
    /\ UNCHANGED <<ownVars, threadVars, icmpVars>>

MakesPacket_Unsized(d) == Received(d) >= FixHeaderLength

(* makePacket: a short datagram, or one cut by the buffer, makes none. *)
MakesPacket(d) == MakePacket(d)

Receive_NoPacketEnds ==
    /\ receiver_ = "receiving" /\ s # <<>> /\ ~unreachable
    /\ s' = Tail(s) /\ received' = received + 1
    /\ reply' = Head(s)
    /\ IF MakesPacket(Head(s))
       THEN receiver_' = "calling" /\ packet' = Parsed(Head(s))
       ELSE receiver_' = "deaf" /\ UNCHANGED packet
    /\ UNCHANGED <<ownVars, arrived, icmpVars>>

(* One round of the receiver's loop up to the callback. *)
Receive ==
    /\ receiver_ = "receiving" /\ s # <<>> /\ ~unreachable
    /\ s' = Tail(s) /\ received' = received + 1
    /\ reply' = Head(s)
    /\ IF MakesPacket(Head(s))
       THEN receiver_' = "calling" /\ packet' = Parsed(Head(s))
       ELSE UNCHANGED <<receiver_, packet>>
    /\ UNCHANGED <<ownVars, arrived, icmpVars>>

CallReturns ==
    /\ receiver_ = "calling"
    /\ receiver_' = "receiving"
    /\ UNCHANGED <<ownVars, inVars, received, reply, packet, icmpVars>>

(* receive_from throws, and the exception ends the loop for good. *)
ReceiveThrows ==
    /\ receiver_ = "receiving" /\ unreachable
    /\ receiver_' = "deaf" /\ unreachable' = FALSE
    /\ UNCHANGED <<ownVars, inVars, received, reply, packet, reportsIcmp, refusedOnce>>

Receiver == Receive \/ CallReturns \/ ReceiveThrows

Next == \/ InitClient \/ Release \/ Receiver
        \/ \E portClosed \in BOOLEAN : Send(portClosed)
        \/ \E d \in Datagram : Arrive(d)

Spec == Init /\ [][Next]_vars

(* The receiver thread runs and the callback returns. *)
FairSpec == Spec /\ WF_vars(Receiver)

-------------------------------------------------------------------------------
(* What the callback is given lies in the bytes that were received: neither a
   header nor a payload is made up of what the buffer held before. *)
WholePackets ==
    receiver_ = "calling" =>
       /\ packet.type = reply.type
       /\ packet.len <= reply.len /\ packet.len <= MaxLength

(* Every datagram that has arrived is taken from the socket, whatever arrived
   before it, unless the system reports that a send met a closed port. *)
HearsOn == \A n \in 1 .. MaxArrivals :
              arrived >= n ~> (received >= n \/ (reportsIcmp /\ refusedOnce))

(* The receiver thread runs on the impl's socket and calls back with the client:
   both are there as long as it is not deaf. *)
ReceiverHasItsClient == receiver_ \in {"receiving", "calling"} => ~freed
===============================================================================

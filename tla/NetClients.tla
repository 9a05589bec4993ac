----------------------------- MODULE NetClients -----------------------------
(***************************************************************************)
(* The transport of a Worker, one of two as Worker::init chooses it by the  *)
(* "protocol" of the configuration: a TcpClient or a RawUdpClient.          *)
(***************************************************************************)
EXTENDS TcpClient

CONSTANTS Datagram, SocketBuffer, MaxArrivals     \* see RawUdpClient

VARIABLES protocol, impl_, holders, freed, s, arrived, received, receiver_, reply,
          packet, reportsIcmp, unreachable, refusedOnce

Udp == INSTANCE RawUdpClient

ASSUME DatagramAssumption ==
    Datagram \subseteq [type : Udp!PayloadType, size : 0 .. Udp!SizeRange - 1, len : Nat]
ASSUME SocketAssumption == {SocketBuffer, MaxArrivals} \subseteq Nat

udpVars == <<impl_, holders, freed, s, arrived, received, receiver_, reply, packet,
             reportsIcmp, unreachable, refusedOnce>>
clientVars == <<vars, udpVars, protocol>>

ClientTypeOK == /\ TypeOK /\ Udp!TypeOK
                /\ protocol \in {"raw_tcp", "raw_udp"}

(* Any other protocol makes Worker::init throw, and there is no client. *)
ClientInit == /\ protocol \in {"raw_tcp", "raw_udp"}
              /\ Init /\ Udp!Init

ClientNext == \/ protocol = "raw_tcp" /\ Next /\ UNCHANGED <<protocol, udpVars>>
              \/ protocol = "raw_udp" /\ Udp!Next /\ UNCHANGED <<protocol, vars>>

(* The fairness of both modules. *)
ClientSpec == /\ ClientInit /\ [][ClientNext]_clientVars
              /\ WF_vars(IoThread) /\ WF_vars(Join) /\ WF_udpVars(Udp!Receiver)

-------------------------------------------------------------------------------
(* What RawUdpClient promises: see there. *)
WholePackets == Udp!WholePackets
ReceiverHasItsClient == Udp!ReceiverHasItsClient
HearsOn == Udp!HearsOn
===============================================================================

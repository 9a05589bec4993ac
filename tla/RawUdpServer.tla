----------------------------- MODULE RawUdpServer -----------------------------
(***************************************************************************)
(* The server that main() runs: one thread, one UDP socket, one room.       *)
(* Whoever sends a datagram is admitted to the room before the datagram is  *)
(* parsed; only a LogoutRequest takes it out again.  Media datagrams are    *)
(* relayed to the others in the room, or returned to their sender in echo   *)
(* mode.                                                                    *)
(*                                                                          *)
(* The network is the most general one: any datagram of Frame may arrive    *)
(* from any endpoint at any time, so that a lost, a repeated, a late and an *)
(* overtaken datagram are all included.                                     *)
(***************************************************************************)
EXTENDS NetPacket, FiniteSets

CONSTANTS
    Endpoint,        \* addresses that datagrams come from
    Frame,           \* the datagrams [type, size, len] that may arrive
    SendMayBlock,    \* the socket's send buffer may be full
    MaxTurns         \* bound: the datagrams the server handles

ASSUME FrameAssumption ==
    Frame \subseteq [type: PayloadType, size: 0 .. SizeRange - 1, len: Nat]
ASSUME ModeAssumption == SendMayBlock \in BOOLEAN
ASSUME BoundAssumption == MaxTurns \in Nat

VARIABLES
    isEchoMode, \* the second argument of main: echo or broadcast
    peers,      \* peers_: the connection objects in the room, with their address
    turn,       \* number of receive handlers run; names new connection objects
    posted,     \* every packet handed to async_send_to (history)
    pending,    \* those the socket could not take at once
    wire,       \* what has left the socket (history)
    lastHeard   \* what the last datagram of each endpoint was (history)

vars == <<isEchoMode, peers, turn, posted, pending, wire, lastHeard>>

Connection == [obj: Nat, remote_endpoint: Endpoint]
Message == [conn: Connection, type: PayloadType, size: Nat, from: Endpoint, turn: Nat]
Garbage == "Garbage"

TypeOK == /\ isEchoMode \in BOOLEAN
          /\ peers \subseteq Connection
          /\ turn \in Nat
          /\ posted \subseteq Message
          /\ pending \subseteq posted
          /\ wire \subseteq posted \cup [of: posted, content: {Garbage}]
          /\ lastHeard \in [Endpoint -> {"nothing", "logout", "other"}]

(* main's second argument, or none; any other prints the usage and starts nothing. *)
EchoMode(argument) == argument = "echo"
Arguments == {"none", "broadcast", "echo"}

Init == /\ isEchoMode \in {EchoMode(argument) : argument \in Arguments}
        /\ peers = {}
        /\ turn = 0
        /\ posted = {}
        /\ pending = {}
        /\ wire = {}
        /\ lastHeard = [e \in Endpoint |-> "nothing"]

-------------------------------------------------------------------------------
(* findPeer: the connection objects that hold this address. *)
FindPeer(e) == {p \in peers : p.remote_endpoint = e}

Connected_Moved(e) == IF FindPeer(e) # {} THEN FindPeer(e)
                      ELSE {[obj |-> turn, remote_endpoint |-> "moved-from"]}

(* The connection a datagram of e is handled by: the one found, or a new one. *)
Connected(e) == IF FindPeer(e) # {} THEN FindPeer(e)
                ELSE {[obj |-> turn, remote_endpoint |-> e]}

(* A packet of type t and payload size n for each connection of conns. *)
Packets(conns, t, n, me) ==
    {[conn |-> c, type |-> t, size |-> n,
      from |-> me.remote_endpoint, turn |-> turn] : c \in conns}

Answers_All(me, room, d) ==
    CASE d.type \in MediaType -> Packets(room, d.type, d.size, me)
      [] OTHER -> {}

(* processClientMessagePayload: what a packet of connection me makes the server
   send when the connections in the room are those of room. *)
Answers(me, room, d) ==
    CASE d.type = "HeartBeatRequest" -> Packets({me}, "HeartBeatResponse", 0, me)
      [] d.type = "LoginRequest"     -> Packets({me}, "LoginResponse", 0, me)
      [] d.type \in MediaType /\ isEchoMode ->
            Packets({me}, d.type, d.size, me)
      [] d.type \in MediaType /\ ~isEchoMode ->
            Packets(room \ {me}, d.type, d.size, me)
      [] OTHER -> {}

Remaining_NoKick(me, room, d) == room

(* kickMeOut: only a LogoutRequest does it, and nothing is answered. *)
Remaining(me, room, d) ==
    IF d.type = "LogoutRequest" THEN room \ {me} ELSE room

(* sendUdp: the socket takes the packet at once, unless its buffer is full or
   earlier packets are waiting for it. *)
Send(M) ==
    \E late \in SUBSET M :
        /\ late # {} => SendMayBlock
        /\ pending # {} => late = M
        /\ posted' = posted \cup M
        /\ pending' = pending \cup late
        /\ wire' = wire \cup (M \ late)

-------------------------------------------------------------------------------
(* doReceive's handler: insert, onReceived, processClientMessagePayload.  An
   empty datagram is ignored; any other admits its sender, then is parsed. *)
Receive(e, d) ==
    /\ turn < MaxTurns
    /\ turn' = turn + 1
    /\ UNCHANGED isEchoMode
    /\ IF Received(d) = 0
       THEN UNCHANGED <<peers, posted, pending, wire, lastHeard>>
       ELSE \E me \in Connected(e) :
               LET room == peers \cup {me} IN
               IF MakePacket(d)
               THEN /\ peers' = Remaining(me, room, d)
                    /\ Send(Answers(me, room, d))
                    /\ lastHeard' = [lastHeard EXCEPT ![e] =
                          IF d.type = "LogoutRequest" THEN "logout" ELSE "other"]
               ELSE /\ peers' = room
                    /\ lastHeard' = [lastHeard EXCEPT ![e] = "other"]
                    /\ UNCHANGED <<posted, pending, wire>>

(* The socket becomes writable.  async_send_to kept a pointer to the bytes of
   a packet that the handler has freed since: it sends what it finds there. *)
SendPending(m) ==
    /\ m \in pending
    /\ pending' = pending \ {m}
    /\ \E bytes \in {m, [of |-> m, content |-> Garbage]} :
          wire' = wire \cup {bytes}
    /\ UNCHANGED <<isEchoMode, peers, turn, posted, lastHeard>>

Next == \/ \E e \in Endpoint, d \in Frame : Receive(e, d)
        \/ \E m \in pending : SendPending(m)

Spec == Init /\ [][Next]_vars

-------------------------------------------------------------------------------
Present(e) == lastHeard[e] = "other"
Posted == posted' \ posted
ToEndpoint(M, e) == {m \in M : m.conn.remote_endpoint = e}

(* findPeer and insert keep one connection per address, however often a client
   logs out and comes back: two of them would send a client its own voice. *)
OneConnectionPerEndpoint ==
    \A p, q \in peers : p.remote_endpoint = q.remote_endpoint => p = q

(* The room holds exactly the endpoints whose last datagram was not a
   well-formed LogoutRequest (insert before parsing, kickMeOut). *)
Membership ==
    {p.remote_endpoint : p \in peers} = {e \in Endpoint : Present(e)}

(* Each of them is there once. *)
RoomIsExact == Membership /\ OneConnectionPerEndpoint

(* The packets the server has sent, as a client sees them. *)
Seen == {[to |-> m.conn.remote_endpoint, type |-> m.type, from |-> m.from,
          id |-> <<m.conn.obj, m.turn>>] : m \in posted}

Abstract == INSTANCE Relay WITH Client <- Endpoint, echo <- isEchoMode,
                                room <- {p.remote_endpoint : p \in peers}, sent <- Seen

(* processClientMessagePayload and its relay loop do what the relay promises, for
   every datagram in every room: nobody hears itself but in echo mode, everybody
   else in the room hears each media packet once, those that left hear nothing,
   and each request is answered to its sender. *)
ImplementsRelay == Abstract!Spec

(* The relay loop of processClientMessagePayload: in broadcast mode no client is
   ever sent its own media back, in echo mode it is sent nothing else. *)
NoSelfRelay ==
    \A m \in posted : m.type \in MediaType =>
        (isEchoMode <=> m.conn.remote_endpoint = m.from)

RelayedOnce(m) == m.type \in MediaType /\ ~isEchoMode =>
    \A e \in Endpoint :
      Cardinality(ToEndpoint(Posted, e)) = (IF Present(e) /\ e # m.from THEN 1 ELSE 0)

(* The endpoints whose datagrams the server has handled and that have not
   left are sent exactly one copy of each media packet of another; those that
   left, or never spoke, none. *)
RelayExact ==
    [][\A m \in Posted : RelayedOnce(m)]_vars

(* Whatever the server sends goes to a connection that is in the room when
   the handler is done: nothing is addressed to a client that has left. *)
SendsToMembersOnly ==
    [][\A m \in Posted : m.conn \in peers']_vars
===============================================================================

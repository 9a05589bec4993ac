-------------------------------- MODULE Relay --------------------------------
(***************************************************************************)
(* What either server promises its clients, RawUdpServer and TcpServer      *)
(* alike: a room that clients enter and leave, in which whatever one of     *)
(* them says is told once to everybody else, or to itself in echo mode, and *)
(* in which each request is answered to whoever made it.  How a client is   *)
(* recognised, what a connection is, what is queued and when it goes out    *)
(* are left to the servers.                                                 *)
(***************************************************************************)
EXTENDS NetPacket

CONSTANT Client

VARIABLES
    echo,      \* the mode, chosen when the server starts
    room,
    sent       \* every packet handed over for a client: [to, type, from, id]

relayVars == <<echo, room, sent>>

Init == echo \in BOOLEAN /\ room = {} /\ sent = {}

Enter(c) == room' = room \cup {c} /\ UNCHANGED <<echo, sent>>

Leave(c) == room' = room \ {c} /\ UNCHANGED <<echo, sent>>

(* Who is told on account of a packet of c when those inside are in the room. *)
Hearers(c, inside, type) ==
    CASE type \in {"HeartBeatRequest", "LoginRequest"} -> {c}
      [] type \in MediaType -> IF echo THEN {c} ELSE inside \ {c}
      [] OTHER -> {}

Told(type) == CASE type = "HeartBeatRequest" -> "HeartBeatResponse"
                [] type = "LoginRequest" -> "LoginResponse"
                [] OTHER -> type

(* Each of hearers is told once, and nobody else is told anything. *)
Tell(hearers, type, c) ==
    LET new == sent' \ sent
    IN  /\ sent \subseteq sent'
        /\ \A m \in new : m.to \in hearers /\ m.type = type /\ m.from = c
        /\ \A h \in hearers : \E m \in new :
              m.to = h /\ \A n \in new : n.to = h => n = m

(* A packet of c, who enters by it or not; a logout takes it out. *)
Say(c, type) ==
    /\ \E inside \in {room, room \cup {c}} :
          /\ room' = IF type = "LogoutRequest" THEN inside \ {c} ELSE inside
          /\ Tell(Hearers(c, inside, type), Told(type), c)
    /\ UNCHANGED echo

Next == \E c \in Client : \/ Enter(c) \/ Leave(c)
                          \/ \E type \in PayloadType : Say(c, type)

Spec == Init /\ [][Next]_relayVars
===============================================================================

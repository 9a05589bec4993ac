------------------------------ MODULE TcpServer ------------------------------
(***************************************************************************)
(* The TCP server (server/TcpServer.hpp, server/Room.hpp): an acceptor, one *)
(* session per connection, and a room of two.  One thread runs the          *)
(* handlers; between two of them a client may send, close or be cut off.    *)
(* A session has at most one read and, by the discipline of its queue, one  *)
(* write under way.                                                         *)
(***************************************************************************)
EXTENDS NetPacket, Sequences, FiniteSets

CONSTANTS
    Session,       \* connections that clients may make, each once
    Request,       \* the payload types that clients send
    TraceCycle,    \* every how many media packets one is logged: 100 in the code
    MaxPackets     \* bound: packets the server handles

ASSUME SessionAssumption == IsFiniteSet(Session)
ASSUME RequestAssumption == Request \subseteq PayloadType
ASSUME TraceAssumption == TraceCycle \in Nat \ {0}
ASSUME BoundAssumption == MaxPackets \in Nat

VARIABLES
    isEchoMode,           \* the second argument of main
    participants_,        \* the room
    socket_,              \* each connection, as the client has it
    reading,              \* what a session's pending async_read is for
    read_msg_,            \* the type in the header a session read last
    write_msgs_,          \* the packets a session has to write
    writing,              \* a session's async_writes under way
    handled,              \* packets handled, which names them
    counterUserMessage_,
    posted,               \* what deliver was called with, by session (history)
    written,              \* what went through the socket, by session (history)
    ended                 \* an exception has ended the server

roomVars == <<participants_, handled, counterUserMessage_>>
readVars == <<reading, read_msg_>>
writeVars == <<write_msgs_, writing, posted, written>>
vars == <<isEchoMode, roomVars, socket_, readVars, writeVars, ended>>

RoomSize == 2
Packets == [type : PayloadType, from : Session, n : 1 .. MaxPackets]

TypeOK == /\ isEchoMode \in BOOLEAN /\ ended \in BOOLEAN
          /\ participants_ \subseteq Session
          /\ socket_ \in [Session -> {"none", "open", "closed", "reset"}]
          /\ reading \in [Session -> {"nothing", "header", "payload", "done"}]
          /\ read_msg_ \in [Session -> Request \cup {"Undefined"}]
          /\ write_msgs_ \in [Session -> Seq(Packets)]
          /\ writing \in [Session -> 0 .. 1]
          /\ handled \in 0 .. MaxPackets
          /\ counterUserMessage_ \in 0 .. handled
          /\ posted \in [Session -> Seq(Packets)]
          /\ written \in [Session -> Seq(Packets)]

Init == /\ isEchoMode \in BOOLEAN /\ ended = FALSE
        /\ participants_ = {}
        /\ socket_ = [s \in Session |-> "none"]
        /\ reading = [s \in Session |-> "nothing"]
        /\ read_msg_ = [s \in Session |-> "Undefined"]
        /\ write_msgs_ = [s \in Session |-> <<>>]
        /\ writing = [s \in Session |-> 0]
        /\ handled = 0 /\ counterUserMessage_ = 0
        /\ posted = [s \in Session |-> <<>>]
        /\ written = [s \in Session |-> <<>>]

-------------------------------------------------------------------------------
(* TcpSession::start of a connection that the room takes.  remote_endpoint, which is
   logged, throws when the client has cut the connection already. *)
Start(s, now) ==
    /\ socket_' = [socket_ EXCEPT ![s] = now]
    /\ participants_' = participants_ \cup {s}
    /\ reading' = [reading EXCEPT ![s] = "header"]
    /\ ended' = (now = "reset")

(* doAccept.  A connection that the full room refuses is dropped with its session. *)
Accept(s) ==
    /\ ~ended /\ socket_[s] = "none"
    /\ \/ /\ Cardinality(participants_) >= RoomSize
          /\ socket_' = [socket_ EXCEPT ![s] = "closed"]
          /\ UNCHANGED <<participants_, reading, ended>>
       \/ /\ Cardinality(participants_) < RoomSize
          /\ \E now \in {"open", "reset"} : Start(s, now)
    /\ UNCHANGED <<isEchoMode, handled, counterUserMessage_, read_msg_, writeVars>>

Leave_Never(s) == UNCHANGED participants_
Leave(s) == participants_' = participants_ \ {s}

ComingIn == {r \in Session : reading[r] \in {"payload", "done"}}

(* A header has come in; the payload is read next. *)
ReadHeader(s, type) ==
    /\ ~ended /\ reading[s] = "header" /\ socket_[s] = "open"
    /\ handled + Cardinality(ComingIn) < MaxPackets
    /\ read_msg_' = [read_msg_ EXCEPT ![s] = type]
    /\ reading' = [reading EXCEPT ![s] = "payload"]
    /\ UNCHANGED <<isEchoMode, roomVars, socket_, writeVars, ended>>

(* The payload is there; its handler has yet to run. *)
ReadPayload(s) ==
    /\ ~ended /\ reading[s] = "payload" /\ socket_[s] = "open"
    /\ reading' = [reading EXCEPT ![s] = "done"]
    /\ UNCHANGED <<isEchoMode, roomVars, socket_, read_msg_, writeVars, ended>>

(* Either read fails once the connection is gone. *)
ReadFails(s) ==
    /\ ~ended /\ reading[s] \in {"header", "payload"}
    /\ socket_[s] \in {"closed", "reset"}
    /\ reading' = [reading EXCEPT ![s] = "nothing"]
    /\ Leave(s)
    /\ UNCHANGED <<isEchoMode, handled, counterUserMessage_, socket_, read_msg_,
                   writeVars, ended>>

Receivers_All(s, type) == IF type \in MediaType THEN participants_ ELSE {s}

(* processClientMessagePayload: who is delivered a packet on account of one of
   type from s. *)
Receivers(s, type) ==
    CASE type \in {"HeartBeatRequest", "LoginRequest"} -> {s}
      [] type \in MediaType /\ isEchoMode -> {s}
      [] type \in MediaType /\ ~isEchoMode -> participants_ \ {s}
      [] OTHER -> {}

Response_Raw(type) == IF type \in MediaType THEN type ELSE "Response"
Response(type) == CASE type = "HeartBeatRequest" -> "HeartBeatResponse"
                    [] type = "LoginRequest" -> "LoginResponse"
                    [] OTHER -> type

Starts_Always(r) == TRUE
(* deliver starts a write when none is under way: the queue was empty. *)
Starts(r) == write_msgs_[r] = <<>>

Deliver(to, p) ==
    /\ write_msgs_' = [r \in Session |->
          IF r \in to THEN Append(write_msgs_[r], p) ELSE write_msgs_[r]]
    /\ writing' = [r \in Session |->
          IF r \in to /\ Starts(r) THEN writing[r] + 1 ELSE writing[r]]
    /\ posted' = [r \in Session |->
          IF r \in to THEN Append(posted[r], p) ELSE posted[r]]
    /\ UNCHANGED written

(* All but media packets are logged, and those when the counter comes round; the
   log has the sender's address, for which remote_endpoint may throw.  The next
   header is read in any case, by a client that has logged out too. *)
Process(s) ==
    /\ ~ended /\ reading[s] = "done"
    /\ handled' = handled + 1
    /\ LET type == read_msg_[s]
           traced == type \notin MediaType \/ counterUserMessage_' % TraceCycle = 0
       IN  /\ counterUserMessage_' =
                 IF type \in MediaType THEN counterUserMessage_ + 1 ELSE counterUserMessage_
           /\ Deliver(Receivers(s, type),
                      [type |-> Response(type), from |-> s, n |-> handled'])
           /\ IF type = "LogoutRequest" THEN Leave(s) ELSE UNCHANGED participants_
           /\ ended' = (traced /\ socket_[s] = "reset")
           /\ reading' = [reading EXCEPT ![s] = IF ended' THEN "nothing" ELSE "header"]
    /\ UNCHANGED <<isEchoMode, socket_, read_msg_>>

(* The write at the front of the queue is through; the next one starts. *)
Written(s) ==
    /\ ~ended /\ writing[s] > 0 /\ socket_[s] \in {"open", "closed"}
    /\ write_msgs_' = [write_msgs_ EXCEPT ![s] = Tail(@)]
    /\ written' = [written EXCEPT ![s] = Append(@, Head(write_msgs_[s]))]
    /\ writing' = [writing EXCEPT ![s] = IF Len(write_msgs_[s]) > 1 THEN @ ELSE @ - 1]
    /\ UNCHANGED <<isEchoMode, roomVars, socket_, readVars, posted, ended>>

WriteFails_Stays(s) ==
    /\ ~ended /\ writing[s] > 0 /\ socket_[s] \in {"closed", "reset"}
    /\ writing' = [writing EXCEPT ![s] = @ - 1]
    /\ UNCHANGED <<isEchoMode, roomVars, socket_, readVars, write_msgs_, posted,
                   written, ended>>

(* A write fails: the session leaves the room, and its queue stays as it is. *)
WriteFails(s) ==
    /\ ~ended /\ writing[s] > 0 /\ socket_[s] \in {"closed", "reset"}
    /\ writing' = [writing EXCEPT ![s] = @ - 1]
    /\ Leave(s)
    /\ UNCHANGED <<isEchoMode, handled, counterUserMessage_, socket_, readVars,
                   write_msgs_, posted, written, ended>>

(* The client closes the connection, or is cut off. *)
Disconnect(s, how) ==
    /\ ~ended /\ socket_[s] = "open"
    /\ socket_' = [socket_ EXCEPT ![s] = how]
    /\ UNCHANGED <<isEchoMode, roomVars, readVars, writeVars, ended>>

Handlers(s) == ReadFails(s) \/ Process(s) \/ WriteFails(s)

Next == \E s \in Session :
           \/ Accept(s) \/ ReadPayload(s) \/ Written(s) \/ Handlers(s)
           \/ \E type \in Request : ReadHeader(s, type)
           \/ \E how \in {"closed", "reset"} : Disconnect(s, how)

Spec == Init /\ [][Next]_vars

(* The io_service runs the handlers of what has ended or come in; nothing makes a
   client send, read or close. *)
FairSpec == Spec /\ \A s \in Session : WF_vars(ReadFails(s)) /\ WF_vars(Process(s))
-------------------------------------------------------------------------------
(* The packets the server has delivered, as a client sees them. *)
Seen == UNION {{[to |-> s, type |-> posted[s][i].type, from |-> posted[s][i].from, id |-> i]
                   : i \in DOMAIN posted[s]} : s \in Session}

Abstract == INSTANCE Relay WITH Client <- Session, echo <- isEchoMode,
                                room <- participants_, sent <- Seen

(* The sessions and the room of the TCP server make the same relay as the UDP
   server, whatever is cut off in between: each packet that a session handles is
   delivered once to everybody else in the room, and to nobody that has left. *)
ImplementsRelay == Abstract!Spec

(* Every session's packets are written one at a time, whole and in the order in
   which they were delivered to it: what went out and what waits are together
   what was delivered. *)
WritesInOrder ==
    \A s \in Session : /\ writing[s] <= 1
                       /\ written[s] \o write_msgs_[s] = posted[s]

(* Nobody in the room is cut off by its own queue: packets that wait have a write
   under way, although a failed write leaves its queue as it was.  And nobody goes
   unheard: each member has a read under way, so that the end of its connection is
   noticed.  (A member that nobody listens to would hold one of the two places for
   ever.) *)
MembersAreServed ==
    ended \/ \A s \in participants_ : /\ write_msgs_[s] # <<>> => writing[s] > 0
                                     /\ reading[s] # "nothing"

(* The place of a client that has gone comes free without anybody's doing. *)
PlaceComesFree ==
    \A s \in Session :
        (socket_[s] \in {"closed", "reset"}) ~> (ended \/ s \notin participants_)
===============================================================================

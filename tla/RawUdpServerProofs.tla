--------------------------- MODULE RawUdpServerProofs ---------------------------
(***************************************************************************)
(* Theorems about the server, for every set of endpoints, every set of      *)
(* datagrams, both modes, and a socket that may or may not block.           *)
(***************************************************************************)
EXTENDS RawUdpServer, FiniteSetTheorems, TLAPS

(* Connection objects are named by the turn that created them, and packets by
   the turn that posted them: both are older than the present turn. *)
Dated == /\ \A p \in peers : p.obj < turn
         /\ \A m \in posted : m.turn < turn

(* The inductive invariant: NoSelfRelay needs one connection per endpoint, which
   needs the names of connections to be fresh. *)
IInv == TypeOK /\ Dated /\ OneConnectionPerEndpoint /\ Membership /\ NoSelfRelay

LEMMA FrameFields ==
    ASSUME NEW d \in Frame
    PROVE  d.type \in PayloadType /\ d.size \in Nat
  BY FrameAssumption, SMT DEF FixHeaderLength

(* insert: the connection that handles a datagram of e is e's, and the room with
   it still holds one connection per address (findPeer). *)
LEMMA SenderOfDatagram ==
    ASSUME TypeOK, Dated, OneConnectionPerEndpoint,
           NEW e \in Endpoint, NEW me \in Connected(e)
    PROVE  /\ me \in Connection
           /\ me.remote_endpoint = e
           /\ me.obj < turn + 1
           /\ \A p \in peers \cup {me} :
                 p.remote_endpoint = e => p = me
           /\ \A p, q \in peers \cup {me} :
                 p.remote_endpoint = q.remote_endpoint => p = q
  <1>1. me \in Connection /\ me.remote_endpoint = e /\ me.obj < turn + 1
    BY DEF TypeOK, Dated, Connected, FindPeer, Connection
  <1>2. ASSUME NEW p \in peers, p.remote_endpoint = e PROVE p = me
    BY <1>2 DEF Connected, FindPeer, OneConnectionPerEndpoint
  <1>3. QED
    BY <1>1, <1>2 DEF OneConnectionPerEndpoint

(* processClientMessagePayload: what is sent is well typed, goes to connections
   in the room, bears the present turn, and media never goes back to its sender
   unless in echo mode. *)
LEMMA AnswersOfPacket ==
    ASSUME TypeOK, NEW d \in Frame, NEW me \in Connection,
           NEW room \in SUBSET Connection, me \in room,
           \A p \in room : p.remote_endpoint = me.remote_endpoint => p = me,
           NEW m \in Answers(me, room, d)
    PROVE  /\ m \in Message
           /\ m.turn = turn /\ m.from = me.remote_endpoint
           /\ m.conn \in room
           /\ m.type \in MediaType =>
                (isEchoMode <=> m.conn.remote_endpoint = m.from)
  <1>1. /\ d.type \in PayloadType /\ d.size \in Nat
        /\ turn \in Nat /\ me.remote_endpoint \in Endpoint
    BY FrameFields DEF TypeOK, Connection
  <1>2. CASE d.type = "HeartBeatRequest"
    BY <1>1, <1>2 DEF Answers, Packets, Message, PayloadType, MediaType
  <1>3. CASE d.type = "LoginRequest"
    BY <1>1, <1>3 DEF Answers, Packets, Message, PayloadType, MediaType
  <1>4. CASE d.type \in MediaType /\ isEchoMode
    <2>1. m \in Packets({me}, d.type, d.size, me)
      BY <1>4 DEF Answers, MediaType
    <2>2. QED
      BY <1>1, <1>4, <2>1 DEF Packets, Message
  <1>5. CASE d.type \in MediaType /\ ~isEchoMode
    <2>1. m \in Packets(room \ {me}, d.type, d.size, me)
      BY <1>5 DEF Answers, MediaType
    <2>2. QED
      BY <1>1, <1>5, <2>1 DEF Packets, Message
  <1>6. QED
    BY <1>2, <1>3, <1>4, <1>5 DEF Answers, MediaType, TypeOK

LEMMA InitIInv == Init => IInv
  <1> SUFFICES ASSUME Init PROVE IInv
    OBVIOUS
  <1>1. PICK argument \in Arguments : isEchoMode = EchoMode(argument)
    BY DEF Init
  <1>2. isEchoMode \in BOOLEAN
    BY <1>1 DEF EchoMode
  <1>3. QED
    BY <1>2 DEF Init, IInv, TypeOK, Dated, OneConnectionPerEndpoint, Membership,
                NoSelfRelay, Present

(* One datagram keeps the inductive invariant. *)
LEMMA ReceiveIInv ==
    ASSUME IInv, NEW e \in Endpoint, NEW d \in Frame, Receive(e, d)
    PROVE  IInv'
  <1>1. CASE Received(d) = 0
    BY <1>1 DEF Receive, IInv, TypeOK, Dated, OneConnectionPerEndpoint,
                Membership, NoSelfRelay, Present, Connection, Message
  <1>2. CASE Received(d) # 0
    <2>1. PICK me \in Connected(e) :
             IF MakePacket(d)
             THEN /\ peers' = Remaining(me, peers \cup {me}, d)
                  /\ Send(Answers(me, peers \cup {me}, d))
                  /\ lastHeard' = [lastHeard EXCEPT ![e] =
                        IF d.type = "LogoutRequest" THEN "logout" ELSE "other"]
             ELSE /\ peers' = peers \cup {me}
                  /\ lastHeard' = [lastHeard EXCEPT ![e] = "other"]
                  /\ UNCHANGED <<posted, pending, wire>>
      BY <1>2 DEF Receive
    <2> DEFINE room == peers \cup {me}
               left == MakePacket(d) /\ d.type = "LogoutRequest"
    <2>2. /\ me \in Connection /\ me.remote_endpoint = e /\ me.obj < turn + 1
          /\ \A p \in room : p.remote_endpoint = e => p = me
          /\ \A p, q \in room : p.remote_endpoint = q.remote_endpoint => p = q
      BY SenderOfDatagram DEF IInv
    <2>3. turn' = turn + 1 /\ turn \in Nat /\ isEchoMode' = isEchoMode
      BY DEF Receive, IInv, TypeOK
    <2>4. /\ peers' = IF left THEN room \ {me} ELSE room
          /\ lastHeard' = [lastHeard EXCEPT ![e] =
                              IF left THEN "logout" ELSE "other"]
      BY <2>1 DEF Remaining
    <2>5. room \in SUBSET Connection /\ me \in room
      BY <2>2 DEF IInv, TypeOK
    <2>6. \A m \in Answers(me, room, d) :
             /\ m \in Message /\ m.turn = turn
             /\ m.type \in MediaType =>
                  (isEchoMode <=> m.conn.remote_endpoint = m.from)
      BY <2>2, <2>5, AnswersOfPacket DEF IInv
    <2>7. /\ posted' = posted \/ posted' = posted \cup Answers(me, room, d)
          /\ pending' \subseteq posted'
          /\ wire' \subseteq posted' \cup [of: posted', content: {Garbage}]
      <3>1. CASE UNCHANGED <<posted, pending, wire>>
        BY <3>1 DEF IInv, TypeOK
      <3>2. CASE Send(Answers(me, room, d))
        BY <3>2 DEF Send, IInv, TypeOK
      <3>3. QED
        BY <2>1, <3>1, <3>2
    <2>8. TypeOK'
      <3>1. posted' \subseteq Message
        BY <2>6, <2>7 DEF IInv, TypeOK
      <3>2. peers' \subseteq Connection
        BY <2>4, <2>5
      <3>3. lastHeard' \in [Endpoint -> {"nothing", "logout", "other"}]
        BY <2>4 DEF IInv, TypeOK
      <3>4. turn' \in Nat
        BY <2>3
      <3>5. QED
        BY <2>3, <2>7, <3>1, <3>2, <3>3, <3>4 DEF TypeOK, IInv
    <2>9. Dated'
      <3>1. \A p \in room : p.obj < turn + 1
        BY <2>2, <2>3 DEF IInv, Dated, TypeOK, Connection
      <3>2. \A m \in posted' : m.turn < turn + 1
        <4>1. \A m \in posted : m.turn \in Nat /\ m.turn < turn
          BY DEF IInv, Dated, TypeOK, Message
        <4>2. ASSUME NEW m \in posted' PROVE m.turn < turn + 1
          <5>1. CASE m \in posted
            BY <2>3, <4>1, <5>1
          <5>2. CASE m \in Answers(me, room, d)
            BY <2>3, <2>6, <5>2
          <5>3. QED
            BY <2>7, <5>1, <5>2
        <4>3. QED
          BY <4>2
      <3>3. QED
        BY <2>3, <2>4, <3>1, <3>2 DEF Dated
    <2>10. OneConnectionPerEndpoint'
      BY <2>2, <2>4 DEF OneConnectionPerEndpoint
    <2>11. Membership'
      <3>1. ASSUME NEW f \in Endpoint
            PROVE  (\E p \in peers' : p.remote_endpoint = f) <=> Present(f)'
        <4>1. (\E p \in peers : p.remote_endpoint = f) <=> Present(f)
          BY DEF IInv, Membership
        <4>2. CASE f = e
          BY <2>2, <2>4, <4>2 DEF Present, IInv, TypeOK
        <4>3. CASE f # e
          BY <2>2, <2>4, <4>1, <4>3 DEF Present, IInv, TypeOK
        <4>4. QED BY <4>2, <4>3
      <3>2. \A p \in peers' : p.remote_endpoint \in Endpoint
        BY <2>8 DEF TypeOK, Connection
      <3>3. QED
        BY <3>1, <3>2 DEF Membership, Present
    <2>12. NoSelfRelay'
      BY <2>3, <2>6, <2>7 DEF IInv, NoSelfRelay
    <2>13. QED
      BY <2>8, <2>9, <2>10, <2>11, <2>12 DEF IInv
  <1>3. QED
    BY <1>1, <1>2

LEMMA SendPendingIInv ==
    ASSUME IInv, NEW m \in pending, SendPending(m)
    PROVE  IInv'
  <1>1. TypeOK'
    BY DEF IInv, TypeOK, SendPending
  <1>2. QED
    BY <1>1 DEF IInv, SendPending, Dated, OneConnectionPerEndpoint, Membership,
                NoSelfRelay, Present

LEMMA NextIInv == IInv /\ [Next]_vars => IInv'
  <1> SUFFICES ASSUME IInv, [Next]_vars PROVE IInv'
    OBVIOUS
  <1>1. ASSUME NEW e \in Endpoint, NEW d \in Frame, Receive(e, d) PROVE IInv'
    BY <1>1, ReceiveIInv
  <1>2. ASSUME NEW m \in pending, SendPending(m) PROVE IInv'
    BY <1>2, SendPendingIInv
  <1>3. CASE UNCHANGED vars
    BY <1>3 DEF vars, IInv, TypeOK, Dated, OneConnectionPerEndpoint, Membership,
                NoSelfRelay, Present
  <1>4. QED
    BY <1>1, <1>2, <1>3 DEF Next

(* The inductive invariant holds in every state the server reaches. *)
THEOREM Inductive == Spec => []IInv
  BY InitIInv, NextIInv, PTL DEF Spec

(* Type correctness of the server's room and of what it sends. *)
THEOREM TypeCorrect == Spec => []TypeOK
  <1>1. IInv => TypeOK
    BY DEF IInv
  <1>2. QED
    BY Inductive, <1>1, PTL

(* findPeer and insert: never two connections for one address. *)
THEOREM OneConnection == Spec => []OneConnectionPerEndpoint
  <1>1. IInv => OneConnectionPerEndpoint
    BY DEF IInv
  <1>2. QED
    BY Inductive, <1>1, PTL

(* insert and kickMeOut: the room is those whose last datagram was no logout. *)
THEOREM RoomIsMembership == Spec => []Membership
  <1>1. IInv => Membership
    BY DEF IInv
  <1>2. QED
    BY Inductive, <1>1, PTL

(* The relay loop of processClientMessagePayload: nobody hears himself, except
   in echo mode, where nobody hears anyone else. *)
THEOREM NoClientHearsItself == Spec => []NoSelfRelay
  <1>1. IInv => NoSelfRelay
    BY DEF IInv
  <1>2. QED
    BY Inductive, <1>1, PTL

-------------------------------------------------------------------------------
(* What a datagram makes the server post: nothing, or the answers to it, each of
   them new. *)
LEMMA PostedByReceive ==
    ASSUME IInv, NEW e \in Endpoint, NEW d \in Frame, Receive(e, d), Posted # {}
    PROVE  \E me \in Connected(e) :
              /\ Posted = Answers(me, peers \cup {me}, d)
              /\ peers' = Remaining(me, peers \cup {me}, d)
  <1>1. PICK me \in Connected(e) :
           /\ peers' = Remaining(me, peers \cup {me}, d)
           /\ Send(Answers(me, peers \cup {me}, d))
    BY DEF Receive, Posted
  <1> DEFINE room == peers \cup {me}
  <1>2. /\ me \in Connection /\ me.remote_endpoint = e
        /\ \A p \in room : p.remote_endpoint = e => p = me
    BY SenderOfDatagram DEF IInv
  <1>3. room \in SUBSET Connection /\ me \in room
    BY <1>2 DEF IInv, TypeOK
  <1>4. \A m \in Answers(me, room, d) : m.turn = turn
    BY <1>2, <1>3, AnswersOfPacket DEF IInv
  <1>5. \A m \in posted : m.turn \in Nat /\ turn \in Nat /\ m.turn < turn
    BY DEF IInv, Dated, TypeOK, Message
  <1>6. \A m \in Answers(me, room, d) : m \notin posted
    <2>1. ASSUME NEW m \in Answers(me, room, d), m \in posted PROVE FALSE
      <3>1. m.turn = turn BY <1>4
      <3>2. m.turn \in Nat /\ turn \in Nat /\ m.turn < turn BY <1>5, <2>1
      <3>3. QED BY <3>1, <3>2
    <2>2. QED BY <2>1
  <1>7. posted' = posted \cup Answers(me, room, d)
    BY <1>1 DEF Send
  <1>8. Posted = Answers(me, room, d)
    BY <1>6, <1>7 DEF Posted
  <1>9. QED
    BY <1>1, <1>8

(* One media packet in broadcast mode: one copy for each other member. *)
LEMMA CopiesOfMedia ==
    ASSUME IInv, NEW e \in Endpoint, NEW d \in Frame, NEW me \in Connected(e),
           Posted = Answers(me, peers \cup {me}, d),
           NEW f \in Endpoint, NEW m \in Posted
    PROVE  m.type \in MediaType /\ ~isEchoMode =>
              Cardinality(ToEndpoint(Posted, f))
                 = (IF Present(f) /\ f # m.from THEN 1 ELSE 0)
  <1> SUFFICES ASSUME m.type \in MediaType, ~isEchoMode
               PROVE  Cardinality(ToEndpoint(Posted, f))
                         = (IF Present(f) /\ f # m.from THEN 1 ELSE 0)
    OBVIOUS
  <1> DEFINE room == peers \cup {me}
             copy(p) == [conn |-> p, type |-> d.type, size |-> d.size,
                         from |-> me.remote_endpoint, turn |-> turn]
  <1>1. /\ me \in Connection /\ me.remote_endpoint = e
        /\ \A p, q \in room : p.remote_endpoint = q.remote_endpoint => p = q
    BY SenderOfDatagram DEF IInv
  <1>2. d.type \in MediaType
    BY DEF Answers, Packets, MediaType
  <1>3. Posted = {copy(p) : p \in room \ {me}}
    BY <1>2 DEF Answers, Packets, MediaType
  <1>4. m.from = e
    BY <1>1, <1>3
  <1>5. Present(f) <=> \E p \in peers : p.remote_endpoint = f
    BY DEF IInv, Membership
  <1>6. CASE Present(f) /\ f # e
    <2>1. PICK p \in peers : p.remote_endpoint = f
      BY <1>5, <1>6
    <2>2. \A q \in room \ {me} : q.remote_endpoint = f <=> q = p
      BY <1>1, <1>6, <2>1
    <2>3. p \in room \ {me}
      BY <1>1, <1>6, <2>1
    <2>4. ToEndpoint(Posted, f) = {n \in Posted : n.conn = p}
      <3>1. \A n \in Posted : n.conn \in room \ {me}
        BY <1>3
      <3>2. \A n \in Posted : n.conn.remote_endpoint = f <=> n.conn = p
        BY <2>2, <3>1
      <3>3. QED
        BY <3>2 DEF ToEndpoint
    <2>5. {n \in Posted : n.conn = p} = {copy(p)}
      BY <1>3, <2>3
    <2>6. QED
      BY <1>4, <1>6, <2>4, <2>5, FS_Singleton
  <1>7. CASE ~(Present(f) /\ f # e)
    <2>1. \A p \in room \ {me} : p.remote_endpoint # f
      BY <1>1, <1>5, <1>7
    <2>2. ToEndpoint(Posted, f) = {}
      BY <1>3, <2>1 DEF ToEndpoint
    <2>3. QED
      BY <1>4, <1>7, <2>2, FS_EmptySet
  <1>8. QED
    BY <1>6, <1>7

(* The relay loop of processClientMessagePayload, over any number of clients
   and any sequence of datagrams: each media packet is sent once to everyone in
   the room but its sender, and to nobody else. *)
THEOREM RelayIsExact == Spec => RelayExact
  <1>1. IInv /\ [Next]_vars => \A m \in Posted : RelayedOnce(m)
    <2> SUFFICES ASSUME IInv, [Next]_vars, NEW m \in Posted
                 PROVE  RelayedOnce(m)
      OBVIOUS
    <2>1. ASSUME NEW e \in Endpoint, NEW d \in Frame, Receive(e, d)
          PROVE  RelayedOnce(m)
      BY <2>1, PostedByReceive, CopiesOfMedia DEF RelayedOnce
    <2>2. posted' = posted => Posted = {}
      BY DEF Posted
    <2>3. QED
      BY <2>1, <2>2 DEF Next, SendPending, vars
  <1>2. QED
    BY <1>1, Inductive, PTL DEF Spec, RelayExact

(* Nothing is addressed to a connection that the handler has removed. *)
THEOREM SendsToMembers == Spec => SendsToMembersOnly
  <1>1. IInv /\ [Next]_vars => \A m \in Posted : m.conn \in peers'
    <2> SUFFICES ASSUME IInv, [Next]_vars, NEW m \in Posted
                 PROVE  m.conn \in peers'
      OBVIOUS
    <2>1. ASSUME NEW e \in Endpoint, NEW d \in Frame, Receive(e, d)
          PROVE  m.conn \in peers'
      <3>1. PICK me \in Connected(e) :
               /\ Posted = Answers(me, peers \cup {me}, d)
               /\ peers' = Remaining(me, peers \cup {me}, d)
        BY <2>1, PostedByReceive
      <3>2. m.conn \in peers \cup {me} /\ d.type # "LogoutRequest"
        BY <3>1 DEF Answers, Packets, MediaType
      <3>3. QED
        BY <3>1, <3>2 DEF Remaining
    <2>2. posted' = posted => Posted = {}
      BY DEF Posted
    <2>3. QED
      BY <2>1, <2>2 DEF Next, SendPending, vars
  <1>2. QED
    BY <1>1, Inductive, PTL DEF Spec, SendsToMembersOnly

(* The room holds each present client, once. *)
THEOREM RoomIsRight == Spec => []RoomIsExact
  <1>1. IInv => RoomIsExact
    BY DEF IInv, RoomIsExact
  <1>2. QED
    BY Inductive, <1>1, PTL

-------------------------------------------------------------------------------
(* The server implements the relay: a datagram that parses is said by its sender,
   any other that is not empty lets its sender enter. *)
Inside == {p.remote_endpoint : p \in peers}
View(m) == [to |-> m.conn.remote_endpoint, type |-> m.type, from |-> m.from,
            id |-> <<m.conn.obj, m.turn>>]

(* Packets: one for each connection of C, for an address each. *)
LEMMA PacketsTell ==
    ASSUME NEW C \in SUBSET Connection, NEW me \in Connection, NEW type, NEW size,
           \A p, q \in C : p.remote_endpoint = q.remote_endpoint => p = q
    PROVE  /\ \A m \in Packets(C, type, size, me) :
                 /\ View(m).to \in {p.remote_endpoint : p \in C}
                 /\ View(m).type = type
                 /\ View(m).from = me.remote_endpoint
           /\ \A p \in C :
                 \E m \in Packets(C, type, size, me) : View(m).to = p.remote_endpoint
           /\ \A m, n \in Packets(C, type, size, me) :
                 View(m).to = View(n).to => View(m) = View(n)
  <1> DEFINE copy(p) == [conn |-> p, type |-> type, size |-> size,
                         from |-> me.remote_endpoint, turn |-> turn]
             M == Packets(C, type, size, me)
  <1>1. M = {copy(p) : p \in C}
    BY DEF Packets
  <1>2. \A p \in C : /\ View(copy(p)).to = p.remote_endpoint
                     /\ View(copy(p)).type = type
                     /\ View(copy(p)).from = me.remote_endpoint
    BY DEF View
  <1>3. \A m \in M : /\ View(m).to \in {p.remote_endpoint : p \in C}
                     /\ View(m).type = type
                     /\ View(m).from = me.remote_endpoint
    BY <1>1, <1>2
  <1>4. \A p \in C : copy(p) \in M /\ View(copy(p)).to = p.remote_endpoint
    BY <1>1, <1>2
  <1>5. ASSUME NEW m \in M, NEW n \in M, View(m).to = View(n).to
        PROVE  View(m) = View(n)
    <2>1. PICK p \in C, q \in C : m = copy(p) /\ n = copy(q)
      BY <1>1
    <2>2. p.remote_endpoint = q.remote_endpoint
      BY <1>2, <1>5, <2>1
    <2>3. p = q
      BY <2>2
    <2>4. QED BY <2>1, <2>3
  <1>6. QED BY <1>3, <1>4, <1>5

LEMMA PacketsAreTold ==
    ASSUME NEW C \in SUBSET Connection, NEW me \in Connection, NEW type, NEW size,
           \A p, q \in C : p.remote_endpoint = q.remote_endpoint => p = q,
           Seen \subseteq Seen',
           Seen' \ Seen = {View(m) : m \in Packets(C, type, size, me)}
    PROVE  Abstract!Tell({p.remote_endpoint : p \in C}, type, me.remote_endpoint)
  <1> DEFINE M == Packets(C, type, size, me)
             new == Seen' \ Seen
             hearers == {p.remote_endpoint : p \in C}
  <1>1. new = {View(m) : m \in M}
    OBVIOUS
  <1>2. \A m \in M : /\ View(m).to \in hearers
                     /\ View(m).type = type
                     /\ View(m).from = me.remote_endpoint
    BY PacketsTell
  <1>3. \A h \in hearers : \E m \in M : View(m).to = h
    <2>1. \A p \in C : \E m \in M : View(m).to = p.remote_endpoint
      BY PacketsTell
    <2>2. QED BY <2>1
  <1>4. \A m, n \in M : View(m).to = View(n).to => View(m) = View(n)
    BY PacketsTell
  <1> HIDE DEF M, new, hearers
  <1>5. \A m \in new : m.to \in hearers /\ m.type = type /\ m.from = me.remote_endpoint
    BY <1>1, <1>2
  <1>6. ASSUME NEW h \in hearers
        PROVE  \E m \in new : m.to = h /\ \A n \in new : n.to = h => n = m
    <2>1. PICK m \in M : View(m).to = h
      BY <1>3
    <2>2. View(m) \in new
      BY <1>1
    <2>3. ASSUME NEW n \in new, n.to = h PROVE n = View(m)
      <3>1. PICK k \in M : n = View(k)
        BY <1>1
      <3>2. QED BY <1>4, <2>1, <2>3, <3>1
    <2>4. QED BY <2>1, <2>2, <2>3
  <1>7. QED BY <1>5, <1>6 DEF Abstract!Tell, new, hearers

(* Whom processClientMessagePayload answers is whom the relay tells. *)
LEMMA AnswersTell ==
    ASSUME TypeOK, NEW d \in Frame, NEW me \in Connection, NEW room \in SUBSET Connection,
           me \in room
    PROVE  \E C \in SUBSET room, n \in Nat :
              /\ Answers(me, room, d) = Packets(C, Abstract!Told(d.type), n, me)
              /\ (\A p \in room : p.remote_endpoint = me.remote_endpoint => p = me)
                    => {p.remote_endpoint : p \in C}
                         = Abstract!Hearers(me.remote_endpoint,
                                            {p.remote_endpoint : p \in room}, d.type)
  <1> USE DEF Abstract!Told, Abstract!Hearers, Abstract!MediaType, MediaType
  <1>1. CASE d.type = "HeartBeatRequest"
    <2>1. Answers(me, room, d) = Packets({me}, Abstract!Told(d.type), 0, me)
      BY <1>1 DEF Answers
    <2>2. QED BY <1>1, <2>1
  <1>2. CASE d.type = "LoginRequest"
    <2>1. Answers(me, room, d) = Packets({me}, Abstract!Told(d.type), 0, me)
      BY <1>2 DEF Answers
    <2>2. QED BY <1>2, <2>1
  <1>3. CASE d.type \in MediaType /\ isEchoMode
    <2>1. Answers(me, room, d) = Packets({me}, Abstract!Told(d.type), d.size, me)
      BY <1>3 DEF Answers
    <2>2. QED BY <1>3, <2>1, FrameFields
  <1>4. CASE d.type \in MediaType /\ ~isEchoMode
    <2>1. Answers(me, room, d) = Packets(room \ {me}, Abstract!Told(d.type), d.size, me)
      BY <1>4 DEF Answers
    <2>2. (\A p \in room : p.remote_endpoint = me.remote_endpoint => p = me)
             => {p.remote_endpoint : p \in room \ {me}}
                  = Abstract!Hearers(me.remote_endpoint,
                                     {p.remote_endpoint : p \in room}, d.type)
      BY <1>4
    <2>3. room \ {me} \in SUBSET room /\ d.size \in Nat
      BY FrameFields
    <2>4. QED BY <2>1, <2>2, <2>3
  <1>5. CASE d.type \notin MediaType \cup {"HeartBeatRequest", "LoginRequest"}
    <2>1. Answers(me, room, d) = Packets({}, Abstract!Told(d.type), 0, me)
      BY <1>5 DEF Answers, Packets
    <2>2. QED BY <1>5, <2>1
  <1>6. QED BY <1>1, <1>2, <1>3, <1>4, <1>5 DEF TypeOK

(* A datagram that parses is what its sender says. *)
LEMMA ParsedIsSaid ==
    ASSUME IInv, NEW e \in Endpoint, NEW d \in Frame, NEW me \in Connected(e),
           peers' = Remaining(me, peers \cup {me}, d),
           Send(Answers(me, peers \cup {me}, d)), UNCHANGED isEchoMode
    PROVE  Abstract!Say(e, d.type)
  <1> DEFINE room == peers \cup {me}
             inside == Inside \cup {e}
             answers == Answers(me, room, d)
  <1>1. /\ me \in Connection /\ me.remote_endpoint = e
        /\ \A p \in room : p.remote_endpoint = e => p = me
        /\ \A p, q \in room : p.remote_endpoint = q.remote_endpoint => p = q
    BY SenderOfDatagram DEF IInv
  <1>2. room \in SUBSET Connection /\ me \in room
    BY <1>1 DEF IInv, TypeOK
  <1>3. {p.remote_endpoint : p \in room} = inside
    BY <1>1 DEF Inside
  <1>4. Inside' = IF d.type = "LogoutRequest" THEN inside \ {e} ELSE inside
    <2>1. CASE d.type = "LogoutRequest"
      <3>1. {p.remote_endpoint : p \in room \ {me}} = inside \ {e}
        BY <1>1, <1>3
      <3>2. QED BY <2>1, <3>1 DEF Remaining, Inside
    <2>2. CASE d.type # "LogoutRequest"
      BY <1>3, <2>2 DEF Remaining, Inside
    <2>3. QED BY <2>1, <2>2
  <1>5. Inside \cup {e} \in {Inside, Inside \cup {e}}
    OBVIOUS
  <1>6. Seen = {View(m) : m \in posted} /\ Seen' = {View(m) : m \in posted'}
    BY DEF Seen, View
  <1>7. Seen' \ Seen = {View(m) : m \in answers}
    <2>1. \A m \in posted : m.turn \in Nat /\ turn \in Nat /\ m.turn < turn
      BY DEF IInv, Dated, TypeOK, Message
    <2>2. \A m \in answers : m.turn = turn
      BY <1>1, <1>2, AnswersOfPacket DEF IInv
    <2>3. \A m \in answers, n \in posted : View(m) # View(n)
      <3>1. ASSUME NEW m \in answers, NEW n \in posted, View(m) = View(n) PROVE FALSE
        <4>1. m.turn = n.turn
          BY <3>1 DEF View
        <4>2. QED BY <2>1, <2>2, <4>1
      <3>2. QED BY <3>1
    <2>4. posted' = posted \cup answers
      BY DEF Send
    <2>5. QED BY <1>6, <2>3, <2>4
  <1>8. PICK C \in SUBSET room, n \in Nat :
           /\ answers = Packets(C, Abstract!Told(d.type), n, me)
           /\ {p.remote_endpoint : p \in C} = Abstract!Hearers(e, inside, d.type)
    BY <1>1, <1>2, <1>3, AnswersTell DEF IInv
  <1>9. Abstract!Tell(Abstract!Hearers(e, inside, d.type), Abstract!Told(d.type), e)
    <2>1. C \in SUBSET Connection
          /\ \A p, q \in C : p.remote_endpoint = q.remote_endpoint => p = q
      BY <1>1, <1>2
    <2>2. Seen \subseteq Seen'
      BY <1>6 DEF Send
    <2>3. Seen' \ Seen = {View(m) : m \in Packets(C, Abstract!Told(d.type), n, me)}
      BY <1>7, <1>8
    <2>4. Abstract!Tell({p.remote_endpoint : p \in C}, Abstract!Told(d.type),
                        me.remote_endpoint)
      BY <1>1, <2>1, <2>2, <2>3, PacketsAreTold
    <2>5. QED BY <1>1, <1>8, <2>4
  <1>10. QED BY <1>4, <1>9 DEF Abstract!Say, Inside

(* Any other datagram only lets its sender enter. *)
LEMMA UnparsedEnters ==
    ASSUME IInv, NEW e \in Endpoint, NEW me \in Connected(e),
           peers' = peers \cup {me}, UNCHANGED <<isEchoMode, posted>>
    PROVE  Abstract!Enter(e)
  <1>1. me.remote_endpoint = e
    BY SenderOfDatagram DEF IInv
  <1>2. Inside' = Inside \cup {e}
    BY <1>1 DEF Inside
  <1>3. QED BY <1>2 DEF Abstract!Enter, Inside, Seen

(* The server is the relay of the abstract specification, for every set of clients
   and every sequence of datagrams: insert, processClientMessagePayload and kickMeOut
   in one step of it. *)
THEOREM Implementation == Spec => ImplementsRelay
  <1>1. Init => Abstract!Init
    <2> SUFFICES ASSUME Init PROVE Abstract!Init
      OBVIOUS
    <2>1. isEchoMode \in BOOLEAN
      BY InitIInv DEF IInv, TypeOK
    <2>2. {p.remote_endpoint : p \in peers} = {} /\ Seen = {}
      BY DEF Init, Seen
    <2>3. QED BY <2>1, <2>2 DEF Abstract!Init
  <1>2. IInv /\ [Next]_vars => [Abstract!Next]_(Abstract!relayVars)
    <2> SUFFICES ASSUME IInv, [Next]_vars
                 PROVE  Abstract!Next \/ UNCHANGED Abstract!relayVars
      BY DEF Abstract!relayVars
    <2>1. ASSUME NEW e \in Endpoint, NEW d \in Frame, Receive(e, d)
          PROVE  Abstract!Next \/ UNCHANGED Abstract!relayVars
      <3>1. CASE Received(d) = 0
        BY <2>1, <3>1 DEF Receive, Abstract!relayVars, Seen
      <3>2. CASE Received(d) # 0 /\ MakePacket(d)
        <4>1. PICK me \in Connected(e) :
                 /\ peers' = Remaining(me, peers \cup {me}, d)
                 /\ Send(Answers(me, peers \cup {me}, d))
                 /\ UNCHANGED isEchoMode
          BY <2>1, <3>2 DEF Receive
        <4>2. Abstract!Say(e, d.type)
          BY <4>1, ParsedIsSaid
        <4>3. d.type \in Abstract!PayloadType
          BY FrameFields DEF PayloadType, Abstract!PayloadType
        <4>4. QED BY <4>2, <4>3 DEF Abstract!Next
      <3>3. CASE Received(d) # 0 /\ ~MakePacket(d)
        <4>1. PICK me \in Connected(e) :
                 peers' = peers \cup {me} /\ UNCHANGED <<isEchoMode, posted>>
          BY <2>1, <3>3 DEF Receive
        <4>2. Abstract!Enter(e)
          BY <4>1, UnparsedEnters
        <4>3. QED BY <4>2 DEF Abstract!Next
      <3>4. QED BY <3>1, <3>2, <3>3
    <2>2. UNCHANGED <<isEchoMode, peers, posted>> => UNCHANGED Abstract!relayVars
      BY DEF Abstract!relayVars, Seen
    <2>3. QED
      BY <2>1, <2>2 DEF Next, SendPending, vars
  <1>3. QED
    BY <1>1, <1>2, Inductive, PTL DEF Spec, ImplementsRelay, Abstract!Spec
===============================================================================

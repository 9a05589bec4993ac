----------------------------- MODULE TcpServerProofs -----------------------------
(***************************************************************************)
(* Theorems about the TCP server, for any number of connections, every set   *)
(* of requests, both modes and every bound on the packets handled, whatever  *)
(* connection is cut at whatever moment.                                     *)
(***************************************************************************)
EXTENDS TcpServer, SequenceTheorems, FiniteSetTheorems, TLAPS

USE SessionAssumption, RequestAssumption, TraceAssumption, BoundAssumption

(* Each packet that is coming in will get a number of its own. *)
PacketsFit == handled + Cardinality(ComingIn) <= MaxPackets

(* A connection that has not been made yet has left no trace. *)
NotYetMade == \A s \in Session : socket_[s] = "none" =>
                 /\ reading[s] = "nothing" /\ s \notin participants_
                 /\ write_msgs_[s] = <<>>

(* The queue and the flag that is missing from the code: the session knows that a
   write is under way by its queue alone. *)
QueueHoldsWrite == \A s \in Session : writing[s] > 0 => write_msgs_[s] # <<>>

(* join refuses whoever comes to a full room. *)
RoomFits == Cardinality(participants_) <= RoomSize

IInv == /\ TypeOK /\ PacketsFit /\ NotYetMade /\ QueueHoldsWrite /\ RoomFits
        /\ WritesInOrder /\ MembersAreServed

-------------------------------------------------------------------------------
(* The packets coming in are finitely many, and a read changes that by one. *)
LEMMA ComingInIsFinite ==
    /\ IsFiniteSet(ComingIn) /\ Cardinality(ComingIn) \in Nat
  BY FS_Subset, FS_CardinalityType DEF ComingIn

LEMMA OneMoreComing ==
    ASSUME NEW s \in Session, ComingIn' = ComingIn \cup {s}
    PROVE  Cardinality(ComingIn') <= Cardinality(ComingIn) + 1
  <1>1. Cardinality(ComingIn \cup {s}) =
           IF s \in ComingIn THEN Cardinality(ComingIn) ELSE Cardinality(ComingIn) + 1
    BY ComingInIsFinite, FS_AddElement, Zenon
  <1>2. QED
    BY <1>1, ComingInIsFinite

LEMMA OneLessComing ==
    ASSUME NEW s \in Session, ComingIn' = ComingIn \ {s}
    PROVE  /\ Cardinality(ComingIn') <= Cardinality(ComingIn)
           /\ s \in ComingIn => Cardinality(ComingIn') = Cardinality(ComingIn) - 1
  <1>1. Cardinality(ComingIn \ {s}) =
           IF s \in ComingIn THEN Cardinality(ComingIn) - 1 ELSE Cardinality(ComingIn)
    BY ComingInIsFinite, FS_RemoveElement, Zenon
  <1>2. QED
    BY <1>1, ComingInIsFinite

LEMMA LeavesRoom ==
    ASSUME NEW s \in Session, RoomFits, participants_ \subseteq Session,
           participants_' = participants_ \ {s}
    PROVE  RoomFits'
  <1>1. IsFiniteSet(participants_) /\ Cardinality(participants_) \in Nat
    BY FS_Subset, FS_CardinalityType
  <1>2. Cardinality(participants_ \ {s}) \in
           {Cardinality(participants_), Cardinality(participants_) - 1}
    BY <1>1, FS_RemoveElement, Zenon
  <1>3. QED
    BY <1>1, <1>2 DEF RoomFits, RoomSize

(* One packet more is in order when those before it were. *)
LEMMA AppendInOrder ==
    ASSUME NEW out \in Seq(Packets), NEW queue \in Seq(Packets), NEW p \in Packets
    PROVE  out \o Append(queue, p) = Append(out \o queue, p)
  <1>1. Append(queue, p) = queue \o <<p>> /\ <<p>> \in Seq(Packets)
    BY AppendIsConcat
  <1>2. out \o (queue \o <<p>>) = (out \o queue) \o <<p>>
    BY <1>1, ConcatAssociative
  <1>3. out \o queue \in Seq(Packets)
    BY ConcatProperties
  <1>4. (out \o queue) \o <<p>> = Append(out \o queue, p)
    BY <1>3, AppendIsConcat
  <1>5. QED
    BY <1>1, <1>2, <1>4

(* So is the packet that goes from the queue to the socket. *)
LEMMA MoveInOrder ==
    ASSUME NEW out \in Seq(Packets), NEW queue \in Seq(Packets), queue # <<>>
    PROVE  Append(out, Head(queue)) \o Tail(queue) = out \o queue
  <1>1. /\ Head(queue) \in Packets /\ Tail(queue) \in Seq(Packets)
        /\ <<Head(queue)>> \in Seq(Packets)
    BY HeadTailProperties
  <1>2. Append(out, Head(queue)) = out \o <<Head(queue)>>
    BY <1>1, AppendIsConcat
  <1>3. <<Head(queue)>> \o Tail(queue) = queue
    <2> DEFINE first == <<Head(queue)>>
    <2>1. first \o Tail(queue) \in Seq(Packets) /\ Len(queue) \in Nat \ {0}
          /\ Len(first) = 1 /\ first[1] = queue[1]
      BY <1>1, ConcatProperties, EmptySeq
    <2>2. Len(first \o Tail(queue)) = Len(queue)
      BY <1>1, <2>1, ConcatProperties, HeadTailProperties
    <2>3. ASSUME NEW i \in 1 .. Len(queue)
          PROVE  (first \o Tail(queue))[i] = queue[i]
      <3>1. (first \o Tail(queue))[i] = IF i <= 1 THEN first[i] ELSE Tail(queue)[i - 1]
        BY <1>1, <2>1, ConcatProperties, HeadTailProperties
      <3>2. i > 1 => Tail(queue)[i - 1] = queue[i]
        BY <2>1, HeadTailProperties
      <3>3. QED
        BY <2>1, <3>1, <3>2
    <2> HIDE DEF first
    <2>4. QED
      BY <2>1, <2>2, <2>3, SeqEqual
  <1>4. (out \o <<Head(queue)>>) \o Tail(queue) = out \o (<<Head(queue)>> \o Tail(queue))
    BY <1>1, ConcatAssociative
  <1>5. QED
    BY <1>2, <1>3, <1>4

LEMMA MoreToWrite ==
    ASSUME NEW queue \in Seq(Packets), queue # <<>>
    PROVE  Len(queue) > 1 <=> Tail(queue) # <<>>
  <1>1. /\ Len(queue) \in Nat \ {0} /\ Tail(queue) \in Seq(Packets)
        /\ Len(Tail(queue)) = Len(queue) - 1
    BY HeadTailProperties, EmptySeq
  <1>2. Tail(queue) # <<>> <=> Len(Tail(queue)) # 0
    BY <1>1, EmptySeq
  <1>3. Len(Tail(queue)) # 0 <=> Len(queue) > 1
    <2>1. \A m \in Nat \ {0} : m - 1 # 0 <=> m > 1
      OBVIOUS
    <2>2. QED
      BY <1>1, <2>1, Zenon
  <1>4. QED
    BY <1>2, <1>3, Zenon

-------------------------------------------------------------------------------
LEMMA InitIInv == Init => IInv
  <1> SUFFICES ASSUME Init PROVE IInv
    OBVIOUS
  <1>1. TypeOK
    <2>1. isEchoMode \in BOOLEAN /\ ended \in BOOLEAN
      BY Zenon DEF Init
    <2>2. <<>> \in Seq(Packets)
      BY EmptySeq
    <2>3. QED
      BY <2>1, <2>2 DEF Init, TypeOK
  <1>2. PacketsFit
    <2>1. ComingIn = {}
      BY DEF Init, ComingIn
    <2>2. QED
      BY <2>1, FS_EmptySet DEF Init, PacketsFit
  <1>3. NotYetMade /\ QueueHoldsWrite /\ MembersAreServed
    BY DEF Init, NotYetMade, QueueHoldsWrite, MembersAreServed
  <1>4. RoomFits
    BY FS_EmptySet DEF Init, RoomFits, RoomSize
  <1>5. WritesInOrder
    BY ConcatEmptySeq, EmptySeq DEF Init, WritesInOrder
  <1>6. QED
    BY <1>1, <1>2, <1>3, <1>4, <1>5 DEF IInv

(* doAccept: a session is started with nothing to write, and the room has a place
   for it. *)
LEMMA AcceptIInv ==
    ASSUME IInv, NEW s \in Session, Accept(s)
    PROVE  IInv'
  <1>1. UNCHANGED <<isEchoMode, handled, counterUserMessage_, read_msg_, write_msgs_,
                    writing, posted, written>>
    BY DEF Accept, writeVars
  <1>2. (WritesInOrder /\ QueueHoldsWrite)'
    BY <1>1 DEF IInv, WritesInOrder, QueueHoldsWrite
  <1>3. CASE UNCHANGED <<participants_, reading, ended>> /\
             socket_' = [socket_ EXCEPT ![s] = "closed"]
    BY <1>1, <1>2, <1>3 DEF IInv, TypeOK, PacketsFit, ComingIn, NotYetMade, RoomFits,
                       MembersAreServed
  <1>4. ASSUME NEW now \in {"open", "reset"}, Start(s, now),
               Cardinality(participants_) < RoomSize
        PROVE  IInv'
    <2>1. socket_[s] = "none" /\ reading[s] = "nothing" /\ write_msgs_[s] = <<>>
      BY DEF Accept, IInv, NotYetMade
    <2>2. TypeOK'
      BY <1>1, <1>4 DEF Start, IInv, TypeOK
    <2>3. PacketsFit'
      <3>1. ComingIn' = ComingIn
        BY <1>4, <2>1 DEF Start, ComingIn, IInv, TypeOK
      <3>2. QED
        BY <1>1, <3>1 DEF IInv, PacketsFit
    <2>4. (NotYetMade /\ MembersAreServed)'
      BY <1>1, <1>4, <2>1 DEF Start, Accept, IInv, TypeOK, NotYetMade, MembersAreServed
    <2>5. RoomFits'
      <3>1. IsFiniteSet(participants_) /\ Cardinality(participants_) \in Nat
        BY FS_Subset, FS_CardinalityType DEF IInv, TypeOK
      <3>2. Cardinality(participants_ \cup {s}) \in
               {Cardinality(participants_), Cardinality(participants_) + 1}
        BY <3>1, FS_AddElement, Zenon
      <3>3. QED
        BY <1>4, <3>1, <3>2 DEF Start, RoomFits, RoomSize
    <2>6. QED
      BY <1>2, <2>2, <2>3, <2>4, <2>5 DEF IInv
  <1>5. QED
    BY <1>3, <1>4 DEF Accept

LEMMA ReadIInv ==
    ASSUME IInv, NEW s \in Session,
           ReadPayload(s) \/ \E type \in Request : ReadHeader(s, type)
    PROVE  IInv'
  <1>1. CASE ReadPayload(s)
    <2>1. ComingIn' = ComingIn
      BY <1>1 DEF ReadPayload, ComingIn, IInv, TypeOK
    <2>2. PacketsFit'
      BY <1>1, <2>1 DEF ReadPayload, IInv, PacketsFit, roomVars
    <2>3. (TypeOK /\ NotYetMade /\ QueueHoldsWrite /\ RoomFits /\ WritesInOrder
             /\ MembersAreServed)'
      BY <1>1 DEF ReadPayload, IInv, TypeOK, NotYetMade, QueueHoldsWrite, RoomFits,
                  WritesInOrder, MembersAreServed, roomVars, writeVars
    <2>4. QED
      BY <2>2, <2>3 DEF IInv
  <1>2. ASSUME NEW type \in Request, ReadHeader(s, type) PROVE IInv'
    <2>1. ComingIn' = ComingIn \cup {s}
      BY <1>2 DEF ReadHeader, ComingIn, IInv, TypeOK
    <2>2. Cardinality(ComingIn') <= Cardinality(ComingIn) + 1
      BY <2>1, OneMoreComing
    <2>3. Cardinality(ComingIn') \in Nat
      BY <2>1, ComingInIsFinite, FS_AddElement, FS_CardinalityType
    <2>4. PacketsFit'
      BY <1>2, <2>2, <2>3, ComingInIsFinite
         DEF ReadHeader, IInv, TypeOK, PacketsFit, roomVars
    <2>5. (TypeOK /\ NotYetMade /\ QueueHoldsWrite /\ RoomFits /\ WritesInOrder
             /\ MembersAreServed)'
      BY <1>2 DEF ReadHeader, IInv, TypeOK, NotYetMade, QueueHoldsWrite, RoomFits,
                  WritesInOrder, MembersAreServed, roomVars, writeVars
    <2>6. QED
      BY <2>4, <2>5 DEF IInv
  <1>3. QED
    BY <1>1, <1>2

(* A failed read takes the session out of the room, and nobody listens to it then. *)
LEMMA ReadFailsIInv ==
    ASSUME IInv, NEW s \in Session, ReadFails(s)
    PROVE  IInv'
  <1>1. ComingIn' = ComingIn \ {s}
    BY DEF ReadFails, ComingIn, IInv, TypeOK
  <1>2. PacketsFit'
    <2>1. Cardinality(ComingIn') <= Cardinality(ComingIn) /\ Cardinality(ComingIn') \in Nat
      BY <1>1, OneLessComing, ComingInIsFinite, FS_RemoveElement, FS_CardinalityType
    <2>2. QED
      BY <2>1, ComingInIsFinite DEF ReadFails, IInv, TypeOK, PacketsFit
  <1>3. RoomFits'
    BY LeavesRoom DEF ReadFails, Leave, IInv, TypeOK
  <1>4. (TypeOK /\ NotYetMade /\ QueueHoldsWrite /\ WritesInOrder /\ MembersAreServed)'
    BY DEF ReadFails, Leave, IInv, TypeOK, NotYetMade, QueueHoldsWrite, WritesInOrder,
           MembersAreServed, writeVars
  <1>5. QED
    BY <1>2, <1>3, <1>4 DEF IInv

(* deliver: the packet is behind those that wait, and has a write under way, its own
   or theirs, when they had one. *)
LEMMA DeliverKeeps ==
    ASSUME IInv, NEW to \in SUBSET Session, NEW p \in Packets, Deliver(to, p)
    PROVE  /\ write_msgs_' \in [Session -> Seq(Packets)]
           /\ posted' \in [Session -> Seq(Packets)]
           /\ written' = written
           /\ writing' \in [Session -> 0 .. 1]
           /\ WritesInOrder' /\ QueueHoldsWrite'
           /\ \A r \in Session :
                 /\ r \notin to => write_msgs_'[r] = write_msgs_[r]
                 /\ (write_msgs_[r] # <<>> => writing[r] > 0) =>
                       (write_msgs_'[r] # <<>> => writing'[r] > 0)
  <1>1. ASSUME NEW r \in Session
        PROVE  /\ write_msgs_[r] \in Seq(Packets) /\ posted[r] \in Seq(Packets)
               /\ written[r] \in Seq(Packets) /\ writing[r] \in 0 .. 1
               /\ written[r] \o write_msgs_[r] = posted[r]
               /\ writing[r] > 0 => write_msgs_[r] # <<>>
    BY DEF IInv, TypeOK, WritesInOrder, QueueHoldsWrite
  <1>2. ASSUME NEW r \in Session, r \in to
        PROVE  /\ write_msgs_'[r] = Append(write_msgs_[r], p)
               /\ write_msgs_'[r] \in Seq(Packets) /\ write_msgs_'[r] # <<>>
               /\ posted'[r] = Append(posted[r], p) /\ posted'[r] \in Seq(Packets)
               /\ writing'[r] = IF Starts(r) THEN writing[r] + 1 ELSE writing[r]
               /\ written'[r] \o write_msgs_'[r] = posted'[r]
    <2>1. /\ write_msgs_'[r] = Append(write_msgs_[r], p)
          /\ posted'[r] = Append(posted[r], p)
          /\ writing'[r] = IF Starts(r) THEN writing[r] + 1 ELSE writing[r]
          /\ written' = written
      BY <1>2 DEF Deliver
    <2>2. /\ write_msgs_'[r] \in Seq(Packets) /\ write_msgs_'[r] # <<>>
          /\ posted'[r] \in Seq(Packets)
      <3>1. \A q \in Seq(Packets) :
               Append(q, p) \in Seq(Packets) /\ Append(q, p) # <<>>
        BY AppendProperties
      <3>2. /\ Append(write_msgs_[r], p) \in Seq(Packets)
            /\ Append(write_msgs_[r], p) # <<>>
            /\ Append(posted[r], p) \in Seq(Packets)
        BY <1>1, <3>1, Zenon
      <3>3. QED
        BY <2>1, <3>1, <3>2, Zenon
    <2>3. written[r] \o Append(write_msgs_[r], p) = Append(posted[r], p)
      <3>1. written[r] \o Append(write_msgs_[r], p)
               = Append(written[r] \o write_msgs_[r], p)
        BY <1>1, AppendInOrder, Zenon
      <3>2. QED
        BY <1>1, <3>1, Zenon
    <2>4. QED
      BY <2>1, <2>2, <2>3, Zenon
  <1>3. ASSUME NEW r \in Session, r \notin to
        PROVE  /\ write_msgs_'[r] = write_msgs_[r] /\ posted'[r] = posted[r]
               /\ writing'[r] = writing[r] /\ written'[r] = written[r]
    BY <1>3 DEF Deliver
  <1>4. ASSUME NEW r \in Session
        PROVE  /\ write_msgs_'[r] \in Seq(Packets) /\ posted'[r] \in Seq(Packets)
               /\ writing'[r] \in 0 .. 1
               /\ written'[r] \o write_msgs_'[r] = posted'[r]
               /\ writing'[r] > 0 => write_msgs_'[r] # <<>>
               /\ (write_msgs_[r] # <<>> => writing[r] > 0) =>
                     (write_msgs_'[r] # <<>> => writing'[r] > 0)
    <2>1. CASE r \in to
      <3>1. writing'[r] = IF write_msgs_[r] = <<>> THEN writing[r] + 1 ELSE writing[r]
        BY <2>1, <1>2, Zenon DEF Starts
      <3>2. writing[r] \in 0 .. 1 /\ (writing[r] > 0 => write_msgs_[r] # <<>>)
        BY <1>1, Zenon
      <3>3. /\ writing'[r] \in 0 .. 1
            /\ (write_msgs_[r] # <<>> => writing[r] > 0) => writing'[r] > 0
        BY <3>1, <3>2
      <3>4. QED
        BY <2>1, <1>2, <3>3, Zenon
    <2>2. CASE r \notin to
      BY <2>2, <1>1, <1>3
    <2>3. QED
      BY <2>1, <2>2
  <1>5. /\ write_msgs_' = [r \in Session |-> write_msgs_'[r]]
        /\ posted' = [r \in Session |-> posted'[r]]
        /\ writing' = [r \in Session |-> writing'[r]]
        /\ written' = written
    BY DEF Deliver
  <1>6. WritesInOrder' /\ QueueHoldsWrite'
    <2>1. \A r \in Session : writing'[r] \in 0 .. 1
      BY <1>4, Zenon
    <2>2. \A r \in Session : writing'[r] <= 1
      BY <2>1
    <2>3. QED
      BY <1>4, <2>2, Zenon DEF WritesInOrder, QueueHoldsWrite
  <1>7. QED
    BY <1>3, <1>4, <1>5, <1>6

LEMMA PacketTypes ==
    ASSUME TypeOK, NEW s \in Session
    PROVE  /\ read_msg_[s] \in PayloadType
           /\ Response(read_msg_[s]) \in PayloadType
           /\ Receivers(s, read_msg_[s]) \subseteq participants_ \cup {s}
  <1>1. read_msg_[s] \in PayloadType
    BY DEF TypeOK, PayloadType
  <1>2. Response(read_msg_[s]) \in PayloadType
    BY <1>1 DEF Response, PayloadType
  <1>3. Receivers(s, read_msg_[s]) \subseteq participants_ \cup {s}
    BY <1>1 DEF Receivers, PayloadType, MediaType
  <1>4. QED
    BY <1>1, <1>2, <1>3

(* A packet that is handled: its number is the next one and within the bound, since
   it was counted among those coming in; it goes to members and to its sender. *)
LEMMA ProcessIInv ==
    ASSUME IInv, NEW s \in Session, Process(s)
    PROVE  IInv'
  <1> DEFINE type == read_msg_[s]
             to == Receivers(s, type)
             p == [type |-> Response(type), from |-> s, n |-> handled']
  <1>1. /\ ~ended /\ reading[s] = "done" /\ handled' = handled + 1
        /\ counterUserMessage_' \in {counterUserMessage_, counterUserMessage_ + 1}
        /\ Deliver(to, p)
        /\ Leave(s) \/ UNCHANGED participants_
        /\ ended' \in BOOLEAN
        /\ reading' = [reading EXCEPT ![s] = IF ended' THEN "nothing" ELSE "header"]
        /\ UNCHANGED <<isEchoMode, socket_, read_msg_>>
    BY DEF Process
  <1>2. PacketsFit' /\ handled' \in 1 .. MaxPackets
    <2>1. ComingIn' = ComingIn \ {s} /\ s \in ComingIn
      BY <1>1 DEF ComingIn, IInv, TypeOK
    <2>2. Cardinality(ComingIn') = Cardinality(ComingIn) - 1
      BY <2>1, OneLessComing
    <2>3. Cardinality(ComingIn') \in Nat
      BY <2>1, ComingInIsFinite, FS_RemoveElement, FS_CardinalityType
    <2>4. QED
      BY <1>1, <2>2, <2>3, ComingInIsFinite DEF IInv, TypeOK, PacketsFit
  <1>3. p \in Packets /\ to \in SUBSET Session /\ to \subseteq participants_ \cup {s}
    BY <1>2, PacketTypes DEF Packets, IInv, TypeOK
  <1> HIDE DEF to, p
  <1>4. /\ write_msgs_' \in [Session -> Seq(Packets)]
        /\ posted' \in [Session -> Seq(Packets)]
        /\ written' = written
        /\ writing' \in [Session -> 0 .. 1]
        /\ WritesInOrder' /\ QueueHoldsWrite'
        /\ \A r \in Session :
              /\ r \notin to => write_msgs_'[r] = write_msgs_[r]
              /\ (write_msgs_[r] # <<>> => writing[r] > 0) =>
                    (write_msgs_'[r] # <<>> => writing'[r] > 0)
    BY <1>1, <1>3, DeliverKeeps
  <1>5. TypeOK'
    <2>1. handled' \in 0 .. MaxPackets /\ counterUserMessage_' \in 0 .. handled'
      BY <1>1, <1>2 DEF IInv, TypeOK
    <2>2. /\ participants_' \subseteq Session
          /\ reading' \in [Session -> {"nothing", "header", "payload", "done"}]
      BY <1>1 DEF Leave, IInv, TypeOK
    <2>3. QED
      BY <1>1, <1>4, <2>1, <2>2 DEF IInv, TypeOK
  <1>6. RoomFits'
    BY <1>1, LeavesRoom DEF Leave, IInv, TypeOK, RoomFits
  <1>7. NotYetMade'
    <2>1. ASSUME NEW r \in Session, socket_'[r] = "none"
          PROVE  /\ reading'[r] = "nothing" /\ r \notin participants_'
                 /\ write_msgs_'[r] = <<>>
      <3>1. /\ reading[r] = "nothing" /\ r \notin participants_
            /\ write_msgs_[r] = <<>> /\ r # s
        BY <1>1, <2>1 DEF IInv, NotYetMade
      <3>2. QED
        BY <1>1, <1>3, <1>4, <3>1 DEF Leave, IInv, TypeOK
    <2>2. QED
      BY <2>1 DEF NotYetMade
  <1>8. MembersAreServed'
    <2>1. ASSUME ~ended', NEW r \in participants_'
          PROVE  /\ write_msgs_'[r] # <<>> => writing'[r] > 0
                 /\ reading'[r] # "nothing"
      <3>1. /\ r \in Session
            /\ write_msgs_[r] # <<>> => writing[r] > 0
            /\ reading[r] # "nothing"
        BY <1>1, <2>1 DEF Leave, IInv, TypeOK, MembersAreServed
      <3>2. reading'[r] # "nothing"
        BY <1>1, <2>1, <3>1 DEF IInv, TypeOK
      <3>3. QED
        BY <1>4, <3>1, <3>2
    <2>2. QED
      BY <2>1 DEF MembersAreServed
  <1>9. QED
    BY <1>2, <1>4, <1>5, <1>6, <1>7, <1>8 DEF IInv

(* The next write starts exactly when something is left to write. *)
LEMMA WrittenIInv ==
    ASSUME IInv, NEW s \in Session, Written(s)
    PROVE  IInv'
  <1> DEFINE queue == write_msgs_[s]
  <1>1. /\ queue \in Seq(Packets) /\ written[s] \in Seq(Packets)
        /\ writing[s] = 1 /\ queue # <<>>
    BY DEF Written, IInv, TypeOK, QueueHoldsWrite
  <1>2. /\ Head(queue) \in Packets /\ Tail(queue) \in Seq(Packets)
        /\ Append(written[s], Head(queue)) \in Seq(Packets)
    BY <1>1, HeadTailProperties, AppendProperties
  <1>3. Len(queue) > 1 <=> Tail(queue) # <<>>
    BY <1>1, MoreToWrite
  <1>4. Append(written[s], Head(queue)) \o Tail(queue) = posted[s]
    <2>1. Append(written[s], Head(queue)) \o Tail(queue) = written[s] \o queue
      BY <1>1, MoveInOrder
    <2>2. QED
      BY <2>1 DEF IInv, WritesInOrder
  <1>5. /\ write_msgs_' = [write_msgs_ EXCEPT ![s] = Tail(queue)]
        /\ written' = [written EXCEPT ![s] = Append(written[s], Head(queue))]
        /\ writing' = [writing EXCEPT ![s] = IF Tail(queue) # <<>> THEN 1 ELSE 0]
        /\ UNCHANGED <<isEchoMode, participants_, handled, counterUserMessage_,
                       socket_, reading, read_msg_, posted, ended>>
    <2>1. writing' = [writing EXCEPT ![s] = IF Len(queue) > 1 THEN 1 ELSE 0]
      BY <1>1 DEF Written
    <2>2. QED
      BY <1>3, <2>1, Zenon DEF Written, roomVars, readVars
  <1> HIDE DEF queue
  <1>6. TypeOK'
    BY <1>2, <1>5 DEF IInv, TypeOK
  <1>7. PacketsFit' /\ RoomFits'
    BY <1>5 DEF IInv, PacketsFit, ComingIn, RoomFits
  <1>8. QueueHoldsWrite'
    BY <1>5 DEF IInv, TypeOK, QueueHoldsWrite
  <1>9. NotYetMade'
    <2>1. socket_[s] # "none"
      BY <1>1 DEF Written
    <2>2. QED
      BY <1>5, <2>1 DEF IInv, TypeOK, NotYetMade
  <1>10. WritesInOrder'
    <2>1. ASSUME NEW r \in Session
          PROVE  writing'[r] <= 1 /\ written'[r] \o write_msgs_'[r] = posted'[r]
      <3>1. CASE r = s
        <4>1. /\ written'[r] = Append(written[s], Head(queue))
              /\ write_msgs_'[r] = Tail(queue) /\ posted'[r] = posted[s]
          BY <1>5, <3>1 DEF IInv, TypeOK
        <4>2. writing'[r] <= 1
          BY <1>5, <3>1 DEF IInv, TypeOK
        <4>3. QED
          BY <1>4, <4>1, <4>2, Zenon
      <3>2. CASE r # s
        BY <1>5, <3>2 DEF IInv, TypeOK, WritesInOrder
      <3>3. QED
        BY <3>1, <3>2
    <2>2. QED
      BY <2>1 DEF WritesInOrder
  <1>11. MembersAreServed'
    BY <1>5 DEF IInv, TypeOK, MembersAreServed
  <1>12. QED
    BY <1>6, <1>7, <1>8, <1>9, <1>10, <1>11 DEF IInv

(* A failed write leaves its queue without a write; its session is not in the room. *)
LEMMA WriteFailsIInv ==
    ASSUME IInv, NEW s \in Session, WriteFails(s)
    PROVE  IInv'
  <1>1. PacketsFit'
    BY DEF WriteFails, IInv, PacketsFit, ComingIn, readVars
  <1>2. RoomFits'
    BY LeavesRoom DEF WriteFails, Leave, IInv, TypeOK
  <1>3. TypeOK' /\ QueueHoldsWrite'
    BY DEF WriteFails, Leave, IInv, TypeOK, QueueHoldsWrite, readVars
  <1>4. WritesInOrder'
    <2>1. writing' \in [Session -> 0 .. 1]
      BY <1>3, Zenon DEF TypeOK
    <2>2. \A r \in Session : writing'[r] <= 1
      BY <2>1
    <2>3. QED
      BY <2>2 DEF WriteFails, IInv, WritesInOrder
  <1>5. NotYetMade' /\ MembersAreServed'
    BY DEF WriteFails, Leave, IInv, TypeOK, NotYetMade, MembersAreServed, readVars
  <1>6. QED
    BY <1>1, <1>2, <1>3, <1>4, <1>5 DEF IInv

LEMMA DisconnectIInv ==
    ASSUME IInv, NEW s \in Session, NEW how \in {"closed", "reset"}, Disconnect(s, how)
    PROVE  IInv'
  BY DEF Disconnect, IInv, TypeOK, PacketsFit, ComingIn, NotYetMade, QueueHoldsWrite,
         RoomFits, WritesInOrder, MembersAreServed, roomVars, readVars, writeVars

LEMMA NextIInv == IInv /\ [Next]_vars => IInv'
  <1>1. ASSUME IInv, UNCHANGED vars PROVE IInv'
    BY <1>1 DEF vars, roomVars, readVars, writeVars, IInv, TypeOK, PacketsFit, ComingIn,
                NotYetMade, QueueHoldsWrite, RoomFits, WritesInOrder, MembersAreServed
  <1>2. ASSUME IInv, Next PROVE IInv'
    BY <1>2, AcceptIInv, ReadIInv, ReadFailsIInv, ProcessIInv, WrittenIInv,
       WriteFailsIInv, DisconnectIInv DEF Next, Handlers
  <1>3. QED
    BY <1>1, <1>2

THEOREM Invariant == Spec => []IInv
  BY InitIInv, NextIInv, PTL DEF Spec

(* Type correctness of the server's and the sessions' state. *)
THEOREM TypeCorrect == Spec => []TypeOK
  <1>1. IInv => TypeOK
    BY DEF IInv
  <1>2. QED
    BY <1>1, Invariant, PTL

(* What goes out to a client and what waits are together what was delivered to it, in
   that order, and never two writes are under way on one socket. *)
THEOREM WritesStayInOrder == Spec => []WritesInOrder
  <1>1. IInv => WritesInOrder
    BY DEF IInv
  <1>2. QED
    BY <1>1, Invariant, PTL

(* Whoever is in the room is listened to, and its queue moves, although a failed write
   leaves its queue as it was. *)
THEOREM NobodyIsCutOff == Spec => []MembersAreServed
  <1>1. IInv => MembersAreServed
    BY DEF IInv
  <1>2. QED
    BY <1>1, Invariant, PTL

(* The room never holds more than the two that Room.hpp allows. *)
THEOREM RoomKeepsToItsSize == Spec => []RoomFits
  <1>1. IInv => RoomFits
    BY DEF IInv
  <1>2. QED
    BY <1>1, Invariant, PTL

-------------------------------------------------------------------------------
(* The refinement of Relay. *)

LEMMA SeenMember ==
    \A m : m \in Seen <=>
       \E s \in Session : \E i \in DOMAIN posted[s] :
          m = [to |-> s, type |-> posted[s][i].type, from |-> posted[s][i].from,
               id |-> i]
  BY DEF Seen

(* What deliver adds to the packets seen: one for each receiver, numbered after those
   it had. *)
LEMMA DeliverTells ==
    ASSUME IInv, NEW to \in SUBSET Session, NEW p \in Packets, Deliver(to, p)
    PROVE  /\ Seen \subseteq Seen'
           /\ Seen' \ Seen =
                 {[to |-> r, type |-> p.type, from |-> p.from,
                   id |-> Len(posted[r]) + 1] : r \in to}
  <1> DEFINE New(r) == [to |-> r, type |-> p.type, from |-> p.from,
                        id |-> Len(posted[r]) + 1]
             Old(r, i) == [to |-> r, type |-> posted[r][i].type,
                           from |-> posted[r][i].from, id |-> i]
  <1>1. ASSUME NEW r \in Session
        PROVE  /\ posted[r] \in Seq(Packets)
               /\ Len(posted[r]) \in Nat /\ DOMAIN posted[r] = 1 .. Len(posted[r])
    BY LenProperties DEF IInv, TypeOK
  <1>2. ASSUME NEW r \in Session, r \in to
        PROVE  /\ DOMAIN posted'[r] = 1 .. Len(posted[r]) + 1
               /\ \A i \in 1 .. Len(posted[r]) : posted'[r][i] = posted[r][i]
               /\ posted'[r][Len(posted[r]) + 1] = p
    <2>1. posted'[r] = Append(posted[r], p)
      BY <1>2 DEF Deliver
    <2>2. /\ DOMAIN Append(posted[r], p) = 1 .. Len(posted[r]) + 1
          /\ \A i \in 1 .. Len(posted[r]) : Append(posted[r], p)[i] = posted[r][i]
          /\ Append(posted[r], p)[Len(posted[r]) + 1] = p
      BY <1>1, AppendProperties, LenProperties
    <2>3. QED
      BY <2>1, <2>2, Zenon
  <1>3. ASSUME NEW r \in Session, r \notin to PROVE posted'[r] = posted[r]
    BY <1>3 DEF Deliver
  <1>4. \A m : m \in Seen <=> \E r \in Session : \E i \in 1 .. Len(posted[r]) : m = Old(r, i)
    BY <1>1, SeenMember, Zenon
  <1>5. \A m : m \in Seen' <=> m \in Seen \/ \E r \in to : m = New(r)
    <2>1. ASSUME NEW m, m \in Seen' PROVE m \in Seen \/ \E r \in to : m = New(r)
      <3>0. PICK r \in Session : \E i \in DOMAIN posted'[r] :
               m = [to |-> r, type |-> posted'[r][i].type,
                    from |-> posted'[r][i].from, id |-> i]
        BY <2>1 DEF Seen
      <3>1. PICK i \in DOMAIN posted'[r] :
               m = [to |-> r, type |-> posted'[r][i].type,
                    from |-> posted'[r][i].from, id |-> i]
        BY <3>0
      <3>2. CASE r \notin to
        BY <1>1, <1>3, <1>4, <3>1, <3>2
      <3>3. CASE r \in to
        <4>1. CASE i = Len(posted[r]) + 1
          BY <1>2, <3>1, <3>3, <4>1
        <4>2. CASE i # Len(posted[r]) + 1
          <5>1. i \in 1 .. Len(posted[r]) /\ posted'[r][i] = posted[r][i]
            BY <1>1, <1>2, <3>1, <3>3, <4>2
          <5>2. m = Old(r, i)
            BY <3>1, <5>1
          <5>3. QED
            BY <1>4, <5>1, <5>2
        <4>3. QED
          BY <4>1, <4>2
      <3>4. QED
        BY <3>2, <3>3
    <2>2. ASSUME NEW m, m \in Seen PROVE m \in Seen'
      <3>0. PICK r \in Session : \E i \in 1 .. Len(posted[r]) : m = Old(r, i)
        BY <1>4, <2>2
      <3>1. PICK i \in 1 .. Len(posted[r]) : m = Old(r, i)
        BY <3>0
      <3>2. i \in DOMAIN posted'[r] /\ posted'[r][i] = posted[r][i]
        BY <1>1, <1>2, <1>3, <3>1
      <3>3. m = [to |-> r, type |-> posted'[r][i].type,
                 from |-> posted'[r][i].from, id |-> i]
        BY <3>1, <3>2
      <3>4. QED
        BY <3>2, <3>3 DEF Seen
    <2>3. ASSUME NEW r \in to PROVE New(r) \in Seen'
      <3> DEFINE i == Len(posted[r]) + 1
      <3>1. i \in DOMAIN posted'[r] /\ posted'[r][i] = p
        BY <1>1, <1>2
      <3>2. New(r) = [to |-> r, type |-> posted'[r][i].type,
                      from |-> posted'[r][i].from, id |-> i]
        BY <3>1
      <3> HIDE DEF i, New
      <3>3. QED
        BY <3>1, <3>2 DEF Seen
    <2>4. QED
      BY <2>1, <2>2, <2>3
  <1>6. ASSUME NEW r \in to PROVE New(r) \notin Seen
    <2>1. ASSUME NEW q \in Session, NEW i \in 1 .. Len(posted[q]), New(r) = Old(q, i)
          PROVE  FALSE
      BY <1>1, <2>1
    <2>2. QED
      BY <1>4, <2>1
  <1> HIDE DEF New
  <1>7. Seen \subseteq Seen' /\ Seen' \ Seen = {New(r) : r \in to}
    BY <1>5, <1>6
  <1>8. QED
    BY <1>7 DEF New

(* A packet handled by its session is what the relay says of its sender. *)
LEMMA ProcessSays ==
    ASSUME IInv, NEW s \in Session, Process(s)
    PROVE  Abstract!Say(s, read_msg_[s])
  <1> DEFINE type == read_msg_[s]
             to == Receivers(s, type)
             p == [type |-> Response(type), from |-> s, n |-> handled']
             new == {[to |-> r, type |-> p.type, from |-> p.from,
                      id |-> Len(posted[r]) + 1] : r \in to}
  <1>1. /\ Deliver(to, p)
        /\ participants_' =
              IF type = "LogoutRequest" THEN participants_ \ {s} ELSE participants_
        /\ isEchoMode' = isEchoMode
    BY DEF Process, Leave
  <1>2. p \in Packets
    <2>1. ComingIn' = ComingIn \ {s} /\ s \in ComingIn /\ handled' = handled + 1
      BY DEF Process, ComingIn, IInv, TypeOK
    <2>2. Cardinality(ComingIn) >= 1
      <3>1. Cardinality(ComingIn') = Cardinality(ComingIn) - 1
        BY <2>1, OneLessComing
      <3>2. Cardinality(ComingIn') \in Nat
        BY <2>1, ComingInIsFinite, FS_RemoveElement, FS_CardinalityType
      <3>3. QED
        BY <3>1, <3>2, ComingInIsFinite
    <2>3. handled' \in 1 .. MaxPackets
      BY <2>1, <2>2, ComingInIsFinite DEF IInv, TypeOK, PacketsFit
    <2>4. QED
      BY <2>3, PacketTypes DEF Packets, IInv
  <1>3. to \in SUBSET Session
    BY PacketTypes DEF IInv, TypeOK
  <1>4. Seen \subseteq Seen' /\ Seen' \ Seen = new
    BY <1>1, <1>2, <1>3, DeliverTells
  <1>5. to = Abstract!Hearers(s, participants_, type) /\ p.type = Abstract!Told(type)
    <2>1. type \in PayloadType
      BY PacketTypes DEF IInv
    <2>2. QED
      BY <2>1 DEF Receivers, Response, Abstract!Hearers, Abstract!Told, MediaType,
                  Abstract!MediaType, PayloadType
  <1>6. Abstract!Tell(to, p.type, s)
    <2>1. \A m \in new : m.to \in to /\ m.type = p.type /\ m.from = s
      BY <1>2
    <2>2. ASSUME NEW h \in to
          PROVE  \E m \in new : m.to = h /\ \A n \in new : n.to = h => n = m
      <3> DEFINE m == [to |-> h, type |-> p.type, from |-> p.from,
                       id |-> Len(posted[h]) + 1]
      <3>1. m \in new /\ m.to = h
        OBVIOUS
      <3>2. ASSUME NEW n \in new, n.to = h PROVE n = m
        BY <3>2
      <3> HIDE DEF m, new
      <3>3. QED
        BY <3>1, <3>2
    <2> HIDE DEF new, to, p
    <2>3. QED
      BY <1>4, <2>1, <2>2 DEF Abstract!Tell
  <1>7. QED
    BY <1>1, <1>5, <1>6 DEF Abstract!Say

(* Every run of the server is a run of the relay: whatever one session says is told
   once to everybody else in the room, in spite of queues, failed writes and cut
   connections. *)
THEOREM ServerIsRelay == Spec => ImplementsRelay
  <1>1. Init => Abstract!Init
    <2> SUFFICES ASSUME Init PROVE Abstract!Init
      OBVIOUS
    <2>1. Seen = {}
      BY DEF Init, Seen
    <2>2. isEchoMode \in BOOLEAN /\ participants_ = {}
      BY Zenon DEF Init
    <2>3. QED
      BY <2>1, <2>2 DEF Abstract!Init
  <1>2. IInv /\ [Next]_vars => [Abstract!Next]_(Abstract!relayVars)
    <2> SUFFICES ASSUME IInv, [Next]_vars
                 PROVE  Abstract!Next \/ UNCHANGED Abstract!relayVars
      BY DEF Abstract!relayVars
    <2>1. UNCHANGED <<isEchoMode, participants_, posted>> => UNCHANGED Abstract!relayVars
      BY DEF Abstract!relayVars, Seen
    <2>2. ASSUME NEW s \in Session, Accept(s)
          PROVE  Abstract!Next \/ UNCHANGED Abstract!relayVars
      <3>1. CASE UNCHANGED participants_
        BY <2>1, <2>2, <3>1 DEF Accept, writeVars
      <3>2. CASE participants_' = participants_ \cup {s}
        <4>1. Abstract!Enter(s)
          BY <2>2, <3>2 DEF Accept, writeVars, Abstract!Enter, Seen
        <4>2. QED
          BY <4>1 DEF Abstract!Next
      <3>3. QED
        BY <2>2, <3>1, <3>2 DEF Accept, Start
    <2>3. ASSUME NEW s \in Session, ReadFails(s) \/ WriteFails(s)
          PROVE  Abstract!Next
      <3>1. Abstract!Leave(s)
        BY <2>3 DEF ReadFails, WriteFails, Leave, writeVars, Abstract!Leave, Seen
      <3>2. QED
        BY <3>1 DEF Abstract!Next
    <2>4. ASSUME NEW s \in Session, Process(s) PROVE Abstract!Next
      <3>1. Abstract!Say(s, read_msg_[s])
        BY <2>4, ProcessSays
      <3>2. read_msg_[s] \in Abstract!PayloadType
        BY PacketTypes DEF IInv, PayloadType, Abstract!PayloadType
      <3>3. QED
        BY <3>1, <3>2 DEF Abstract!Next
    <2>5. ASSUME NEW s \in Session,
                 \/ ReadPayload(s) \/ Written(s)
                 \/ \E type \in Request : ReadHeader(s, type)
                 \/ \E how \in {"closed", "reset"} : Disconnect(s, how)
          PROVE  UNCHANGED Abstract!relayVars
      BY <2>1, <2>5 DEF ReadPayload, Written, ReadHeader, Disconnect, roomVars, writeVars
    <2>6. UNCHANGED vars => UNCHANGED Abstract!relayVars
      BY <2>1 DEF vars, roomVars, writeVars
    <2>7. QED
      BY <2>2, <2>3, <2>4, <2>5, <2>6 DEF Next, Handlers
  <1>3. QED
    BY <1>1, <1>2, Invariant, PTL DEF Spec, ImplementsRelay, Abstract!Spec

===============================================================================

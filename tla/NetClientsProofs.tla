---------------------------- MODULE NetClientsProofs ----------------------------
(***************************************************************************)
(* Theorems about the two transports, for any number of addresses, packets   *)
(* and datagrams, any set of datagrams, and a connection that fails or is    *)
(* closed at any step.                                                       *)
(***************************************************************************)
EXTENDS NetClients, SequenceTheorems, TLAPS

USE ClientBoundAssumption

-------------------------------------------------------------------------------
(* The TCP client: its inductive invariant. *)

Write == [packet : Packets, result : Results \cup {"pending"}]

Fronts(ws, queue) == ws = <<>> \/ \E w \in Write : ws = <<w>> /\ queue # <<>>
                                                  /\ w.packet = Head(queue)
Waiting(ws, queue) == IF ws # <<>> /\ Head(ws).result = "ok" THEN Tail(queue) ELSE queue

(* A write under way is that of the front of the queue, and there is one while the
   socket is open and something waits. *)
WriteState ==
    /\ Fronts(writes, write_msgs_)
    /\ socket_ = "open" /\ write_msgs_ # <<>> => writes # <<>>

(* What was taken from the stream is the packets heard, and then the header that the
   payload is awaited for, and the piece that a completed read has brought. *)
ReadState ==
    /\ reading = "nothing" <=> read = "none"
    /\ reading = "header" =>
          taken = (IF read = "ok" THEN 2 * Len(heard) + 1 ELSE 2 * Len(heard))
    /\ reading = "payload" =>
          /\ read_msg_ = 2 * Len(heard) + 1
          /\ taken = (IF read = "ok" THEN 2 * Len(heard) + 2 ELSE 2 * Len(heard) + 1)
    /\ socket_ = "open" => reading # "nothing"

(* Before the connection there is nothing to send or to read. *)
Unconnected ==
    /\ ~isConnected_ => /\ sent = 0 /\ write_msgs_ = <<>> /\ writes = <<>>
                        /\ reading = "nothing" /\ taken = 0 /\ heard = <<>>
    /\ connect # "none" => ~isConnected_ /\ socket_ # "open"
    /\ socket_ = "open" => isConnected_
    /\ client = "new" => ~isConnected_ /\ connect = "none" /\ socket_ # "open"

(* The destructor posts the only close. *)
OneClose == client \notin {"joining", "gone"} =>
               \A i \in DOMAIN posted : posted[i] # Closing

TcpInv == /\ TypeOK /\ WriteState /\ ReadState /\ Unconnected /\ OneClose
          /\ Conserved /\ HeardInOrder

(* Every datagram is in the socket or has been received, the one handed to the owner is
   one that makePacket accepts, and the impl keeps its client alive. *)
UdpInv == /\ Udp!TypeOK /\ received + Len(s) = arrived
          /\ receiver_ = "calling" => packet = Udp!Parsed(reply) /\ Udp!MakePacket(reply)
          /\ receiver_ # "none" => "impl" \in holders
          /\ freed => holders = {}

ClientInv == TcpInv /\ UdpInv /\ protocol \in {"raw_tcp", "raw_udp"}

-------------------------------------------------------------------------------
(* Sequences of packets. *)

LEMMA AppendInOrder ==
    ASSUME NEW out \in Seq(Packets), NEW queue \in Seq(Packets), NEW p \in Packets
    PROVE  out \o Append(queue, p) = Append(out \o queue, p)
  <1>1. Append(queue, p) = queue \o <<p>> /\ <<p>> \in Seq(Packets)
    BY AppendIsConcat
  <1>2. out \o (queue \o <<p>>) = (out \o queue) \o <<p>>
    BY <1>1, ConcatAssociative
  <1>3. out \o queue \in Seq(Packets)
    BY ConcatProperties
  <1>4. (out \o queue) \o <<p>> = Append(out \o queue, p)
    BY <1>3, AppendIsConcat
  <1>5. QED
    BY <1>1, <1>2, <1>4

LEMMA FrontAndRest ==
    ASSUME NEW queue \in Seq(Packets), queue # <<>>
    PROVE  <<Head(queue)>> \o Tail(queue) = queue
  <1> DEFINE first == <<Head(queue)>>
  <1>1. /\ first \in Seq(Packets) /\ Len(first) = 1 /\ first[1] = queue[1]
        /\ Tail(queue) \in Seq(Packets) /\ Len(queue) \in Nat \ {0}
    BY HeadTailProperties, EmptySeq
  <1>2. first \o Tail(queue) \in Seq(Packets) /\ Len(first \o Tail(queue)) = Len(queue)
    BY <1>1, ConcatProperties, HeadTailProperties
  <1>3. ASSUME NEW i \in 1 .. Len(queue) PROVE (first \o Tail(queue))[i] = queue[i]
    <2>1. (first \o Tail(queue))[i] = IF i <= 1 THEN first[i] ELSE Tail(queue)[i - 1]
      BY <1>1, ConcatProperties, HeadTailProperties
    <2>2. i > 1 => Tail(queue)[i - 1] = queue[i]
      BY <1>1, HeadTailProperties
    <2>3. QED
      BY <1>1, <2>1, <2>2
  <1> HIDE DEF first
  <1>4. first \o Tail(queue) = queue
    BY <1>1, <1>2, <1>3, SeqEqual
  <1>5. QED
    BY <1>4 DEF first

LEMMA MoveInOrder ==
    ASSUME NEW out \in Seq(Packets), NEW queue \in Seq(Packets), queue # <<>>
    PROVE  Append(out, Head(queue)) \o Tail(queue) = out \o queue
  <1>1. /\ Head(queue) \in Packets /\ Tail(queue) \in Seq(Packets)
        /\ <<Head(queue)>> \in Seq(Packets)
    BY HeadTailProperties
  <1>2. Append(out, Head(queue)) = out \o <<Head(queue)>>
    BY <1>1, AppendIsConcat
  <1>3. (out \o <<Head(queue)>>) \o Tail(queue) = out \o (<<Head(queue)>> \o Tail(queue))
    BY <1>1, ConcatAssociative
  <1>4. QED
    BY <1>2, <1>3, FrontAndRest

-------------------------------------------------------------------------------
(* Conserved, of what is kept, what is posted and how much was sent. *)

Posted == Seq(Packets \cup {Closing})
InOrder(kept, post, n) ==
    /\ \A m \in DOMAIN kept : kept[m] = m
    /\ \E c \in 1 .. Len(post) + 1 :
          /\ \A i \in DOMAIN post : post[i] = IF i < c THEN Len(kept) + i
                                              ELSE IF i = c THEN Closing
                                              ELSE Len(kept) + (i - 1)
          /\ n = Len(kept) + (IF c <= Len(post) THEN Len(post) - 1 ELSE Len(post))

LEMMA PostedTail ==
    ASSUME NEW post \in Posted, post # <<>>
    PROVE  /\ Tail(post) \in Posted /\ Len(post) \in Nat \ {0}
           /\ Head(post) = post[1] /\ Head(post) \in Packets \cup {Closing}
           /\ DOMAIN post = 1 .. Len(post) /\ Len(Tail(post)) = Len(post) - 1
           /\ DOMAIN Tail(post) = 1 .. Len(post) - 1
           /\ \A i \in DOMAIN Tail(post) : Tail(post)[i] = post[i + 1]
  <1>1. /\ Head(post) \in Packets \cup {Closing} /\ Tail(post) \in Posted
        /\ Len(Tail(post)) = Len(post) - 1
        /\ \A i \in 1 .. Len(Tail(post)) : Tail(post)[i] = post[i + 1]
    BY HeadTailProperties DEF Posted
  <1>2. Len(post) \in Nat \ {0} /\ DOMAIN post = 1 .. Len(post)
    BY EmptySeq, LenProperties DEF Posted
  <1>3. DOMAIN Tail(post) = 1 .. Len(Tail(post))
    BY <1>1, LenProperties DEF Posted
  <1>4. QED
    BY <1>1, <1>2, <1>3

LEMMA PostedAppend ==
    ASSUME NEW post \in Posted, NEW p \in Packets \cup {Closing}
    PROVE  /\ Append(post, p) \in Posted /\ Len(post) \in Nat
           /\ DOMAIN post = 1 .. Len(post) /\ Len(Append(post, p)) = Len(post) + 1
           /\ DOMAIN Append(post, p) = 1 .. Len(post) + 1
           /\ \A i \in DOMAIN post : Append(post, p)[i] = post[i]
           /\ Append(post, p)[Len(post) + 1] = p
  BY AppendProperties, LenProperties DEF Posted

(* The io thread runs the close. *)
LEMMA CloseTaken ==
    ASSUME NEW kept \in Seq(Packets), NEW post \in Posted, NEW n \in Nat,
           post # <<>>, Head(post) = Closing, InOrder(kept, post, n)
    PROVE  InOrder(kept, Tail(post), n)
  <1> DEFINE k == Len(kept)
             l == Len(post)
             rest == Tail(post)
  <1>1. k \in Nat /\ l \in Nat \ {0}
    BY LenProperties, PostedTail
  <1>2. PICK c \in 1 .. l + 1 :
           /\ \A i \in DOMAIN post : post[i] = IF i < c THEN k + i
                                               ELSE IF i = c THEN Closing ELSE k + (i - 1)
           /\ n = k + (IF c <= l THEN l - 1 ELSE l)
    BY DEF InOrder
  <1>3. /\ DOMAIN post = 1 .. l /\ post[1] = 0 /\ Len(rest) = l - 1
        /\ DOMAIN rest = 1 .. l - 1
        /\ \A i \in DOMAIN rest : rest[i] = post[i + 1]
    BY PostedTail DEF Closing
  <1> HIDE DEF k, l, rest
  <1>4. c = 1
    BY <1>1, <1>2, <1>3
  <1>5. \A i \in DOMAIN rest : i < l /\ rest[i] = k + i
    BY <1>1, <1>2, <1>3, <1>4
  <1>6. l \in 1 .. Len(rest) + 1 /\ n = k + Len(rest)
    BY <1>1, <1>2, <1>3, <1>4
  <1>7. \E d \in 1 .. Len(rest) + 1 :
           /\ \A i \in DOMAIN rest : rest[i] = IF i < d THEN k + i
                                               ELSE IF i = d THEN Closing ELSE k + (i - 1)
           /\ n = k + (IF d <= Len(rest) THEN Len(rest) - 1 ELSE Len(rest))
    <2>0. l \in 1 .. Len(rest) + 1
      BY <1>6
    <2>1. ASSUME NEW i \in DOMAIN rest
          PROVE  rest[i] = IF i < l THEN k + i
                           ELSE IF i = l THEN Closing ELSE k + (i - 1)
      BY <1>5
    <2>2. ~(l <= Len(rest))
      BY <1>1, <1>3
    <2>3. QED
      BY <1>6, <2>0, <2>1, <2>2
  <1>8. InOrder(kept, rest, n)
    BY <1>7 DEF InOrder, k
  <1>9. QED
    BY <1>8 DEF rest

(* The io thread takes a packet, the next in the order, into the queue. *)
LEMMA PacketTaken ==
    ASSUME NEW kept \in Seq(Packets), NEW post \in Posted, NEW n \in Nat,
           post # <<>>, Head(post) # Closing, InOrder(kept, post, n)
    PROVE  InOrder(Append(kept, Head(post)), Tail(post), n)
  <1> DEFINE k == Len(kept)
             l == Len(post)
             p == Head(post)
             rest == Tail(post)
             more == Append(kept, p)
  <1>1. k \in Nat /\ l \in Nat \ {0} /\ DOMAIN kept = 1 .. k
    BY LenProperties, PostedTail
  <1>2. PICK c \in 1 .. l + 1 :
           /\ \A i \in DOMAIN post : post[i] = IF i < c THEN k + i
                                               ELSE IF i = c THEN Closing ELSE k + (i - 1)
           /\ n = k + (IF c <= l THEN l - 1 ELSE l)
    BY DEF InOrder
  <1>3. /\ DOMAIN post = 1 .. l /\ post[1] = p /\ p \in Packets /\ Len(rest) = l - 1
        /\ DOMAIN rest = 1 .. l - 1
        /\ \A i \in DOMAIN rest : rest[i] = post[i + 1]
    BY PostedTail
  <1>4. /\ Len(more) = k + 1 /\ DOMAIN more = 1 .. k + 1
        /\ \A i \in 1 .. k : more[i] = kept[i]
        /\ more[k + 1] = p
    BY <1>3, AppendProperties, LenProperties
  <1>5. p # Closing
    OBVIOUS
  <1> HIDE DEF k, l, p, rest, more
  <1>6. c > 1 /\ p = k + 1
    BY <1>1, <1>2, <1>3, <1>5
  <1>7. \A m \in DOMAIN more : more[m] = m
    BY <1>1, <1>4, <1>6 DEF InOrder
  <1>8. /\ c - 1 \in 1 .. Len(rest) + 1
        /\ \A i \in DOMAIN rest : rest[i] = IF i < c - 1 THEN Len(more) + i
                                            ELSE IF i = c - 1 THEN Closing
                                            ELSE Len(more) + (i - 1)
        /\ n = Len(more) + (IF c - 1 <= Len(rest) THEN Len(rest) - 1 ELSE Len(rest))
    <2>1. c - 1 \in 1 .. Len(rest) + 1
      BY <1>1, <1>3, <1>6
    <2>2. ASSUME NEW i \in DOMAIN rest
          PROVE  rest[i] = IF i < c - 1 THEN Len(more) + i
                           ELSE IF i = c - 1 THEN Closing ELSE Len(more) + (i - 1)
      <3>1. i \in Nat /\ i + 1 \in DOMAIN post /\ rest[i] = post[i + 1]
        BY <1>1, <1>3
      <3>2. post[i + 1] = IF i + 1 < c THEN k + (i + 1)
                          ELSE IF i + 1 = c THEN Closing ELSE k + ((i + 1) - 1)
        BY <1>2, <3>1
      <3>3. c \in Nat
        BY <1>1
      <3>4. \A m \in Nat : k + (m + 1) = (k + 1) + m /\ (k + ((m + 1) - 1) = k + m)
        BY <1>1
      <3>5. CASE i + 1 < c
        <4>1. i < c - 1
          BY <3>1, <3>3, <3>5
        <4>2. rest[i] = (k + 1) + i
          BY <3>1, <3>2, <3>4, <3>5
        <4>3. QED
          BY <1>4, <4>1, <4>2
      <3>6. CASE i + 1 = c
        <4>1. i = c - 1 /\ ~(i < c - 1)
          BY <3>1, <3>3, <3>6
        <4>2. rest[i] = Closing
          BY <3>1, <3>2, <3>3, <3>6
        <4>3. QED
          BY <4>1, <4>2
      <3>7. CASE i + 1 > c
        <4>1. ~(i = c - 1) /\ ~(i < c - 1)
          BY <3>1, <3>3, <3>7
        <4>2. rest[i] = k + i /\ k + i = (k + 1) + (i - 1)
          BY <1>1, <3>1, <3>2, <3>3, <3>7
        <4>3. QED
          BY <1>4, <4>1, <4>2
      <3>8. QED
        BY <3>1, <3>3, <3>5, <3>6, <3>7
    <2>3. n = Len(more) + (IF c - 1 <= Len(rest) THEN Len(rest) - 1 ELSE Len(rest))
      BY <1>1, <1>2, <1>3, <1>4
    <2>4. QED
      BY <2>1, <2>2, <2>3
  <1>9. InOrder(more, rest, n)
    BY <1>7, <1>8 DEF InOrder
  <1>10. QED
    BY <1>9 DEF more, rest, p

(* send posts the next packet, behind the close perhaps. *)
LEMMA PacketPosted ==
    ASSUME NEW kept \in Seq(Packets), NEW post \in Posted, NEW n \in Nat,
           n + 1 \in Packets, InOrder(kept, post, n)
    PROVE  InOrder(kept, Append(post, n + 1), n + 1)
  <1> DEFINE k == Len(kept)
             l == Len(post)
             more == Append(post, n + 1)
  <1>1. k \in Nat /\ l \in Nat
    BY LenProperties, PostedAppend
  <1>2. PICK c \in 1 .. l + 1 :
           /\ \A i \in DOMAIN post : post[i] = IF i < c THEN k + i
                                               ELSE IF i = c THEN Closing ELSE k + (i - 1)
           /\ n = k + (IF c <= l THEN l - 1 ELSE l)
    BY DEF InOrder
  <1>3. /\ DOMAIN post = 1 .. l /\ Len(more) = l + 1 /\ DOMAIN more = 1 .. l + 1
        /\ \A i \in 1 .. l : more[i] = post[i]
        /\ more[l + 1] = n + 1
    BY PostedAppend
  <1> HIDE DEF k, l, more
  <1>4. PICK d \in {c, c + 1} : d = IF c <= l THEN c ELSE c + 1
    BY <1>1
  <1>5. /\ d \in 1 .. Len(more) + 1
        /\ \A i \in DOMAIN more : more[i] = IF i < d THEN k + i
                                            ELSE IF i = d THEN Closing ELSE k + (i - 1)
        /\ n + 1 = k + (IF d <= Len(more) THEN Len(more) - 1 ELSE Len(more))
    <2>1. d \in 1 .. Len(more) + 1
      BY <1>1, <1>3, <1>4
    <2>2. ASSUME NEW i \in DOMAIN more
          PROVE  more[i] = IF i < d THEN k + i
                           ELSE IF i = d THEN Closing ELSE k + (i - 1)
      <3>1. CASE i = l + 1
        <4>1. more[i] = n + 1 /\ n = k + (IF c <= l THEN l - 1 ELSE l)
          BY <1>2, <1>3, <3>1
        <4>2. CASE c <= l
          <5>1. ~(i < d) /\ ~(i = d)
            BY <1>1, <1>4, <3>1, <4>2
          <5>2. more[i] = k + (i - 1)
            BY <1>1, <3>1, <4>1, <4>2
          <5>3. QED
            BY <5>1, <5>2
        <4>3. CASE c = l + 1
          <5>1. i < d
            BY <1>1, <1>4, <3>1, <4>3
          <5>2. more[i] = k + i
            BY <1>1, <3>1, <4>1, <4>3
          <5>3. QED
            BY <5>1, <5>2
        <4>4. QED
          BY <1>1, <4>2, <4>3
      <3>2. CASE i \in 1 .. l
        <4>1. more[i] = IF i < c THEN k + i ELSE IF i = c THEN Closing ELSE k + (i - 1)
          BY <1>2, <1>3, <3>2
        <4>2. CASE c <= l
          BY <1>4, <4>1, <4>2
        <4>3. CASE c = l + 1
          BY <1>1, <1>4, <3>2, <4>1, <4>3
        <4>4. QED
          BY <1>1, <4>2, <4>3
      <3>3. QED
        BY <1>1, <1>3, <3>1, <3>2
    <2>3. n + 1 = k + (IF d <= Len(more) THEN Len(more) - 1 ELSE Len(more))
      <3>1. CASE c <= l
        BY <1>1, <1>2, <1>3, <1>4, <3>1
      <3>2. CASE c = l + 1
        BY <1>1, <1>2, <1>3, <1>4, <3>2
      <3>3. QED
        BY <1>1, <3>1, <3>2
    <2>4. QED
      BY <2>1, <2>2, <2>3
  <1>6. InOrder(kept, more, n + 1)
    BY <1>5 DEF InOrder, k
  <1>7. QED
    BY <1>6 DEF more

(* The destructor posts the close. *)
LEMMA ClosePosted ==
    ASSUME NEW kept \in Seq(Packets), NEW post \in Posted, NEW n \in Nat,
           InOrder(kept, post, n), \A i \in DOMAIN post : post[i] # Closing
    PROVE  InOrder(kept, Append(post, Closing), n)
  <1> DEFINE k == Len(kept)
             l == Len(post)
             more == Append(post, Closing)
  <1>1. k \in Nat /\ l \in Nat
    BY LenProperties, PostedAppend
  <1>2. PICK c \in 1 .. l + 1 :
           /\ \A i \in DOMAIN post : post[i] = IF i < c THEN k + i
                                               ELSE IF i = c THEN Closing ELSE k + (i - 1)
           /\ n = k + (IF c <= l THEN l - 1 ELSE l)
    BY DEF InOrder
  <1>3. /\ DOMAIN post = 1 .. l /\ Len(more) = l + 1 /\ DOMAIN more = 1 .. l + 1
        /\ \A i \in 1 .. l : more[i] = post[i]
        /\ more[l + 1] = Closing
    BY PostedAppend
  <1> HIDE DEF k, l, more
  <1>4. c = l + 1
    BY <1>1, <1>2, <1>3
  <1>5. /\ c \in 1 .. Len(more) + 1
        /\ \A i \in DOMAIN more : more[i] = IF i < c THEN k + i
                                            ELSE IF i = c THEN Closing ELSE k + (i - 1)
        /\ n = k + (IF c <= Len(more) THEN Len(more) - 1 ELSE Len(more))
    BY <1>1, <1>2, <1>3, <1>4
  <1>6. InOrder(kept, more, n)
    BY <1>5 DEF InOrder, k
  <1>7. QED
    BY <1>6 DEF more

(* A packet that the io thread takes was sent. *)
LEMMA TakenWasSent ==
    ASSUME NEW kept \in Seq(Packets), NEW post \in Posted, NEW n \in Nat,
           post # <<>>, Head(post) # Closing, InOrder(kept, post, n)
    PROVE  n > 0
  <1> DEFINE k == Len(kept)
             l == Len(post)
  <1>1. k \in Nat /\ l \in Nat \ {0} /\ 1 \in DOMAIN post /\ post[1] # Closing
    BY LenProperties, PostedTail
  <1>2. PICK c \in 1 .. l + 1 :
           /\ \A i \in DOMAIN post : post[i] = IF i < c THEN k + i
                                               ELSE IF i = c THEN Closing ELSE k + (i - 1)
           /\ n = k + (IF c <= l THEN l - 1 ELSE l)
    BY DEF InOrder
  <1> HIDE DEF k, l
  <1>3. c > 1
    BY <1>1, <1>2
  <1>4. QED
    BY <1>1, <1>2, <1>3

LEMMA ConservedIsInOrder == Conserved <=> InOrder(Kept, posted, sent)
  BY DEF Conserved, InOrder

-------------------------------------------------------------------------------
(* The write under way. *)

LEMMA FrontType ==
    ASSUME NEW queue \in Seq(Packets), NEW ws, Fronts(ws, queue)
    PROVE  /\ ws \in Seq(Write) /\ Len(ws) <= 1
           /\ ws # <<>> => Head(ws) \in Write /\ Tail(ws) = <<>>
           /\ Waiting(ws, queue) \in Seq(Packets)
  <1>1. CASE ws = <<>>
    BY <1>1 DEF Waiting
  <1>2. CASE ws # <<>>
    <2>1. PICK w \in Write : ws = <<w>> /\ queue # <<>>
      BY <1>2 DEF Fronts
    <2>2. <<w>> \in Seq(Write) /\ Head(<<w>>) = w /\ Tail(<<w>>) = <<>> /\ Len(<<w>>) = 1
      OBVIOUS
    <2>3. Tail(queue) \in Seq(Packets)
      BY <2>1, HeadTailProperties
    <2>4. QED
      BY <2>1, <2>2, <2>3 DEF Waiting
  <1>3. QED
    BY <1>1, <1>2

LEMMA AbortedIsOne ==
    ASSUME NEW w \in Write
    PROVE  AbortedWrites(<<w>>) = <<[w EXCEPT !.result = Aborted(@)]>>
  BY DEF AbortedWrites, Write, Aborted

LEMMA AbortedIsNone == AbortedWrites(<<>>) = <<>>
  BY DEF AbortedWrites

LEMMA ResultOfOne ==
    ASSUME NEW w \in Write, NEW result
    PROVE  [<<w>> EXCEPT ![1].result = result] = <<[w EXCEPT !.result = result]>>
  BY DEF Write

(* Closing the socket leaves the write what it was, but for a result. *)
LEMMA AbortKeeps ==
    ASSUME NEW queue \in Seq(Packets), NEW ws, Fronts(ws, queue)
    PROVE  /\ Fronts(AbortedWrites(ws), queue)
           /\ AbortedWrites(ws) = <<>> <=> ws = <<>>
           /\ Waiting(AbortedWrites(ws), queue) = Waiting(ws, queue)
  <1>1. CASE ws = <<>>
    BY <1>1, AbortedIsNone DEF Fronts
  <1>2. CASE ws # <<>>
    <2>1. PICK w \in Write : ws = <<w>> /\ queue # <<>> /\ w.packet = Head(queue)
      BY <1>2 DEF Fronts
    <2> DEFINE v == [w EXCEPT !.result = Aborted(@)]
    <2>2. v \in Write /\ v.packet = w.packet /\ (v.result = "ok" <=> w.result = "ok")
      BY DEF Write, Aborted, Results
    <2>3. AbortedWrites(ws) = <<v>>
      BY <2>1, AbortedIsOne
    <2> HIDE DEF v
    <2>4. Head(<<v>>) = v /\ Head(<<w>>) = w /\ <<v>> # <<>> /\ <<w>> # <<>>
      OBVIOUS
    <2>5. QED
      BY <2>1, <2>2, <2>3, <2>4 DEF Fronts, Waiting
  <1>3. QED
    BY <1>1, <1>2

(* write(), of a queue that is not empty. *)
LEMMA AsyncWriteFronts ==
    ASSUME NEW queue \in Seq(Packets), queue # <<>>
    PROVE  /\ Fronts(AsyncWrite(<<>>, queue), queue) /\ AsyncWrite(<<>>, queue) # <<>>
           /\ Waiting(AsyncWrite(<<>>, queue), queue) = queue
  <1> DEFINE w == [packet |-> Head(queue), result |-> Begun]
  <1>1. w \in Write /\ w.packet = Head(queue) /\ w.result # "ok"
    BY HeadTailProperties DEF Write, Begun, Results
  <1>2. AsyncWrite(<<>>, queue) = <<w>>
    BY DEF AsyncWrite
  <1> HIDE DEF w
  <1>3. Head(<<w>>) = w /\ <<w>> # <<>>
    OBVIOUS
  <1>4. QED
    BY <1>1, <1>2, <1>3 DEF Fronts, Waiting

(* A packet joins a queue that is not empty. *)
LEMMA JoinsQueue ==
    ASSUME NEW queue \in Seq(Packets), NEW p \in Packets, queue # <<>>
    PROVE  /\ Append(queue, p) # <<>> /\ Head(Append(queue, p)) = Head(queue)
           /\ Tail(Append(queue, p)) = Append(Tail(queue), p)
  <1>1. Append(queue, p) \in Seq(Packets) /\ Len(Append(queue, p)) = Len(queue) + 1
    BY AppendProperties
  <1>2. Append(queue, p) # <<>>
    BY AppendProperties
  <1>3. /\ Head(Append(queue, p)) = IF queue = <<>> THEN p ELSE Head(queue)
        /\ Tail(Append(queue, p)) = IF queue = <<>> THEN <<>> ELSE Append(Tail(queue), p)
    BY HeadTailAppend
  <1>4. QED
    BY <1>2, <1>3

(* What the steps that leave the writing alone need not prove again. *)
LEMMA Unsent ==
    ASSUME TcpInv, UNCHANGED <<write_msgs_, writes, written, posted, sent>>
    PROVE  Conserved' /\ Fronts(writes, write_msgs_)'
  BY DEF TcpInv, WriteState, Conserved, Kept, Unwritten, Fronts

LEMMA KeptType ==
    ASSUME TcpInv
    PROVE  /\ Kept \in Seq(Packets) /\ InOrder(Kept, posted, sent)
           /\ posted \in Posted /\ sent \in Nat /\ write_msgs_ \in Seq(Packets)
           /\ Kept = written \o Waiting(writes, write_msgs_)
           /\ Fronts(writes, write_msgs_)
  <1>1. /\ write_msgs_ \in Seq(Packets) /\ written \in Seq(Packets) /\ posted \in Posted
        /\ sent \in Nat /\ Fronts(writes, write_msgs_)
    BY DEF TcpInv, TypeOK, WriteState, Posted, Packets
  <1>2. Waiting(writes, write_msgs_) \in Seq(Packets)
    BY <1>1, FrontType
  <1>3. Kept = written \o Waiting(writes, write_msgs_)
    BY DEF Kept, Unwritten, Waiting
  <1>4. Kept \in Seq(Packets)
    BY <1>1, <1>2, <1>3, ConcatProperties
  <1>5. QED
    BY <1>1, <1>3, <1>4, ConservedIsInOrder DEF TcpInv

(* Closing the socket, as the io thread does it in three places. *)
LEMMA Closed ==
    ASSUME TcpInv, socket_' = "closed", UNCHANGED write_msgs_,
           writes' = AbortedWrites(writes)
    PROVE  /\ WriteState' /\ writes' \in Seq(Write)
           /\ (~isConnected_ => writes' = <<>>)
           /\ Waiting(writes', write_msgs_') = Waiting(writes, write_msgs_)
  <1>1. write_msgs_ \in Seq(Packets) /\ Fronts(writes, write_msgs_)
    BY KeptType
  <1>2. /\ Fronts(writes', write_msgs_')
        /\ writes' = <<>> <=> writes = <<>>
        /\ Waiting(writes', write_msgs_') = Waiting(writes, write_msgs_)
    BY <1>1, AbortKeeps
  <1>3. writes' \in Seq(Write)
    BY <1>1, <1>2, FrontType
  <1>4. QED
    BY <1>2, <1>3 DEF TcpInv, WriteState, Unconnected

LEMMA KeptStays ==
    ASSUME TcpInv, UNCHANGED <<written, posted, sent>>,
           Waiting(writes', write_msgs_') = Waiting(writes, write_msgs_)
    PROVE  Conserved'
  <1>1. Kept' = Kept
    BY DEF Kept, Unwritten, Waiting
  <1>2. QED
    BY <1>1 DEF TcpInv, Conserved

-------------------------------------------------------------------------------
(* Every step of the client keeps its invariant: the owner's. *)

LEMMA TcpInitially == Init => TcpInv
  <1> SUFFICES ASSUME Init PROVE TcpInv
    OBVIOUS
  <1>1. TypeOK
    <2>1. isConnected_ \in BOOLEAN
      BY DEF Init
    <2>2. \A S : <<>> \in Seq(S)
      BY EmptySeq
    <2>3. endpoints \in 0 .. MaxEndpoints
      BY DEF Init
    <2>4. QED
      BY <2>1, <2>2, <2>3 DEF Init, TypeOK
  <1>2. WriteState /\ ReadState /\ Unconnected /\ OneClose
    BY DEF Init, WriteState, Fronts, ReadState, Unconnected, OneClose
  <1>3. Conserved
    <2>1. Kept = <<>> /\ posted = <<>> /\ sent = 0
      BY ConcatEmptySeq, EmptySeq DEF Init, Kept, Unwritten
    <2>2. Len(<<>>) = 0 /\ DOMAIN <<>> = {}
      BY EmptySeq
    <2>3. 1 \in 1 .. Len(posted) + 1
      BY <2>1, <2>2
    <2>4. QED
      BY <2>1, <2>2, <2>3 DEF Conserved
  <1>4. HeardInOrder
    BY DEF Init, HeardInOrder
  <1>5. QED
    BY <1>1, <1>2, <1>3, <1>4 DEF TcpInv

LEMMA InitClientStep == TcpInv /\ InitClient => TcpInv'
  <1> SUFFICES ASSUME TcpInv, InitClient PROVE TcpInv'
    OBVIOUS
  <1> USE DEF InitClient, socketVars, readVars, writeVars
  <1>1. TypeOK'
    BY DEF TcpInv, TypeOK
  <1>2. Conserved' /\ WriteState'
    BY Unsent DEF TcpInv, WriteState, Unconnected
  <1>3. ReadState' /\ Unconnected'
    BY DEF TcpInv, ReadState, Unconnected
  <1>4. OneClose' /\ HeardInOrder'
    BY DEF TcpInv, OneClose, HeardInOrder
  <1>5. QED
    BY <1>1, <1>2, <1>3, <1>4 DEF TcpInv

(* send, by a thread of the owner or in the owner's callback. *)
LEMMA Sends ==
    ASSUME TcpInv, sent < MaxSends, sent' = sent + 1, posted' = Append(posted, sent')
    PROVE  /\ sent' \in Packets /\ posted' \in Posted
           /\ InOrder(Kept, posted', sent')
           /\ (client \notin {"joining", "gone"} =>
                 \A i \in DOMAIN posted' : posted'[i] # Closing)
  <1>1. sent + 1 \in Packets /\ sent + 1 # Closing
    BY KeptType DEF Packets, Closing
  <1>2. posted' \in Posted /\ InOrder(Kept, posted', sent')
    BY <1>1, KeptType, PostedAppend, PacketPosted
  <1>3. ASSUME client \notin {"joining", "gone"}, NEW i \in DOMAIN posted'
        PROVE  posted'[i] # Closing
    <2>1. /\ DOMAIN posted = 1 .. Len(posted) /\ DOMAIN posted' = 1 .. Len(posted) + 1
          /\ \A j \in DOMAIN posted : posted'[j] = posted[j]
          /\ posted'[Len(posted) + 1] = sent + 1 /\ Len(posted) \in Nat
      BY <1>1, KeptType, PostedAppend
    <2>2. \A j \in DOMAIN posted : posted[j] # Closing
      BY <1>3 DEF TcpInv, OneClose
    <2>3. i \in DOMAIN posted \/ i = Len(posted) + 1
      BY <1>3, <2>1
    <2>4. QED
      BY <1>1, <2>1, <2>2, <2>3
  <1>4. QED
    BY <1>1, <1>2, <1>3

LEMMA SendStep == TcpInv /\ Send => TcpInv'
  <1> SUFFICES ASSUME TcpInv, Send PROVE TcpInv'
    OBVIOUS
  <1>0. UNCHANGED <<client, socketVars, readVars, writeVars, io>> /\ isConnected_
    BY DEF Send
  <1>1. /\ sent' \in Packets /\ posted' \in Posted
        /\ InOrder(Kept, posted', sent') /\ OneClose'
    BY <1>0, Sends DEF Send, OneClose
  <1> USE <1>0 DEF socketVars, readVars, writeVars
  <1>2. TypeOK'
    BY <1>1 DEF TcpInv, TypeOK, Posted
  <1>3. Conserved'
    <2>1. Kept' = Kept
      BY DEF Kept, Unwritten
    <2>2. QED
      BY <1>1, <2>1 DEF Conserved, InOrder
  <1>4. WriteState' /\ ReadState'
    BY DEF TcpInv, WriteState, Fronts, ReadState
  <1>5. Unconnected' /\ HeardInOrder'
    BY DEF TcpInv, Unconnected, HeardInOrder
  <1>6. QED
    BY <1>1, <1>2, <1>3, <1>4, <1>5 DEF TcpInv

LEMMA DestroyStep == TcpInv /\ Destroy => TcpInv'
  <1> SUFFICES ASSUME TcpInv, Destroy PROVE TcpInv'
    OBVIOUS
  <1>0. UNCHANGED <<sent, socketVars, readVars, writeVars, io>>
    BY DEF Destroy
  <1> USE <1>0 DEF socketVars, readVars, writeVars
  <1>1. /\ client' \in {"joining", "crashed"} /\ posted' \in Posted
        /\ InOrder(Kept, posted', sent) /\ OneClose'
    <2>1. CASE client = "up"
      <3>1. client' = "joining" /\ posted' = Append(posted, Closing)
        BY <2>1 DEF Destroy, PostedClose
      <3>2. \A i \in DOMAIN posted : posted[i] # Closing
        BY <2>1 DEF TcpInv, OneClose
      <3>3. posted' \in Posted /\ InOrder(Kept, posted', sent)
        BY <3>1, <3>2, KeptType, PostedAppend, ClosePosted
      <3>4. QED
        BY <3>1, <3>3 DEF OneClose
    <2>2. CASE client # "up"
      BY <2>2, KeptType DEF Destroy, TcpInv, OneClose
    <2>3. QED
      BY <2>1, <2>2
  <1>2. TypeOK'
    BY <1>1 DEF TcpInv, TypeOK, Posted
  <1>3. Conserved'
    <2>1. Kept' = Kept
      BY DEF Kept, Unwritten
    <2>2. QED
      BY <1>1, <2>1 DEF Conserved, InOrder
  <1>4. WriteState' /\ ReadState'
    BY DEF TcpInv, WriteState, Fronts, ReadState
  <1>5. Unconnected' /\ HeardInOrder'
    BY <1>1 DEF TcpInv, Unconnected, HeardInOrder
  <1>6. QED
    BY <1>1, <1>2, <1>3, <1>4, <1>5 DEF TcpInv

LEMMA JoinStep == TcpInv /\ Join => TcpInv'
  <1> SUFFICES ASSUME TcpInv, Join PROVE TcpInv'
    OBVIOUS
  <1> USE DEF Join, socketVars, readVars, writeVars
  <1>1. TypeOK'
    BY DEF TcpInv, TypeOK
  <1>2. Conserved' /\ WriteState'
    BY Unsent DEF TcpInv, WriteState
  <1>3. ReadState' /\ Unconnected'
    BY DEF TcpInv, ReadState, Unconnected
  <1>4. OneClose' /\ HeardInOrder'
    BY DEF TcpInv, OneClose, HeardInOrder
  <1>5. QED
    BY <1>1, <1>2, <1>3, <1>4 DEF TcpInv

-------------------------------------------------------------------------------
(* The io thread's. *)

LEMMA CloseRunsStep ==
    ASSUME TcpInv, RunPosted, Head(posted) = Closing
    PROVE  TcpInv'
  <1>0. /\ posted # <<>> /\ posted' = Tail(posted) /\ socket_' = "closed"
        /\ connect' = Aborted(connect) /\ read' = Aborted(read)
        /\ writes' = AbortedWrites(writes)
        /\ UNCHANGED <<write_msgs_, ownerVars, endpoints, isConnected_, reading, read_msg_,
                       taken, heard, written, io>>
    BY DEF RunPosted
  <1>1. /\ WriteState' /\ writes' \in Seq(Write) /\ (~isConnected_ => writes' = <<>>)
        /\ Waiting(writes', write_msgs_') = Waiting(writes, write_msgs_)
    BY <1>0, Closed
  <1>2. posted' \in Posted /\ InOrder(Kept, posted', sent)
    BY <1>0, KeptType, PostedTail, CloseTaken
  <1> USE DEF ownerVars
  <1>3. TypeOK'
    BY <1>0, <1>1, <1>2 DEF TcpInv, TypeOK, Posted, Write, Aborted, Results
  <1>4. ReadState'
    BY <1>0 DEF TcpInv, ReadState, Aborted
  <1>5. Unconnected'
    BY <1>0, <1>1 DEF TcpInv, Unconnected, Aborted
  <1>6. OneClose' /\ HeardInOrder'
    BY <1>0, KeptType, PostedTail DEF TcpInv, OneClose, HeardInOrder
  <1>7. Conserved'
    <2>1. Kept' = Kept
      BY <1>0, <1>1 DEF Kept, Unwritten, Waiting
    <2>2. QED
      BY <1>0, <1>2, <2>1 DEF Conserved, InOrder
  <1>8. QED
    BY <1>1, <1>3, <1>4, <1>5, <1>6, <1>7 DEF TcpInv

LEMMA PacketRunsStep ==
    ASSUME TcpInv, RunPosted, Head(posted) # Closing
    PROVE  TcpInv'
  <1> DEFINE p == Head(posted)
  <1>0. /\ posted # <<>> /\ posted' = Tail(posted)
        /\ write_msgs_' = Append(write_msgs_, p)
        /\ writes' = (IF write_msgs_ = <<>> THEN AsyncWrite(writes, write_msgs_') ELSE writes)
        /\ UNCHANGED <<socket_, connect, read, ownerVars, endpoints, isConnected_, reading,
                       read_msg_, taken, heard, written, io>>
    BY DEF RunPosted, StartsWriting
  <1>1. /\ p \in Packets /\ posted' \in Posted /\ sent > 0
        /\ InOrder(Append(Kept, p), posted', sent)
    BY <1>0, KeptType, PostedTail, PacketTaken, TakenWasSent
  <1>2. write_msgs_' \in Seq(Packets) /\ written \in Seq(Packets)
    BY <1>0, <1>1, KeptType, AppendProperties DEF TcpInv, TypeOK
  <1> HIDE DEF p
  <1>3. /\ Fronts(writes', write_msgs_') /\ (writes # <<>> => writes' # <<>>)
        /\ (write_msgs_ = <<>> => writes' # <<>>)
        /\ Waiting(writes', write_msgs_') = Append(Waiting(writes, write_msgs_), p)
    <2>1. CASE write_msgs_ = <<>>
      <3>1. writes = <<>> /\ Waiting(writes, write_msgs_) = <<>>
        BY <2>1, KeptType DEF Fronts, Waiting
      <3>2. write_msgs_' = <<p>> /\ write_msgs_' # <<>>
        BY <1>0, <2>1
      <3>3. writes' = AsyncWrite(<<>>, write_msgs_')
        BY <1>0, <2>1, <3>1
      <3>4. Append(<<>>, p) = <<p>>
        OBVIOUS
      <3>5. QED
        BY <1>2, <3>1, <3>2, <3>3, <3>4, AsyncWriteFronts
    <2>2. CASE write_msgs_ # <<>>
      <3>1. /\ write_msgs_' # <<>> /\ Head(write_msgs_') = Head(write_msgs_)
            /\ Tail(write_msgs_') = Append(Tail(write_msgs_), p)
        BY <1>0, <1>1, <2>2, KeptType, JoinsQueue
      <3>2. writes' = writes /\ Fronts(writes, write_msgs_)
        BY <1>0, <2>2, KeptType
      <3>3. QED
        BY <1>0, <2>2, <3>1, <3>2 DEF Fronts, Waiting
    <2>3. QED
      BY <2>1, <2>2
  <1>4. WriteState'
    BY <1>0, <1>3 DEF TcpInv, WriteState
  <1>5. writes' \in Seq(Write)
    BY <1>2, <1>3, FrontType
  <1> USE DEF ownerVars
  <1>6. TypeOK'
    BY <1>0, <1>1, <1>2, <1>5 DEF TcpInv, TypeOK, Posted, Write
  <1>7. ReadState' /\ Unconnected'
    BY <1>0, <1>1 DEF TcpInv, ReadState, Unconnected
  <1>8. OneClose' /\ HeardInOrder'
    BY <1>0, KeptType, PostedTail DEF TcpInv, OneClose, HeardInOrder
  <1>9. Conserved'
    <2>1. Kept' = written \o Waiting(writes', write_msgs_')
      BY <1>0 DEF Kept, Unwritten, Waiting
    <2>2. Waiting(writes, write_msgs_) \in Seq(Packets)
      BY KeptType, FrontType
    <2>3. Kept' = Append(Kept, p)
      BY <1>1, <1>2, <1>3, <2>1, <2>2, KeptType, AppendInOrder
    <2>4. QED
      BY <1>0, <1>1, <2>3 DEF Conserved, InOrder
  <1>10. QED
    BY <1>4, <1>6, <1>7, <1>8, <1>9 DEF TcpInv

LEMMA OnConnectStep == TcpInv /\ OnConnect => TcpInv'
  <1> SUFFICES ASSUME TcpInv, OnConnect PROVE TcpInv'
    OBVIOUS
  <1>0. /\ UNCHANGED <<ownerVars, read_msg_, taken, heard, writeVars, io, posted>>
        /\ connect \in Results
    BY DEF OnConnect
  <1>1. ~isConnected_ /\ socket_ # "open" /\ client # "new"
    BY <1>0 DEF TcpInv, Unconnected, Results
  <1>2. /\ sent = 0 /\ write_msgs_ = <<>> /\ writes = <<>> /\ reading = "nothing"
        /\ read = "none" /\ taken = 0 /\ heard = <<>>
    BY <1>1 DEF TcpInv, Unconnected, ReadState
  <1> USE <1>0 DEF ownerVars, writeVars
  <1>3. CASE connect = "ok" /\ socket_ # "closed"
    <2>1. /\ connect' = "none" /\ socket_' = "open" /\ isConnected_' = TRUE
          /\ reading' = "header" /\ read' = "pending" /\ UNCHANGED endpoints
      BY <1>3 DEF OnConnect
    <2>2. TypeOK'
      BY <2>1 DEF TcpInv, TypeOK
    <2>3. Conserved' /\ WriteState'
      BY <1>2, Unsent DEF WriteState
    <2>4. ReadState'
      <3>1. Len(heard) = 0
        BY <1>2, EmptySeq
      <3>2. QED
        BY <1>2, <2>1, <3>1 DEF ReadState
    <2>5. Unconnected' /\ OneClose' /\ HeardInOrder'
      BY <1>1, <2>1 DEF TcpInv, Unconnected, OneClose, HeardInOrder
    <2>6. QED
      BY <2>2, <2>3, <2>4, <2>5 DEF TcpInv
  <1>4. CASE connect' = "pending" /\ endpoints > 1 /\ endpoints' = endpoints - 1
             /\ UNCHANGED <<socket_, isConnected_, reading, read>>
    <2>1. endpoints' \in 0 .. MaxEndpoints
      BY <1>4 DEF TcpInv, TypeOK
    <2>2. TypeOK'
      BY <1>4, <2>1 DEF TcpInv, TypeOK
    <2>3. Conserved' /\ WriteState'
      BY <1>2, Unsent DEF WriteState
    <2>4. ReadState' /\ Unconnected' /\ OneClose' /\ HeardInOrder'
      BY <1>1, <1>4 DEF TcpInv, ReadState, Unconnected, OneClose, HeardInOrder
    <2>5. QED
      BY <2>2, <2>3, <2>4 DEF TcpInv
  <1>5. CASE connect' = "none" /\ socket_' = "closed"
             /\ UNCHANGED <<endpoints, isConnected_, reading, read>>
    <2>1. TypeOK'
      BY <1>5 DEF TcpInv, TypeOK
    <2>2. Conserved' /\ WriteState'
      BY <1>2, Unsent DEF WriteState
    <2>3. ReadState' /\ Unconnected' /\ OneClose' /\ HeardInOrder'
      BY <1>1, <1>5 DEF TcpInv, ReadState, Unconnected, OneClose, HeardInOrder
    <2>4. QED
      BY <2>1, <2>2, <2>3 DEF TcpInv
  <1>6. QED
    BY <1>3, <1>4, <1>5 DEF OnConnect, AddressLeft

(* A read that failed. *)
LEMMA ReadFailsStep ==
    ASSUME TcpInv, ReadFails, isConnected_,
           UNCHANGED <<ownerVars, endpoints, isConnected_, connect, read_msg_, taken, heard,
                       write_msgs_, written, io, posted>>
    PROVE  TcpInv'
  <1> USE DEF ReadFails, ownerVars
  <1>1. /\ WriteState' /\ writes' \in Seq(Write)
        /\ Waiting(writes', write_msgs_') = Waiting(writes, write_msgs_)
    BY Closed
  <1>2. TypeOK'
    BY <1>1 DEF TcpInv, TypeOK, Write
  <1>3. Conserved'
    BY <1>1, KeptStays
  <1>4. ReadState' /\ Unconnected' /\ OneClose' /\ HeardInOrder'
    BY DEF TcpInv, ReadState, Unconnected, OneClose, HeardInOrder
  <1>5. QED
    BY <1>1, <1>2, <1>3, <1>4 DEF TcpInv

LEMMA OnHeaderStep == TcpInv /\ OnHeader => TcpInv'
  <1> SUFFICES ASSUME TcpInv, OnHeader PROVE TcpInv'
    OBVIOUS
  <1>1. reading = "header" /\ read \in Results
    BY DEF OnHeader
  <1>2. isConnected_ /\ UNCHANGED <<ownerVars, endpoints, isConnected_, connect, heard,
                                    write_msgs_, written, io, posted>>
    BY <1>1 DEF OnHeader, TcpInv, Unconnected
  <1>3. CASE read = "error"
    BY <1>2, <1>3, ReadFailsStep DEF OnHeader
  <1>4. CASE read = "ok"
    <2>1. /\ reading' = "payload" /\ read_msg_' = taken
          /\ UNCHANGED <<socket_, writes>>
          /\ \/ read' = Begun /\ taken' = taken
             \/ socket_ = "closed" /\ read' = "ok" /\ taken' = taken + 1
      BY <1>4 DEF OnHeader
    <2>2. /\ taken = 2 * Len(heard) + 1 /\ Len(heard) \in Nat /\ taken \in Pieces
          /\ taken + 1 \in Pieces
      <3>1. Len(heard) \in Nat
        BY LenProperties DEF TcpInv, TypeOK
      <3>2. taken = 2 * Len(heard) + 1
        BY <1>1, <1>4 DEF TcpInv, ReadState
      <3>3. taken \in Pieces
        BY <3>1, <3>2 DEF TcpInv, TypeOK, Pieces
      <3>4. QED
        BY <3>1, <3>2, <3>3 DEF Pieces
    <2>3. read' \in {"ok", "error", "pending"}
      BY <2>1 DEF Begun
    <2>4. taken' \in Pieces /\ taken' = (IF read' = "ok" THEN 2 * Len(heard) + 2
                                                         ELSE 2 * Len(heard) + 1)
      BY <2>1, <2>2 DEF Begun
    <2> USE <1>2 DEF ownerVars
    <2>5. TypeOK'
      BY <2>1, <2>2, <2>3, <2>4 DEF TcpInv, TypeOK, Results
    <2>6. Conserved' /\ WriteState'
      BY <2>1, Unsent DEF TcpInv, WriteState
    <2>7. ReadState'
      BY <2>1, <2>2, <2>3, <2>4 DEF ReadState
    <2>8. Unconnected' /\ OneClose' /\ HeardInOrder'
      BY <2>1 DEF TcpInv, Unconnected, OneClose, HeardInOrder
    <2>9. QED
      BY <2>5, <2>6, <2>7, <2>8 DEF TcpInv
  <1>5. QED
    BY <1>1, <1>3, <1>4 DEF Results

(* A packet heard is the next one, and the callback may answer it. *)
LEMMA OnPayloadStep == TcpInv /\ OnPayload => TcpInv'
  <1> SUFFICES ASSUME TcpInv, OnPayload PROVE TcpInv'
    OBVIOUS
  <1>1. reading = "payload" /\ read \in Results
    BY DEF OnPayload
  <1>2. isConnected_ /\ UNCHANGED <<client, endpoints, isConnected_, connect, read_msg_,
                                    taken, write_msgs_, written, io>>
    BY <1>1 DEF OnPayload, TcpInv, Unconnected
  <1>3. CASE read = "error"
    BY <1>2, <1>3, ReadFailsStep DEF OnPayload, ownerVars
  <1>4. CASE read = "ok"
    <2>1. /\ heard' = Append(heard, <<read_msg_, taken>>)
          /\ reading' = "header" /\ read' = Begun /\ UNCHANGED <<socket_, writes>>
          /\ \/ UNCHANGED <<sent, posted>>
             \/ sent < MaxSends /\ sent' = sent + 1 /\ posted' = Append(posted, sent')
      BY <1>4 DEF OnPayload
    <2>2. /\ Len(heard) \in Nat /\ read_msg_ = 2 * Len(heard) + 1
          /\ taken = 2 * Len(heard) + 2 /\ heard \in Seq(Pieces \X Pieces)
      BY <1>1, <1>4, LenProperties DEF TcpInv, TypeOK, ReadState
    <2>3. read_msg_ \in Pieces /\ taken \in Pieces
      BY <2>2 DEF TcpInv, TypeOK
    <2>4. /\ heard' \in Seq(Pieces \X Pieces) /\ Len(heard') = Len(heard) + 1
          /\ DOMAIN heard' = 1 .. Len(heard) + 1 /\ DOMAIN heard = 1 .. Len(heard)
          /\ \A i \in 1 .. Len(heard) : heard'[i] = heard[i]
          /\ heard'[Len(heard) + 1] = <<read_msg_, taken>>
      BY <2>1, <2>2, <2>3, AppendProperties, LenProperties
    <2>5. read' \in {"error", "pending"}
      BY <2>1 DEF Begun
    <2>6. /\ sent' \in {0} \cup Packets /\ posted' \in Posted
          /\ InOrder(Kept, posted', sent') /\ OneClose'
      <3>1. CASE UNCHANGED <<sent, posted>>
        BY <1>2, <3>1, KeptType DEF TcpInv, TypeOK, OneClose
      <3>2. CASE sent < MaxSends /\ sent' = sent + 1 /\ posted' = Append(posted, sent')
        BY <1>2, <3>2, Sends DEF OneClose
      <3>3. QED
        BY <2>1, <3>1, <3>2
    <2>7. TypeOK'
      BY <1>2, <2>1, <2>4, <2>5, <2>6 DEF TcpInv, TypeOK, Posted, Results
    <2>8. WriteState'
      BY <1>2, <2>1 DEF TcpInv, WriteState, Fronts
    <2>9. ReadState'
      BY <1>2, <2>1, <2>2, <2>4, <2>5 DEF TcpInv, ReadState
    <2>10. Unconnected'
      BY <1>2, <2>1 DEF TcpInv, Unconnected
    <2>11. HeardInOrder'
      <3>1. ASSUME NEW i \in DOMAIN heard' PROVE heard'[i] = <<2 * i - 1, 2 * i>>
        <4>1. CASE i \in 1 .. Len(heard)
          BY <2>4, <4>1 DEF TcpInv, HeardInOrder
        <4>2. CASE i = Len(heard) + 1
          <5>1. read_msg_ = 2 * i - 1 /\ taken = 2 * i
            BY <2>2, <4>2
          <5>2. QED
            BY <2>4, <4>2, <5>1
        <4>3. QED
          BY <2>2, <2>4, <4>1, <4>2
      <3>2. QED
        BY <3>1 DEF HeardInOrder
    <2>12. Conserved'
      <3>1. Kept' = Kept
        BY <1>2, <2>1 DEF Kept, Unwritten
      <3>2. QED
        BY <2>6, <3>1 DEF Conserved, InOrder
    <2>13. QED
      BY <2>6, <2>7, <2>8, <2>9, <2>10, <2>11, <2>12 DEF TcpInv
  <1>5. QED
    BY <1>1, <1>3, <1>4 DEF Results

(* The packet written leaves the queue, and the next is written; after an error none
   is. *)
LEMMA OnWrittenStep == TcpInv /\ OnWritten => TcpInv'
  <1> SUFFICES ASSUME TcpInv, OnWritten PROVE TcpInv'
    OBVIOUS
  <1>0. /\ UNCHANGED <<ownerVars, endpoints, isConnected_, connect, reading, read_msg_,
                       taken, heard, written, io, posted>>
        /\ writes # <<>> /\ Head(writes).result \in Results
    BY DEF OnWritten
  <1>1. /\ write_msgs_ # <<>> /\ Tail(writes) = <<>> /\ Tail(write_msgs_) \in Seq(Packets)
        /\ Fronts(writes, write_msgs_) /\ isConnected_
    BY <1>0, KeptType, FrontType, HeadTailProperties DEF Fronts, TcpInv, Unconnected
  <1> USE <1>0 DEF ownerVars
  <1>2. CASE Head(writes).result = "ok"
    <2>1. /\ write_msgs_' = Tail(write_msgs_)
          /\ writes' = (IF write_msgs_' = <<>> THEN <<>> ELSE AsyncWrite(<<>>, write_msgs_'))
          /\ UNCHANGED <<socket_, read>>
      BY <1>1, <1>2 DEF OnWritten, NextWrite
    <2>2. /\ Fronts(writes', write_msgs_') /\ (write_msgs_' # <<>> => writes' # <<>>)
          /\ Waiting(writes', write_msgs_') = write_msgs_'
      <3>1. CASE write_msgs_' = <<>>
        BY <2>1, <3>1 DEF Fronts, Waiting
      <3>2. CASE write_msgs_' # <<>>
        BY <1>1, <2>1, <3>2, AsyncWriteFronts
      <3>3. QED
        BY <3>1, <3>2
    <2>3. Waiting(writes, write_msgs_) = Tail(write_msgs_)
      BY <1>2 DEF Waiting
    <2>4. writes' \in Seq(Write)
      BY <1>1, <2>1, <2>2, FrontType
    <2>5. TypeOK'
      BY <1>1, <2>1, <2>4 DEF TcpInv, TypeOK, Write
    <2>6. WriteState'
      BY <2>2 DEF WriteState
    <2>7. Conserved'
      BY <2>1, <2>2, <2>3, KeptStays
    <2>8. ReadState' /\ Unconnected' /\ OneClose' /\ HeardInOrder'
      BY <1>1, <2>1 DEF TcpInv, ReadState, Unconnected, OneClose, HeardInOrder
    <2>9. QED
      BY <2>5, <2>6, <2>7, <2>8 DEF TcpInv
  <1>3. CASE Head(writes).result = "error"
    <2>1. /\ socket_' = "closed" /\ read' = Aborted(read) /\ UNCHANGED write_msgs_
          /\ writes' = <<>>
      BY <1>1, <1>3, AbortedIsNone DEF OnWritten
    <2>2. /\ Fronts(writes', write_msgs_')
          /\ Waiting(writes', write_msgs_') = Waiting(writes, write_msgs_)
      BY <1>3, <2>1 DEF Fronts, Waiting
    <2>3. TypeOK'
      BY <2>1, EmptySeq DEF TcpInv, TypeOK, Aborted, Results
    <2>4. WriteState'
      BY <2>1, <2>2 DEF WriteState
    <2>5. Conserved'
      BY <2>2, KeptStays
    <2>6. ReadState'
      BY <2>1 DEF TcpInv, ReadState, Aborted
    <2>7. Unconnected' /\ OneClose' /\ HeardInOrder'
      BY <1>1, <2>1 DEF TcpInv, Unconnected, OneClose, HeardInOrder
    <2>8. QED
      BY <2>3, <2>4, <2>5, <2>6, <2>7 DEF TcpInv
  <1>4. QED
    BY <1>2, <1>3 DEF Results

LEMMA IoExitsStep == TcpInv /\ IoExits => TcpInv'
  <1> SUFFICES ASSUME TcpInv, IoExits PROVE TcpInv'
    OBVIOUS
  <1> USE DEF IoExits, ownerVars, socketVars, readVars, writeVars
  <1>1. TypeOK'
    BY DEF TcpInv, TypeOK
  <1>2. Conserved' /\ WriteState'
    BY Unsent DEF TcpInv, WriteState
  <1>3. ReadState' /\ Unconnected' /\ OneClose' /\ HeardInOrder'
    BY DEF TcpInv, ReadState, Unconnected, OneClose, HeardInOrder
  <1>4. QED
    BY <1>1, <1>2, <1>3 DEF TcpInv

-------------------------------------------------------------------------------
(* The network's. *)

LEMMA ConnectCompletesStep == TcpInv /\ ConnectCompletes => TcpInv'
  <1> SUFFICES ASSUME TcpInv, ConnectCompletes PROVE TcpInv'
    OBVIOUS
  <1> USE DEF ConnectCompletes, ownerVars, readVars, writeVars
  <1>1. TypeOK'
    BY DEF TcpInv, TypeOK
  <1>2. Conserved' /\ WriteState'
    BY Unsent DEF TcpInv, WriteState
  <1>3. ReadState' /\ OneClose' /\ HeardInOrder'
    BY DEF TcpInv, ReadState, OneClose, HeardInOrder
  <1>4. Unconnected'
    BY DEF TcpInv, Unconnected
  <1>5. QED
    BY <1>1, <1>2, <1>3, <1>4 DEF TcpInv

LEMMA ReadCompletesStep == TcpInv /\ ReadCompletes => TcpInv'
  <1> SUFFICES ASSUME TcpInv, ReadCompletes PROVE TcpInv'
    OBVIOUS
  <1>0. /\ read = "pending"
        /\ UNCHANGED <<ownerVars, socketVars, reading, read_msg_, heard, writeVars, io,
                       posted>>
        /\ \/ taken < 2 * MaxHeard /\ read' = "ok" /\ taken' = taken + 1
           \/ read' = "error" /\ taken' = taken
    BY DEF ReadCompletes
  <1>1. taken \in Nat /\ taken' \in {0} \cup Pieces /\ Len(heard) \in Nat
    BY <1>0, LenProperties DEF TcpInv, TypeOK, Pieces
  <1>2. reading # "nothing" /\ isConnected_
    BY <1>0 DEF TcpInv, ReadState, Unconnected
  <1> USE DEF ownerVars, socketVars, writeVars
  <1>3. TypeOK'
    BY <1>0, <1>1 DEF TcpInv, TypeOK, Results
  <1>4. Conserved' /\ WriteState'
    BY <1>0, Unsent DEF TcpInv, WriteState
  <1>5. ReadState'
    BY <1>0, <1>1, <1>2 DEF TcpInv, ReadState
  <1>6. Unconnected' /\ OneClose' /\ HeardInOrder'
    BY <1>0, <1>2 DEF TcpInv, Unconnected, OneClose, HeardInOrder
  <1>7. QED
    BY <1>3, <1>4, <1>5, <1>6 DEF TcpInv

(* A packet that has gone through the socket stays first of those kept. *)
LEMMA WriteCompletesStep == TcpInv /\ WriteCompletes => TcpInv'
  <1> SUFFICES ASSUME TcpInv, WriteCompletes PROVE TcpInv'
    OBVIOUS
  <1>0. /\ writes # <<>> /\ Head(writes).result = "pending"
        /\ UNCHANGED <<ownerVars, socketVars, readVars, write_msgs_, io, posted>>
    BY DEF WriteCompletes
  <1>1. PICK w \in Write : /\ writes = <<w>> /\ write_msgs_ # <<>>
                           /\ w.packet = Head(write_msgs_)
    BY <1>0, KeptType DEF Fronts
  <1>2. Head(writes) = w /\ Waiting(writes, write_msgs_) = write_msgs_
    BY <1>0, <1>1 DEF Waiting
  <1>3. PICK result \in Results :
           /\ writes' = [writes EXCEPT ![1].result = result]
           /\ written' = IF result = "ok" THEN Append(written, w.packet) ELSE written
    BY <1>2 DEF WriteCompletes
  <1> DEFINE v == [w EXCEPT !.result = result]
  <1>4. v \in Write /\ v.packet = w.packet /\ v.result = result
    BY DEF Write
  <1>5. writes' = <<v>>
    BY <1>1, <1>3, ResultOfOne
  <1> HIDE DEF v
  <1>6. Head(writes') = v /\ writes' # <<>>
    BY <1>5
  <1>7. Fronts(writes', write_msgs_') /\ writes' \in Seq(Write)
    BY <1>0, <1>1, <1>4, <1>5 DEF Fronts
  <1>8. /\ written \in Seq(Packets) /\ write_msgs_ \in Seq(Packets) /\ w.packet \in Packets
        /\ written' \in Seq(Packets)
    BY <1>3, KeptType, AppendProperties DEF TcpInv, TypeOK, Write
  <1>9. Kept' = Kept
    <2>1. Kept = written \o write_msgs_
      BY <1>2, KeptType
    <2>2. CASE result = "ok"
      <3>1. Kept' = Append(written, Head(write_msgs_)) \o Tail(write_msgs_)
        BY <1>0, <1>1, <1>3, <1>4, <1>6, <2>2 DEF Kept, Unwritten
      <3>2. QED
        BY <1>1, <1>8, <2>1, <3>1, MoveInOrder
    <2>3. CASE result # "ok"
      BY <1>0, <1>3, <1>4, <1>6, <2>1, <2>3 DEF Kept, Unwritten
    <2>4. QED
      BY <2>2, <2>3
  <1> USE <1>0 DEF ownerVars, socketVars, readVars
  <1>10. TypeOK'
    BY <1>7, <1>8 DEF TcpInv, TypeOK, Write
  <1>11. WriteState'
    BY <1>6, <1>7 DEF WriteState
  <1>12. Conserved'
    BY <1>9 DEF TcpInv, Conserved
  <1>13. Unconnected'
    BY DEF TcpInv, Unconnected
  <1>14. ReadState' /\ OneClose' /\ HeardInOrder'
    BY DEF TcpInv, ReadState, OneClose, HeardInOrder
  <1>15. QED
    BY <1>10, <1>11, <1>12, <1>13, <1>14 DEF TcpInv

LEMMA TcpStep == TcpInv /\ [Next]_vars => TcpInv'
  <1> SUFFICES ASSUME TcpInv, [Next]_vars PROVE TcpInv'
    OBVIOUS
  <1>1. CASE UNCHANGED vars
    <2> USE <1>1 DEF vars, ownerVars, socketVars, readVars, writeVars
    <2>1. TypeOK' /\ ReadState' /\ Unconnected' /\ OneClose' /\ HeardInOrder'
      BY DEF TcpInv, TypeOK, ReadState, Unconnected, OneClose, HeardInOrder
    <2>2. Conserved' /\ WriteState'
      BY Unsent DEF TcpInv, WriteState
    <2>3. QED
      BY <2>1, <2>2 DEF TcpInv
  <1>2. CASE RunPosted
    BY <1>2, CloseRunsStep, PacketRunsStep
  <1>3. CASE IoThread /\ ~RunPosted
    BY <1>3, OnConnectStep, OnHeaderStep, OnPayloadStep, OnWrittenStep, IoExitsStep
       DEF IoThread
  <1>4. CASE Owner
    BY <1>4, InitClientStep, SendStep, DestroyStep, JoinStep DEF Owner
  <1>5. CASE Network
    BY <1>5, ConnectCompletesStep, ReadCompletesStep, WriteCompletesStep DEF Network
  <1>6. QED
    BY <1>1, <1>2, <1>3, <1>4, <1>5 DEF Next, IoThread

-------------------------------------------------------------------------------
(* The UDP client. *)

(* The size that a header carries fits its 16 bits. *)
LEMMA SizeFits ==
    ASSUME NEW d \in Datagram \cup {Udp!NoDatagram}
    PROVE  /\ d.len \in Nat /\ d.size \in Nat /\ d.size % Udp!SizeRange \in Nat
           /\ d.size % Udp!SizeRange <= d.size
  <1>1. Udp!SizeRange \in Nat \ {0}
    BY DEF Udp!SizeRange
  <1> HIDE DEF Udp!SizeRange
  <1>2. \A n \in Nat, r \in Nat \ {0} : n % r \in Nat /\ n % r <= n
    OBVIOUS
  <1>3. d.len \in Nat /\ d.size \in Nat
    <2>1. CASE d \in Datagram
      BY <1>1, <2>1, DatagramAssumption
    <2>2. CASE d = Udp!NoDatagram
      BY <1>1, <1>2, <2>2 DEF Udp!NoDatagram, Udp!Packet, Udp!FixHeaderLength
    <2>3. QED
      BY <2>1, <2>2
  <1>4. QED
    BY <1>1, <1>2, <1>3

LEMMA UdpInitially == Udp!Init => UdpInv
  <1> SUFFICES ASSUME Udp!Init PROVE UdpInv
    OBVIOUS
  <1>1. {freed, reportsIcmp, unreachable, refusedOnce} \subseteq BOOLEAN
    BY DEF Udp!Init
  <1>2. s = <<>> /\ Len(<<>>) = 0 /\ s \in Seq(Datagram)
    BY EmptySeq DEF Udp!Init
  <1>3. packet \in Udp!Built
    <2>1. Udp!NoDatagram = Udp!Parsed(Udp!NoDatagram)
      <3>1. Udp!SizeRange \in Nat \ {0}
        BY DEF Udp!SizeRange
      <3>2. \A r \in Nat \ {0} : 0 % r = 0
        OBVIOUS
      <3>3. 0 % Udp!SizeRange = 0
        BY <3>1, <3>2, Zenon
      <3> HIDE DEF Udp!SizeRange
      <3>4. QED
        BY <3>3 DEF Udp!NoDatagram, Udp!Parsed, Udp!Packet
    <2>2. QED
      BY <2>1 DEF Udp!Init, Udp!Built
  <1>4. Udp!TypeOK
    BY <1>1, <1>2, <1>3, SocketAssumption DEF Udp!Init, Udp!TypeOK
  <1>5. QED
    BY <1>2, <1>4 DEF Udp!Init, UdpInv

LEMMA UdpStep == UdpInv /\ [Udp!Next]_udpVars => UdpInv'
  <1> SUFFICES ASSUME UdpInv, [Udp!Next]_udpVars PROVE UdpInv'
    OBVIOUS
  <1> DEFINE Flags == {freed, reportsIcmp, unreachable, refusedOnce} \subseteq BOOLEAN
  <1>0. Flags
    BY DEF UdpInv, Udp!TypeOK
  <1>00. /\ s \in Seq(Datagram) /\ Len(s) \in Nat /\ Len(s) <= SocketBuffer
         /\ arrived \in Nat /\ received \in Nat /\ received + Len(s) = arrived
         /\ arrived <= MaxArrivals
    BY LenProperties, SocketAssumption DEF UdpInv, Udp!TypeOK
  <1>1. CASE UNCHANGED udpVars
    BY <1>1 DEF UdpInv, Udp!TypeOK, udpVars, Udp!MakePacket, Udp!Received, Udp!Parsed
  <1>2. CASE Udp!InitClient
    <2> USE <1>2 DEF Udp!InitClient, Udp!inVars, Udp!icmpVars, Udp!Holders
    <2>1. Flags'
      BY <1>0
    <2>2. Udp!TypeOK'
      BY <2>1 DEF UdpInv, Udp!TypeOK
    <2>3. QED
      BY <2>2 DEF UdpInv
  <1>3. CASE Udp!Release
    <2> USE <1>3 DEF Udp!Release, Udp!inVars, Udp!icmpVars, Udp!threadVars
    <2>1. Flags'
      BY <1>0
    <2>2. Udp!TypeOK'
      BY <2>1 DEF UdpInv, Udp!TypeOK
    <2>3. (freed => holders = {})' /\ (receiver_ # "none" => "impl" \in holders)'
      BY DEF UdpInv
    <2>4. QED
      BY <2>2, <2>3 DEF UdpInv
  <1>4. CASE Udp!Receive
    <2>1. /\ s # <<>> /\ s' = Tail(s) /\ received' = received + 1 /\ reply' = Head(s)
          /\ UNCHANGED <<Udp!ownVars, arrived, Udp!icmpVars>> /\ receiver_ = "receiving"
          /\ \/ /\ Udp!MakePacket(Head(s)) /\ receiver_' = "calling"
                /\ packet' = Udp!Parsed(Head(s))
             \/ receiver_' = "receiving" /\ packet' = packet
      BY <1>4 DEF Udp!Receive, Udp!MakesPacket
    <2>2. /\ Head(s) \in Datagram /\ Tail(s) \in Seq(Datagram) /\ Len(s) > 0
          /\ Len(Tail(s)) = Len(s) - 1
      BY <1>00, <2>1, HeadTailProperties, EmptySeq
    <2> USE DEF Udp!ownVars, Udp!icmpVars
    <2>3. Flags'
      BY <1>0, <2>1
    <2>4. /\ Len(s') <= SocketBuffer /\ received' \in 0 .. arrived'
          /\ (received + Len(s) = arrived)'
      BY <1>00, <2>1, <2>2, SocketAssumption
    <2>5. packet' \in Udp!Built
      BY <2>1, <2>2 DEF UdpInv, Udp!TypeOK, Udp!Built
    <2>6. Udp!TypeOK'
      BY <2>1, <2>2, <2>3, <2>4, <2>5 DEF UdpInv, Udp!TypeOK
    <2>7. receiver_' = "calling" => packet' = Udp!Parsed(reply') /\ Udp!MakePacket(reply')
      BY <2>1
    <2>8. QED
      BY <2>1, <2>4, <2>6, <2>7 DEF UdpInv
  <1>5. CASE Udp!CallReturns
    <2> USE <1>5 DEF Udp!CallReturns, Udp!ownVars, Udp!inVars, Udp!icmpVars
    <2>1. Flags'
      BY <1>0
    <2>2. Udp!TypeOK'
      BY <2>1 DEF UdpInv, Udp!TypeOK
    <2>3. QED
      BY <2>2 DEF UdpInv
  <1>6. CASE Udp!ReceiveThrows
    <2> USE <1>6 DEF Udp!ReceiveThrows, Udp!ownVars, Udp!inVars
    <2>1. Flags'
      BY <1>0
    <2>2. Udp!TypeOK'
      BY <2>1 DEF UdpInv, Udp!TypeOK
    <2>3. QED
      BY <2>2 DEF UdpInv
  <1>7. CASE \E portClosed \in BOOLEAN : Udp!Send(portClosed)
    <2>1. PICK portClosed \in BOOLEAN : Udp!Send(portClosed)
      BY <1>7
    <2> USE <2>1 DEF Udp!Send, Udp!ownVars, Udp!inVars, Udp!threadVars
    <2>2. Flags'
      BY <1>0
    <2>3. Udp!TypeOK'
      BY <2>2 DEF UdpInv, Udp!TypeOK
    <2>4. QED
      BY <2>3 DEF UdpInv
  <1>8. CASE \E d \in Datagram : Udp!Arrive(d)
    <2>1. PICK d \in Datagram : Udp!Arrive(d)
      BY <1>8
    <2>2. /\ s' = Append(s, d) /\ arrived' = arrived + 1 /\ arrived < MaxArrivals
          /\ Len(s) < SocketBuffer
          /\ UNCHANGED <<Udp!ownVars, Udp!threadVars, Udp!icmpVars>>
      BY <2>1 DEF Udp!Arrive
    <2>3. s' \in Seq(Datagram) /\ Len(s') = Len(s) + 1
      BY <1>00, <2>2, AppendProperties
    <2> USE DEF Udp!ownVars, Udp!icmpVars, Udp!threadVars
    <2>4. Flags'
      BY <1>0, <2>2
    <2>5. /\ Len(s') <= SocketBuffer /\ arrived' \in 0 .. MaxArrivals
          /\ received' \in 0 .. arrived' /\ (received + Len(s) = arrived)'
      BY <1>00, <2>2, <2>3, SocketAssumption
    <2>6. Udp!TypeOK'
      BY <2>2, <2>3, <2>4, <2>5 DEF UdpInv, Udp!TypeOK
    <2>7. QED
      BY <2>2, <2>5, <2>6 DEF UdpInv
  <1>9. QED
    BY <1>1, <1>2, <1>3, <1>4, <1>5, <1>6, <1>7, <1>8 DEF Udp!Next, Udp!Receiver

-------------------------------------------------------------------------------
(* The theorems. *)

LEMMA ClientInitially == ClientInit => ClientInv
  BY TcpInitially, UdpInitially DEF ClientInit, ClientInv

(* A step of one transport leaves the other alone. *)
LEMMA ClientStep == ClientInv /\ [ClientNext]_clientVars => ClientInv'
  <1> SUFFICES ASSUME ClientInv, [ClientNext]_clientVars PROVE ClientInv'
    OBVIOUS
  <1>1. protocol' \in {"raw_tcp", "raw_udp"}
    BY DEF ClientInv, ClientNext, clientVars
  <1>2. [Next]_vars /\ [Udp!Next]_udpVars
    BY DEF ClientNext, clientVars
  <1>3. QED
    BY <1>1, <1>2, TcpStep, UdpStep DEF ClientInv

THEOREM ClientInvariant == ClientSpec => []ClientInv
  BY ClientInitially, ClientStep, PTL DEF ClientSpec

(* Each variable of a transport keeps its type. *)
THEOREM ClientTypeCorrect == ClientSpec => []ClientTypeOK
  <1>1. ClientInv => ClientTypeOK
    BY DEF ClientInv, TcpInv, UdpInv, ClientTypeOK
  <1>2. QED
    BY <1>1, ClientInvariant, PTL

(* What the client sent is written in the order of the sends, none lost from the queue
   and none twice, although send posts from any thread and an error leaves the failed
   packet where it is. *)
THEOREM SendsAreConserved == ClientSpec => []Conserved
  <1>1. ClientInv => Conserved
    BY DEF ClientInv, TcpInv
  <1>2. QED
    BY <1>1, ClientInvariant, PTL

(* The one read buffer gives the callback every packet once, whole and in order. *)
THEOREM StreamIsHeardInOrder == ClientSpec => []HeardInOrder
  <1>1. ClientInv => HeardInOrder
    BY DEF ClientInv, TcpInv
  <1>2. QED
    BY <1>1, ClientInvariant, PTL

(* While the socket is open the chain of reads and the chain of writes go on. *)
THEOREM ClientNeverStalls == ClientSpec => []NeverStalls
  <1>1. ClientInv => NeverStalls
    <2> SUFFICES ASSUME ClientInv, socket_ = "open"
                 PROVE  /\ reading # "nothing"
                        /\ write_msgs_ # <<>> => Len(writes) = 1
      BY DEF NeverStalls
    <2>1. reading # "nothing"
      BY DEF ClientInv, TcpInv, ReadState
    <2>2. ASSUME write_msgs_ # <<>> PROVE Len(writes) = 1
      <3>1. writes # <<>> /\ Fronts(writes, write_msgs_)
        BY <2>2 DEF ClientInv, TcpInv, WriteState
      <3>2. PICK w \in Write : writes = <<w>>
        BY <3>1 DEF Fronts
      <3>3. QED
        BY <3>2
    <2>3. QED
      BY <2>1, <2>2
  <1>2. QED
    BY <1>1, ClientInvariant, PTL

(* The callback of a RawUdpClient never sees bytes beyond those received, for any
   datagram that arrives: short, cut, or lying about its size. *)
THEOREM CallbackGetsWholePackets == ClientSpec => []WholePackets
  <1>1. ClientInv => WholePackets
    <2> SUFFICES ASSUME UdpInv, receiver_ = "calling"
                 PROVE  /\ packet.type = reply.type
                        /\ packet.len <= reply.len /\ packet.len <= Udp!MaxLength
      BY DEF ClientInv, WholePackets, Udp!WholePackets
    <2>1. /\ packet = Udp!Parsed(reply) /\ Udp!MakePacket(reply)
          /\ reply \in Datagram \cup {Udp!NoDatagram}
      BY DEF UdpInv, Udp!TypeOK
    <2>2. /\ packet.type = reply.type
          /\ packet.len = Udp!FixHeaderLength + (reply.size % Udp!SizeRange)
      BY <2>1 DEF Udp!Parsed, Udp!Packet
    <2>3. /\ reply.len \in Nat /\ reply.size \in Nat
          /\ reply.size % Udp!SizeRange \in Nat
          /\ reply.size % Udp!SizeRange <= reply.size
      BY <2>1, SizeFits
    <2>4. /\ Udp!FixHeaderLength + reply.size <= reply.len
          /\ Udp!FixHeaderLength + reply.size <= Udp!MaxLength
      BY <2>1, <2>3 DEF Udp!MakePacket, Udp!Received, Udp!FixHeaderLength, Udp!MaxLength
    <2>5. ASSUME NEW m \in Nat, NEW n \in Nat, NEW k \in Nat, m <= n,
                 Udp!FixHeaderLength + n <= k
          PROVE  Udp!FixHeaderLength + m <= k
      BY <2>5 DEF Udp!FixHeaderLength
    <2>6. packet.len <= reply.len /\ packet.len <= Udp!MaxLength
      BY <2>2, <2>3, <2>4, <2>5 DEF Udp!MaxLength
    <2>7. QED
      BY <2>2, <2>6
  <1>2. QED
    BY <1>1, ClientInvariant, PTL

(* The receiver thread never calls back with a client that was freed. *)
THEOREM ReceiverKeepsItsClient == ClientSpec => []ReceiverHasItsClient
  <1>1. ClientInv => ReceiverHasItsClient
    BY DEF ClientInv, UdpInv, ReceiverHasItsClient, Udp!ReceiverHasItsClient
  <1>2. QED
    BY <1>1, ClientInvariant, PTL

===============================================================================

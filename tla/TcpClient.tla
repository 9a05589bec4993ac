------------------------------ MODULE TcpClient ------------------------------
(***************************************************************************)
(* The TCP transport of a client (client_essential/TcpClient.hpp).  Its     *)
(* owner, a Worker, calls init, send and the destructor; one io thread runs *)
(* every handler, one at a time: what was posted, in its order, and what    *)
(* completes the pending async_connect, async_read and async_write.  An     *)
(* operation that has completed keeps its result when the socket is closed  *)
(* before its handler runs.                                                 *)
(*                                                                          *)
(* A packet of the server is two pieces of its stream, a header and a       *)
(* payload: pieces 2k-1 and 2k.  A packet of the client is the number of    *)
(* its send.                                                                *)
(***************************************************************************)
EXTENDS Naturals, Sequences

CONSTANTS
    MaxEndpoints,    \* bound: addresses that the server's name resolves to
    MaxSends,        \* bound: packets the client sends
    MaxHeard         \* bound: packets the server sends

ASSUME ClientBoundAssumption == {MaxEndpoints, MaxSends, MaxHeard} \subseteq Nat \ {0}

VARIABLES
    client,       \* the TcpClient in its owner's hands
    endpoints,    \* addresses still to be tried
    socket_,
    isConnected_,
    io,           \* the io thread
    posted,       \* handlers posted to it: a packet to write, or Closing
    connect,      \* the async_connect: none, pending, or its result
    reading,      \* what the async_read is for
    read,         \* that async_read: none, pending, or its result
    read_msg_,    \* the piece that was read as a header
    write_msgs_,
    writes,       \* the async_writes under way, each with its packet and result
    sent,         \* calls of send
    written,      \* packets that went through the socket (history)
    taken,        \* pieces taken from the server's stream
    heard         \* what onDataReceived_ was called with (history)

ownerVars == <<client, sent>>
socketVars == <<endpoints, socket_, isConnected_, connect>>
readVars == <<reading, read, read_msg_, taken, heard>>
writeVars == <<write_msgs_, writes, written>>
vars == <<ownerVars, socketVars, readVars, writeVars, io, posted>>

Closing == 0
Results == {"ok", "error"}
Packets == 1 .. MaxSends
Pieces == 1 .. 2 * MaxHeard

TypeOK == /\ client \in {"new", "refused", "up", "joining", "gone", "crashed"}
          /\ endpoints \in 0 .. MaxEndpoints
          /\ socket_ \in {"none", "connecting", "open", "closed"}
          /\ isConnected_ \in BOOLEAN
          /\ io \in {"none", "running", "exited"}
          /\ posted \in Seq(Packets \cup {Closing})
          /\ {connect, read} \subseteq Results \cup {"none", "pending"}
          /\ reading \in {"nothing", "header", "payload"}
          /\ read_msg_ \in {0} \cup Pieces
          /\ write_msgs_ \in Seq(Packets)
          /\ writes \in Seq([packet : Packets, result : Results \cup {"pending"}])
          /\ sent \in {0} \cup Packets
          /\ written \in Seq(Packets)
          /\ taken \in {0} \cup Pieces
          /\ heard \in Seq(Pieces \X Pieces)

Init == /\ client = "new" /\ sent = 0
        /\ endpoints = 0 /\ socket_ = "none" /\ isConnected_ = FALSE
        /\ connect = "none"
        /\ reading = "nothing" /\ read = "none" /\ read_msg_ = 0
        /\ taken = 0 /\ heard = <<>>
        /\ write_msgs_ = <<>> /\ writes = <<>> /\ written = <<>>
        /\ io = "none" /\ posted = <<>>

-------------------------------------------------------------------------------
(* The owner. *)

(* init: resolve throws, or the connection is begun and the io thread started. *)
InitClient ==
    /\ client = "new"
    /\ \/ /\ client' = "refused"
          /\ UNCHANGED <<socketVars, io>>
       \/ /\ client' = "up"
          /\ endpoints' \in 1 .. MaxEndpoints
          /\ socket_' = "connecting" /\ connect' = "pending"
          /\ io' = "running"
          /\ UNCHANGED isConnected_
    /\ UNCHANGED <<sent, readVars, writeVars, posted>>

(* send, from any thread of a Worker that has seen isConnected(). *)
Send == /\ client = "up" /\ isConnected_
        /\ sent < MaxSends
        /\ sent' = sent + 1
        /\ posted' = Append(posted, sent')
        /\ UNCHANGED <<client, socketVars, readVars, writeVars, io>>

Posted_Silent == posted
PostedClose == Append(posted, Closing)

(* ~TcpClient posts the close and joins the io thread; pClient is null when init
   threw, or was never called. *)
Destroy == /\ \/ /\ client = "up" /\ client' = "joining"
                 /\ posted' = PostedClose
              \/ /\ client \in {"new", "refused"} /\ client' = "crashed"
                 /\ UNCHANGED posted
           /\ UNCHANGED <<sent, socketVars, readVars, writeVars, io>>

Join == /\ client = "joining" /\ io = "exited"
        /\ client' = "gone"
        /\ UNCHANGED <<sent, socketVars, readVars, writeVars, io, posted>>

-------------------------------------------------------------------------------
(* The io thread. *)

(* What socket_.close() does to an operation that is pending. *)
Aborted(result) == IF result = "pending" THEN "error" ELSE result
AbortedWrites(ws) == [w \in DOMAIN ws |-> [ws[w] EXCEPT !.result = Aborted(@)]]

(* An operation on a closed socket fails; but a read of no bytes, as of an empty
   payload, succeeds. *)
Begun == IF socket_ = "closed" THEN "error" ELSE "pending"

StartsWriting_Always == TRUE
StartsWriting == write_msgs_ = <<>>

(* The private write(): it writes the front of the queue. *)
AsyncWrite(ws, queue) == Append(ws, [packet |-> Head(queue), result |-> Begun])

(* The lambdas that close and write post. *)
RunPosted ==
    /\ io = "running" /\ posted # <<>>
    /\ posted' = Tail(posted)
    /\ \/ /\ Head(posted) = Closing
          /\ socket_' = "closed" /\ connect' = Aborted(connect)
          /\ read' = Aborted(read) /\ writes' = AbortedWrites(writes)
          /\ UNCHANGED write_msgs_
       \/ /\ Head(posted) # Closing
          /\ write_msgs_' = Append(write_msgs_, Head(posted))
          /\ writes' = IF StartsWriting THEN AsyncWrite(writes, write_msgs_') ELSE writes
          /\ UNCHANGED <<socket_, connect, read>>
    /\ UNCHANGED <<ownerVars, endpoints, isConnected_, reading, read_msg_, taken, heard,
                   written, io>>

AddressLeft_Always == TRUE
AddressLeft == endpoints > 1

(* The connect handler, behind async_connect's own, which goes on to the next
   address unless the socket has been closed. *)
OnConnect ==
    /\ io = "running" /\ connect \in Results
    /\ \/ /\ connect = "ok" /\ socket_ # "closed"
          /\ connect' = "none" /\ socket_' = "open"
          /\ isConnected_' = TRUE
          /\ reading' = "header" /\ read' = "pending"
          /\ UNCHANGED endpoints
       \/ /\ connect = "error" /\ socket_ # "closed" /\ AddressLeft
          /\ endpoints' = endpoints - 1
          /\ connect' = "pending"
          /\ UNCHANGED <<socket_, isConnected_, reading, read>>
       \/ /\ socket_ = "closed" \/ (connect = "error" /\ ~AddressLeft)
          /\ connect' = "none" /\ socket_' = "closed"
          /\ UNCHANGED <<endpoints, isConnected_, reading, read>>
    /\ UNCHANGED <<ownerVars, read_msg_, taken, heard, writeVars, io, posted>>

(* Every error of a read closes the socket and ends the chain of reads. *)
ReadFails == /\ reading' = "nothing" /\ read' = "none"
             /\ socket_' = "closed" /\ writes' = AbortedWrites(writes)

(* readHeader's handler; checkHeader is always true. *)
OnHeader ==
    /\ io = "running" /\ reading = "header" /\ read \in Results
    /\ \/ /\ read = "error" /\ ReadFails
          /\ UNCHANGED <<read_msg_, taken>>
       \/ /\ read = "ok"
          /\ reading' = "payload" /\ read_msg_' = taken
          /\ \/ read' = Begun /\ UNCHANGED taken
             \/ socket_ = "closed" /\ read' = "ok" /\ taken' = taken + 1
          /\ UNCHANGED <<socket_, writes>>
    /\ UNCHANGED <<ownerVars, endpoints, isConnected_, connect, heard, write_msgs_,
                   written, io, posted>>

OnPayload_Unchecked ==
    /\ io = "running" /\ reading = "payload" /\ read \in Results
    /\ heard' = Append(heard, <<read_msg_, taken>>)
    /\ reading' = "header" /\ read' = Begun
    /\ UNCHANGED <<ownerVars, socketVars, read_msg_, taken, writeVars, io, posted>>

(* readPayload's handler; the owner's callback may answer with a packet. *)
OnPayload ==
    /\ io = "running" /\ reading = "payload" /\ read \in Results
    /\ \/ /\ read = "error" /\ ReadFails
          /\ UNCHANGED <<sent, posted, heard>>
       \/ /\ read = "ok"
          /\ heard' = Append(heard, <<read_msg_, taken>>)
          /\ \/ UNCHANGED <<sent, posted>>
             \/ /\ sent < MaxSends
                /\ sent' = sent + 1 /\ posted' = Append(posted, sent')
          /\ reading' = "header" /\ read' = Begun
          /\ UNCHANGED <<socket_, writes>>
    /\ UNCHANGED <<client, endpoints, isConnected_, connect, read_msg_, taken,
                   write_msgs_, written, io>>

NextWrite_Forgotten(ws, queue) == ws
NextWrite(ws, queue) == IF queue = <<>> THEN ws ELSE AsyncWrite(ws, queue)

(* write's handler.  After an error the packet stays at the front, and nothing is
   ever written again. *)
OnWritten ==
    /\ io = "running" /\ writes # <<>> /\ Head(writes).result \in Results
    /\ \/ /\ Head(writes).result = "ok"
          /\ write_msgs_' = Tail(write_msgs_)
          /\ writes' = NextWrite(Tail(writes), write_msgs_')
          /\ UNCHANGED <<socket_, read>>
       \/ /\ Head(writes).result = "error"
          /\ socket_' = "closed" /\ read' = Aborted(read)
          /\ writes' = AbortedWrites(Tail(writes))
          /\ UNCHANGED write_msgs_
    /\ UNCHANGED <<ownerVars, endpoints, isConnected_, connect, reading, read_msg_, taken,
                   heard, written, io, posted>>

(* io_service.run returns when nothing is posted or pending; what is posted later
   is never run. *)
IoExits ==
    /\ io = "running"
    /\ posted = <<>> /\ connect = "none" /\ reading = "nothing" /\ writes = <<>>
    /\ io' = "exited"
    /\ UNCHANGED <<ownerVars, socketVars, readVars, writeVars, posted>>

-------------------------------------------------------------------------------
(* The network and the server, which may be cut off at any time. *)

ConnectCompletes ==
    /\ connect = "pending"
    /\ connect' \in Results
    /\ UNCHANGED <<ownerVars, endpoints, socket_, isConnected_, readVars, writeVars, io,
                   posted>>

ReadCompletes ==
    /\ read = "pending"
    /\ \/ /\ taken < 2 * MaxHeard
          /\ read' = "ok" /\ taken' = taken + 1
       \/ read' = "error" /\ UNCHANGED taken
    /\ UNCHANGED <<ownerVars, socketVars, reading, read_msg_, heard, writeVars, io, posted>>

WriteCompletes ==
    /\ writes # <<>> /\ Head(writes).result = "pending"
    /\ \E result \in Results :
          /\ writes' = [writes EXCEPT ![1].result = result]
          /\ written' = IF result = "ok" THEN Append(written, Head(writes).packet)
                        ELSE written
    /\ UNCHANGED <<ownerVars, socketVars, readVars, write_msgs_, io, posted>>

IoThread == RunPosted \/ OnConnect \/ OnHeader \/ OnPayload \/ OnWritten \/ IoExits
Owner == InitClient \/ Send \/ Destroy \/ Join
Network == ConnectCompletes \/ ReadCompletes \/ WriteCompletes

Next == Owner \/ IoThread \/ Network

Spec == Init /\ [][Next]_vars

(* The threads run; the network may stay silent. *)
FairSpec == Spec /\ WF_vars(IoThread) /\ WF_vars(Join)

-------------------------------------------------------------------------------
Unwritten == IF writes # <<>> /\ Head(writes).result = "ok"
             THEN Tail(write_msgs_) ELSE write_msgs_
Kept == written \o Unwritten

(* Nothing that was sent is lost, doubled or overtaken while the socket lives and
   afterwards: what was written, what waits in the queue and what is still posted
   are, in this order, the packets in the order of the calls of send, but for the
   close that the destructor posts among them at some place c. *)
Conserved ==
    /\ \A n \in DOMAIN Kept : Kept[n] = n
    /\ \E c \in 1 .. Len(posted) + 1 :
          /\ \A i \in DOMAIN posted : posted[i] = IF i < c THEN Len(Kept) + i
                                                ELSE IF i = c THEN Closing
                                                ELSE Len(Kept) + (i - 1)
          /\ sent = Len(Kept) + (IF c <= Len(posted) THEN Len(posted) - 1 ELSE Len(posted))

(* The callback gets every packet of the server once, whole and in order: no
   payload is taken for a header although one buffer serves every read. *)
HeardInOrder == \A n \in DOMAIN heard : heard[n] = <<2 * n - 1, 2 * n>>

(* A connected client is never deaf or dumb: while its socket is open a read is
   under way, and a write is as soon as there is something to write. *)
NeverStalls == socket_ = "open" => /\ reading # "nothing"
                                   /\ write_msgs_ # <<>> => Len(writes) = 1

(* The destructor returns, whatever it interrupts. *)
DestructorReturns == client = "joining" ~> client = "gone"
===============================================================================

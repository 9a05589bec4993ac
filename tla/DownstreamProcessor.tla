-------------------------- MODULE DownstreamProcessor --------------------------
(***************************************************************************)
(* What a client does with the audio it receives: the receiver thread       *)
(* decodes each media packet and appends the block to the jitter buffer     *)
(* (append), the audio thread takes a block for every 10 ms of output       *)
(* (fetch) and conceals the gap when there is none.  The two threads share  *)
(* the jitter buffer, a lock-free queue of fixed capacity, and, with no     *)
(* lock, the comfort noise decoder and its flag lastIsCnPacket_.            *)
(*                                                                          *)
(* A block carries no samples: its kind, the timestamp of its packet, its   *)
(* rank `no' among the blocks the buffer accepted, the number `at' of       *)
(* blocks that had been output then, and whether it has been faded out.     *)
(***************************************************************************)
EXTENDS Naturals, Sequences

CONSTANTS
    Capacity,        \* slots of the jitter buffer: 100 in the code
    Timestamp,       \* the values of a packet's uptime field
    SerialNumber,    \* the values of a packet's serial number field
    MaxPackets,      \* bound: media packets received
    MaxFetches       \* bound: blocks output

ASSUME CapacityAssumption == Capacity \in Nat
ASSUME FieldAssumption == Timestamp \subseteq Nat /\ SerialNumber \subseteq Nat
ASSUME BoundAssumption == MaxPackets \in Nat /\ MaxFetches \in Nat

VARIABLES
    receiver,   \* where the receiver thread is in append
    packet,     \* the media packet it holds
    audio,      \* where the audio thread is in fetch
    data,       \* the block it holds
    jitterBuffer_,
    m1_, m2_,   \* the last block fetched, and the one fetched before it
    lastIsCnPacket_,
    largestReceivedMediaDataTimestamp_,
    lastReceivedAudioSn_,
    received,   \* media packets received (history)
    accepted,   \* how many blocks the jitter buffer has taken (history)
    played,     \* the blocks output (history)
    reports,    \* what the last runtime verification logged (history)
    lastMade,   \* kind of the block made last by either thread (history)
    raced       \* both threads were between making a block and noting it (history)

receiverVars == <<receiver, packet, largestReceivedMediaDataTimestamp_,
                  lastReceivedAudioSn_, received, accepted, reports>>
audioVars == <<audio, data, m1_, m2_, played>>
vars == <<receiverVars, audioVars, jitterBuffer_, lastIsCnPacket_, lastMade, raced>>

Block == [kind: {"voice", "noise"}, ts: Nat, no: Nat, at: Nat, faded: BOOLEAN]
Blank(k) == [kind |-> k, ts |-> 0, no |-> 0, at |-> 0, faded |-> FALSE]
Concealed == Blank("concealed")
Silence == Blank("silence")
Null == Blank("null")
Real(b) == b.kind \in {"voice", "noise"}
AnyBlock == [kind: {"voice", "noise", "concealed", "silence", "null"},
             ts: Nat, no: Nat, at: Nat, faded: BOOLEAN]
MediaPacket == [kind: {"voice", "noise"}, ts: Timestamp, sn: SerialNumber]

TypeOK == /\ receiver \in {"idle", "made", "noted"}
          /\ audio \in {"idle", "popped", "made"}
          /\ packet \in MediaPacket \cup {Null}
          /\ data \in Block \cup {Null}
          /\ m1_ \in AnyBlock /\ m2_ \in AnyBlock
          /\ jitterBuffer_ \in Seq(Block)
          /\ Len(jitterBuffer_) <= Capacity
          /\ lastIsCnPacket_ \in BOOLEAN /\ raced \in BOOLEAN
          /\ lastMade \in {"voice", "noise"}
          /\ largestReceivedMediaDataTimestamp_ \in Nat
          /\ lastReceivedAudioSn_ \in Nat
          /\ received \in Seq(MediaPacket)
          /\ accepted \in Nat
          /\ played \in Seq(AnyBlock)
          /\ reports \subseteq {"order", "sn"}

Init == /\ receiver = "idle" /\ packet = Null
        /\ audio = "idle" /\ data = Null
        /\ jitterBuffer_ = <<>>
        /\ m1_ = Null /\ m2_ = Null
        /\ lastIsCnPacket_ = FALSE
        /\ largestReceivedMediaDataTimestamp_ = 0
        /\ lastReceivedAudioSn_ = 0
        /\ received = <<>> /\ accepted = 0 /\ played = <<>>
        /\ reports = {} /\ lastMade = "voice" /\ raced = FALSE

-------------------------------------------------------------------------------
(* Receiver thread. *)

(* append begins: the packet is decoded, or fed to the comfort noise decoder,
   which is told lastIsCnPacket_ as it is now. *)
Decode(p) ==
    /\ receiver = "idle"
    /\ Len(received) < MaxPackets
    /\ packet' = p
    /\ received' = Append(received, p)
    /\ lastMade' = p.kind
    /\ receiver' = "made"
    /\ raced' = (raced \/ audio = "made")
    /\ UNCHANGED <<audioVars, jitterBuffer_, lastIsCnPacket_, accepted, reports,
                   largestReceivedMediaDataTimestamp_, lastReceivedAudioSn_>>

(* lastIsCnPacket_ is set after the block is made. *)
NoteKind ==
    /\ receiver = "made"
    /\ lastIsCnPacket_' = (packet.kind = "noise")
    /\ receiver' = "noted"
    /\ UNCHANGED <<audioVars, jitterBuffer_, packet, accepted, reports, received,
                   largestReceivedMediaDataTimestamp_, lastReceivedAudioSn_,
                   lastMade, raced>>

(* RUNTIME VERIFICATION: an older timestamp is logged; a serial number that
   does not follow the last one is compared only while the last one is 0. *)
Descending(p) == p.ts < largestReceivedMediaDataTimestamp_
Gap(p) == lastReceivedAudioSn_ = 0 /\ lastReceivedAudioSn_ + 1 # p.sn

Verify_LastOnly(p) ==
    /\ largestReceivedMediaDataTimestamp_' = p.ts
    /\ lastReceivedAudioSn_' = p.sn
    /\ reports' = {r \in {"order", "sn"} : \/ r = "order" /\ Descending(p)
                                           \/ r = "sn" /\ Gap(p)}

Verify(p) ==
    /\ largestReceivedMediaDataTimestamp_' =
          IF Descending(p) THEN largestReceivedMediaDataTimestamp_ ELSE p.ts
    /\ lastReceivedAudioSn_' = p.sn
    /\ reports' = {r \in {"order", "sn"} : \/ r = "order" /\ Descending(p)
                                           \/ r = "sn" /\ Gap(p)}

HasRoom_Always == TRUE
HasRoom_OffByOne == Len(jitterBuffer_) <= Capacity

(* JitterBuffer::append drops the block when every slot is taken. *)
HasRoom == Len(jitterBuffer_) < Capacity

Stored(b) == IF HasRoom THEN Append(jitterBuffer_, b) ELSE jitterBuffer_

Push ==
    /\ receiver = "noted"
    /\ Verify(packet)
    /\ accepted' = IF HasRoom THEN accepted + 1 ELSE accepted
    /\ jitterBuffer_' = Stored([kind |-> packet.kind, ts |-> packet.ts,
                               no |-> accepted + 1, at |-> Len(played),
                               faded |-> FALSE])
    /\ receiver' = "idle"
    /\ packet' = Null
    /\ UNCHANGED <<audioVars, lastIsCnPacket_, received, lastMade, raced>>

-------------------------------------------------------------------------------
(* Audio thread. *)

(* JitterBuffer::fetch: the oldest block, or nullptr. *)
Pop ==
    /\ audio = "idle"
    /\ Len(played) < MaxFetches
    /\ IF jitterBuffer_ = <<>>
       THEN data' = Null /\ UNCHANGED jitterBuffer_
       ELSE data' = Head(jitterBuffer_) /\ jitterBuffer_' = Tail(jitterBuffer_)
    /\ audio' = "popped"
    /\ UNCHANGED <<receiverVars, m1_, m2_, played, lastIsCnPacket_, lastMade, raced>>

(* FadeExponential: the samples are multiplied, in place, by factors that only fall,
   over both blocks that the packet loss concealment is given. *)
FadedOut(b) == [b EXCEPT !.faded = TRUE]

(* No block, and two earlier ones to fade out; comfort noise is generated for the
   gap. *)
CanPredict == m1_ # Null /\ m2_ # Null

Conceal ==
    /\ audio = "popped"
    /\ data = Null
    /\ CanPredict
    /\ m1_' = FadedOut(m1_)
    /\ m2_' = FadedOut(m2_)
    /\ lastMade' = "noise"
    /\ raced' = (raced \/ receiver = "made")
    /\ audio' = "made"
    /\ UNCHANGED <<receiverVars, data, played, jitterBuffer_, lastIsCnPacket_>>

Shift_Undelayed(b) ==
    /\ m2_' = m1_
    /\ m1_' = b
    /\ played' = Append(played, b)
    /\ data' = Null
    /\ audio' = "idle"
    /\ UNCHANGED <<receiverVars, jitterBuffer_, lastMade, raced>>

(* The rest of fetch outputs m1_ (which becomes m2_) and keeps b for the next
   fetch; before there is a m1_ it outputs silence. *)
Shift(b) ==
    /\ m2_' = m1_
    /\ m1_' = b
    /\ played' = Append(played, IF m1_ = Null THEN Silence ELSE m1_)
    /\ data' = Null
    /\ audio' = "idle"
    /\ UNCHANGED <<receiverVars, jitterBuffer_, lastMade, raced>>

OutputReal == /\ audio = "popped" /\ data # Null
              /\ Shift(data)
              /\ UNCHANGED lastIsCnPacket_

OutputSilent == /\ audio = "popped" /\ data = Null /\ ~CanPredict
                /\ Shift(Silence)
                /\ UNCHANGED lastIsCnPacket_

OutputConcealed == /\ audio = "made"
                   /\ Shift(Concealed)
                   /\ lastIsCnPacket_' = TRUE

Next == \/ \E p \in MediaPacket : Decode(p)
        \/ NoteKind
        \/ Push
        \/ Pop
        \/ Conceal
        \/ OutputReal
        \/ OutputSilent
        \/ OutputConcealed

Spec == Init /\ [][Next]_vars

-------------------------------------------------------------------------------
(* The blocks that the buffer accepted are output in the order in which it
   accepted them, each once, none skipped, whatever the two threads interleave
   and however many blocks found the buffer full. *)
PlayedInOrder ==
    \A j \in DOMAIN played : Real(played[j]) =>
        /\ \A i \in 1 .. j - 1 : played[i].no < played[j].no
        /\ \A n \in 1 .. played[j].no : \E i \in 1 .. j : played[i].no = n

(* documents/.../TediousNetworkTestPlan.md asks for a delay below 3 seconds "in
   all situation".  A block waits for at most Capacity + 2 blocks of 10 ms to be
   output after it: the buffer ahead of it, the block in the audio thread's
   hand, and the one fetch that m1_ is held back. *)
DelayBound ==
    \A j \in DOMAIN played :
        Real(played[j]) => j <= played[j].at + Capacity + 2

(* A gap is never entered at full volume: a block is output faded exactly when
   what follows it is concealment, so the packet loss concealment fades the
   block that is still to be heard, and fades none of those before a block
   that arrived in time. *)
FadedBeforeGap ==
    \A j \in 1 .. Len(played) - 1 :
        played[j].faded <=> played[j + 1].kind = "concealed"

(* A packet older than one received before is reported, and no other is: the
   runtime verification compares with the newest so far, not with the last. *)
DescendingReported ==
    [][receiver = "noted" /\ receiver' = "idle" =>
         ("order" \in reports' <=>
            \E i \in 1 .. Len(received) - 1 :
                received[i].ts > received[Len(received)].ts)]_vars

(* lastIsCnPacket_ says whether the block made last was noise, once both
   threads have set it and as long as they were never both between making
   their block and setting the flag. *)
CnFlagTracksLastBlock ==
    (~raced /\ receiver # "made" /\ audio # "made") =>
        (lastIsCnPacket_ <=> lastMade = "noise")

(* Order, on both sides of the jitter buffer: what it takes goes out in that order,
   and what the network had overtaken on the way to it is noticed. *)
OrderIsKept == []PlayedInOrder /\ DescendingReported

(* A gap is covered without a click: faded into, and filled with noise that goes on
   from the noise before it when, and only when, that was noise. *)
GapIsSmooth == FadedBeforeGap /\ CnFlagTracksLastBlock

(* DownstreamProcessor.cpp: "RUNTIME VERIFICATION SN" logs
   "lastReceivedAudioSn_ + 1 != currentSn" when a packet is missing. *)
GapReported ==
    [][receiver = "noted" /\ receiver' = "idle" =>
         (packet.sn # lastReceivedAudioSn_ + 1 => "sn" \in reports')]_vars
===============================================================================

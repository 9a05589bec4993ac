----------------------- MODULE DownstreamProcessorProofs -----------------------
(***************************************************************************)
(* Theorems about the jitter buffer and the two threads that share it, for  *)
(* every capacity, every stream of packets and every interleaving.          *)
(***************************************************************************)
EXTENDS DownstreamProcessor, SequenceTheorems, TLAPS

(* What the threads hold, by their program counters. *)
Phases == /\ audio # "popped" => data = Null
          /\ receiver # "idle" => packet \in MediaPacket

(* Where each accepted block is: the buffer holds the newest ones, the audio
   thread's hand the one before them, m1_ the one before that. *)
InHand == IF data = Null THEN 0 ELSE 1
InM1 == IF Real(m1_) THEN 1 ELSE 0
Shifted == accepted - Len(jitterBuffer_) - InHand
Heard == Shifted - InM1

Numbered == /\ Heard \in Nat
            /\ \A k \in 1 .. Len(jitterBuffer_) :
                  jitterBuffer_[k].no = accepted - Len(jitterBuffer_) + k
            /\ data # Null => data.no = accepted - Len(jitterBuffer_)
            /\ m1_.no = IF Real(m1_) THEN Shifted ELSE 0

PlayedUpTo == /\ \A j \in 1 .. Len(played) : played[j].no \in 0 .. Heard
              /\ \A n \in 1 .. Heard : \E j \in 1 .. Len(played) : played[j].no = n

(* When each accepted block will be output, at the latest. *)
Fetching == IF audio = "idle" THEN 0 ELSE 1

Due == /\ \A k \in 1 .. Len(jitterBuffer_) :
             Len(played) + k + Fetching <= jitterBuffer_[k].at + Capacity + 1
       /\ data # Null => Len(played) <= data.at + Capacity
       /\ Real(m1_) => Len(played) <= m1_.at + Capacity + 1

(* A block is faded only while it is m1_ and its successor will be filling. *)
Fades == /\ \A k \in 1 .. Len(jitterBuffer_) : jitterBuffer_[k].faded = FALSE
         /\ data.faded = FALSE
         /\ m1_.faded <=> audio = "made"
         /\ Len(played) > 0 =>
               (played[Len(played)].faded <=> m1_.kind = "concealed")
         /\ FadedBeforeGap

LEMMA NullFields ==
    /\ Null.kind = "null" /\ Null.no = 0 /\ ~Null.faded /\ ~Real(Null)
    /\ Concealed.kind = "concealed" /\ Concealed.no = 0 /\ ~Concealed.faded
    /\ Silence.kind = "silence" /\ Silence.no = 0 /\ ~Silence.faded
    /\ ~Real(Silence) /\ ~Real(Concealed)
    /\ {Null, Concealed, Silence} \subseteq AnyBlock
    /\ \A b \in Block : Real(b) /\ b # Null
    /\ Block \subseteq AnyBlock
  <1>1. \A k \in {"concealed", "silence", "null"} :
           /\ Blank(k).kind = k /\ Blank(k).no = 0 /\ Blank(k).faded = FALSE
           /\ Blank(k) \in AnyBlock /\ ~Real(Blank(k))
    BY DEF AnyBlock, Real, Blank
  <1>2. ASSUME NEW b \in Block PROVE Real(b) /\ b # Null /\ b \in AnyBlock
    <2>1. b.kind \in {"voice", "noise"} /\ b \in AnyBlock
      BY DEF Block, AnyBlock
    <2>2. QED
      BY <1>1, <2>1 DEF Real, Null
  <1>3. QED
    BY <1>1, <1>2 DEF Null, Silence, Concealed

-------------------------------------------------------------------------------
LEMMA InitTyped == Init => TypeOK /\ Phases
  <1> SUFFICES ASSUME Init PROVE TypeOK /\ Phases
    OBVIOUS
  <1>1. jitterBuffer_ \in Seq(Block) /\ Len(jitterBuffer_) <= Capacity
    BY CapacityAssumption DEF Init
  <1>2. received \in Seq(MediaPacket) /\ played \in Seq(AnyBlock)
    BY DEF Init
  <1>3. QED
    BY <1>1, <1>2, NullFields DEF Init, TypeOK, Phases

(* Each operation keeps the types; Push keeps the buffer within its capacity. *)
LEMMA NextTyped == TypeOK /\ Phases /\ [Next]_vars => (TypeOK /\ Phases)'
  <1> SUFFICES ASSUME TypeOK, Phases, [Next]_vars
               PROVE  (TypeOK /\ Phases)'
    OBVIOUS
  <1> USE CapacityAssumption, FieldAssumption
  <1>1. ASSUME NEW p \in MediaPacket, Decode(p) PROVE (TypeOK /\ Phases)'
    BY <1>1 DEF Decode, TypeOK, Phases, MediaPacket, audioVars
  <1>2. CASE NoteKind
    BY <1>2, NullFields DEF NoteKind, TypeOK, Phases, audioVars
  <1>3. CASE Push
    <2>1. packet.kind \in {"voice", "noise"} /\ packet.ts \in Nat /\ packet.sn \in Nat
      BY <1>3 DEF Push, Phases, MediaPacket
    <2> DEFINE b == [kind |-> packet.kind, ts |-> packet.ts, no |-> accepted + 1,
                     at |-> Len(played), faded |-> FALSE]
    <2>2. b \in Block /\ accepted' \in Nat
      BY <1>3, <2>1 DEF Push, TypeOK, Block
    <2>3. jitterBuffer_' \in Seq(Block) /\ Len(jitterBuffer_') <= Capacity
      BY <1>3, <2>2 DEF Push, Stored, HasRoom, TypeOK
    <2>4. /\ largestReceivedMediaDataTimestamp_' \in Nat
          /\ lastReceivedAudioSn_' \in Nat
          /\ reports' \subseteq {"order", "sn"}
      <3>1. reports' \subseteq {"order", "sn"}
        BY <1>3 DEF Push, Verify
      <3>2. lastReceivedAudioSn_' \in Nat
        BY <1>3, <2>1 DEF Push, Verify
      <3>3. largestReceivedMediaDataTimestamp_' \in Nat
        BY <1>3, <2>1 DEF Push, Verify, TypeOK
      <3>4. QED
        BY <3>1, <3>2, <3>3
    <2>5. /\ receiver' = "idle" /\ packet' = Null
          /\ UNCHANGED <<audio, data, m1_, m2_, played, lastIsCnPacket_, received,
                         lastMade, raced>>
      BY <1>3 DEF Push, audioVars
    <2>6. TypeOK'
      <3>1. /\ audio' \in {"idle", "popped", "made"} /\ data' \in Block \cup {Null}
            /\ m1_' \in AnyBlock /\ m2_' \in AnyBlock
            /\ received' \in Seq(MediaPacket) /\ played' \in Seq(AnyBlock)
        BY <2>5 DEF TypeOK
      <3>2. /\ lastIsCnPacket_' \in BOOLEAN /\ raced' \in BOOLEAN
            /\ lastMade' \in {"voice", "noise"}
        BY <2>5 DEF TypeOK
      <3>3. accepted' \in Nat /\ receiver' = "idle" /\ packet' = Null
        BY <2>2, <2>5
      <3> HIDE DEF b
      <3>4. QED
        BY <2>3, <2>4, <3>1, <3>2, <3>3 DEF TypeOK
    <2>7. QED
      BY <2>5, <2>6, NullFields DEF Phases
  <1>4. CASE Pop
    <2>1. /\ jitterBuffer_' \in Seq(Block) /\ Len(jitterBuffer_') <= Capacity
          /\ data' \in Block \cup {Null}
      <3>1. CASE jitterBuffer_ = <<>>
        BY <1>4, <3>1 DEF Pop, TypeOK
      <3>2. CASE jitterBuffer_ # <<>>
        <4>1. /\ Head(jitterBuffer_) \in Block /\ Tail(jitterBuffer_) \in Seq(Block)
              /\ Len(Tail(jitterBuffer_)) = Len(jitterBuffer_) - 1
          BY <3>2, HeadTailProperties DEF TypeOK
        <4>2. Len(jitterBuffer_) \in Nat /\ Len(jitterBuffer_) <= Capacity
          BY LenProperties DEF TypeOK
        <4>3. QED
          BY <1>4, <3>2, <4>1, <4>2 DEF Pop
      <3>3. QED
        BY <3>1, <3>2
    <2>2. QED
      BY <1>4, <2>1, NullFields DEF Pop, TypeOK, Phases, receiverVars
  <1>5. CASE Conceal
    BY <1>5, NullFields DEF Conceal, FadedOut, TypeOK, Phases, receiverVars, AnyBlock
  <1>6. ASSUME NEW b \in AnyBlock, Shift(b), lastIsCnPacket_' \in BOOLEAN
        PROVE  (TypeOK /\ Phases)'
    BY <1>6, NullFields DEF Shift, TypeOK, Phases, receiverVars
  <1>7. CASE OutputReal
    BY <1>6, <1>7, NullFields DEF OutputReal, TypeOK
  <1>8. CASE OutputSilent
    BY <1>6, <1>8, NullFields DEF OutputSilent, TypeOK
  <1>9. CASE OutputConcealed
    BY <1>6, <1>9, NullFields DEF OutputConcealed
  <1>10. CASE UNCHANGED vars
    BY <1>10 DEF vars, receiverVars, audioVars, TypeOK, Phases
  <1>11. QED
    BY <1>1, <1>2, <1>3, <1>4, <1>5, <1>7, <1>8, <1>9, <1>10 DEF Next

(* Type correctness: what each thread holds, and a buffer within its capacity. *)
THEOREM TypeCorrect == Spec => []TypeOK
  BY InitTyped, NextTyped, PTL DEF Spec

-------------------------------------------------------------------------------
(* What the three operations on the shared and the output sequences do, index by
   index. *)
LEMMA PushEffect ==
    ASSUME TypeOK, Phases, Push
    PROVE  /\ UNCHANGED <<audio, data, m1_, m2_, played>>
           /\ \/ UNCHANGED <<jitterBuffer_, accepted>>
              \/ /\ Len(jitterBuffer_) < Capacity
                 /\ Len(jitterBuffer_') = Len(jitterBuffer_) + 1
                 /\ accepted' = accepted + 1
                 /\ \A k \in 1 .. Len(jitterBuffer_) :
                       jitterBuffer_'[k] = jitterBuffer_[k]
                 /\ jitterBuffer_'[Len(jitterBuffer_) + 1].no = accepted + 1
                 /\ jitterBuffer_'[Len(jitterBuffer_) + 1].at = Len(played)
                 /\ jitterBuffer_'[Len(jitterBuffer_) + 1].faded = FALSE
  <1> DEFINE b == [kind |-> packet.kind, ts |-> packet.ts, no |-> accepted + 1,
                   at |-> Len(played), faded |-> FALSE]
  <1>1. UNCHANGED <<audio, data, m1_, m2_, played>>
    BY DEF Push, audioVars
  <1>2. CASE ~HasRoom
    BY <1>1, <1>2 DEF Push, Stored
  <1>3. CASE HasRoom
    <2>1. packet.kind \in {"voice", "noise"} /\ packet.ts \in Nat
      BY FieldAssumption DEF Push, Phases, MediaPacket
    <2>2. b \in Block
      BY <2>1, LenProperties DEF TypeOK, Block
    <2>3. jitterBuffer_' = Append(jitterBuffer_, b) /\ accepted' = accepted + 1
      BY <1>3 DEF Push, Stored
    <2>4. b.no = accepted + 1 /\ b.at = Len(played) /\ b.faded = FALSE
      OBVIOUS
    <2> HIDE DEF b
    <2>5. /\ Len(jitterBuffer_') = Len(jitterBuffer_) + 1
          /\ \A k \in 1 .. Len(jitterBuffer_) : jitterBuffer_'[k] = jitterBuffer_[k]
          /\ jitterBuffer_'[Len(jitterBuffer_) + 1] = b
      BY <2>2, <2>3, AppendProperties DEF TypeOK
    <2>6. QED
      BY <1>1, <1>3, <2>3, <2>4, <2>5 DEF HasRoom
  <1>4. QED
    BY <1>2, <1>3

LEMMA PopEffect ==
    ASSUME TypeOK, Phases, Pop
    PROVE  /\ UNCHANGED <<accepted, m1_, m2_, played>>
           /\ audio = "idle" /\ audio' = "popped" /\ data = Null
           /\ \/ data' = Null /\ UNCHANGED jitterBuffer_
              \/ /\ Len(jitterBuffer_) > 0
                 /\ data' = jitterBuffer_[1] /\ data' # Null
                 /\ Len(jitterBuffer_') = Len(jitterBuffer_) - 1
                 /\ \A k \in 1 .. Len(jitterBuffer_') :
                       jitterBuffer_'[k] = jitterBuffer_[k + 1]
  <1>1. /\ UNCHANGED <<accepted, m1_, m2_, played>>
        /\ audio = "idle" /\ audio' = "popped" /\ data = Null
    BY DEF Pop, Phases, receiverVars
  <1>2. CASE jitterBuffer_ = <<>>
    BY <1>1, <1>2 DEF Pop
  <1>3. CASE jitterBuffer_ # <<>>
    <2>1. data' = Head(jitterBuffer_) /\ jitterBuffer_' = Tail(jitterBuffer_)
      BY <1>3 DEF Pop
    <2>2. /\ Head(jitterBuffer_) \in Block
          /\ Len(jitterBuffer_') = Len(jitterBuffer_) - 1
          /\ \A k \in 1 .. Len(jitterBuffer_') : jitterBuffer_'[k] = jitterBuffer_[k + 1]
      BY <1>3, <2>1, HeadTailProperties DEF TypeOK
    <2>3. Len(jitterBuffer_) > 0 /\ Head(jitterBuffer_) = jitterBuffer_[1]
      BY <1>3, EmptySeq, LenProperties DEF TypeOK
    <2>4. QED
      BY <1>1, <2>1, <2>2, <2>3, NullFields
  <1>4. QED
    BY <1>2, <1>3

(* The block that the rest of fetch keeps: the one in hand, or filling. *)
Kept(b) == /\ b \in AnyBlock
           /\ data # Null => b = data
           /\ data = Null => b \in {Silence, Concealed}

LEMMA ShiftEffect ==
    ASSUME TypeOK, Phases, NEW b, Kept(b), Shift(b)
    PROVE  /\ UNCHANGED <<accepted, jitterBuffer_>>
           /\ m1_' = b /\ data' = Null /\ audio' = "idle"
           /\ Len(played') = Len(played) + 1
           /\ \A j \in 1 .. Len(played) : played'[j] = played[j]
           /\ played'[Len(played) + 1] = IF m1_ = Null THEN Silence ELSE m1_
  <1>1. /\ UNCHANGED <<accepted, jitterBuffer_>>
        /\ m1_' = b /\ data' = Null /\ audio' = "idle"
        /\ played' = Append(played, IF m1_ = Null THEN Silence ELSE m1_)
    BY DEF Shift, receiverVars
  <1>2. (IF m1_ = Null THEN Silence ELSE m1_) \in AnyBlock
    BY NullFields DEF TypeOK
  <1>3. QED
    BY <1>1, <1>2, AppendProperties DEF TypeOK

(* Each step is one of these as far as blocks are concerned. *)
LEMMA StepCases ==
    ASSUME TypeOK, Phases, [Next]_vars
    PROVE  \/ Push
           \/ Pop
           \/ Conceal
           \/ \E b \in AnyBlock :
                 Kept(b) /\ Shift(b) /\ audio # "idle"
                         /\ (b.kind = "concealed" <=> audio = "made")
           \/ UNCHANGED <<audio, data, m1_, m2_, played, jitterBuffer_, accepted>>
  <1>1. CASE OutputReal
    <2>1. Kept(data) /\ Shift(data) /\ audio = "popped" /\ data.kind # "concealed"
      BY <1>1, NullFields DEF OutputReal, Kept, TypeOK, Block
    <2>2. QED
      BY <2>1 DEF Kept
  <1>2. CASE OutputSilent
    BY <1>2, NullFields DEF OutputSilent, Kept
  <1>3. CASE OutputConcealed
    BY <1>3, NullFields DEF OutputConcealed, Kept, Phases
  <1>4. CASE NoteKind \/ UNCHANGED vars \/ (\E p \in MediaPacket : Decode(p))
    BY <1>4 DEF NoteKind, Decode, vars, audioVars, receiverVars
  <1>5. QED
    BY <1>1, <1>2, <1>3, <1>4 DEF Next

-------------------------------------------------------------------------------
(* Order.  Where a block is says which it is; a fetch hears the next one or none. *)
LEMMA NumberedInit == Init => Numbered /\ PlayedUpTo /\ PlayedInOrder
  BY NullFields DEF Init, Numbered, PlayedUpTo, PlayedInOrder, Heard, Shifted,
                    InHand, InM1

LEMMA NumberedSame ==
    ASSUME TypeOK, Numbered,
           \/ TypeOK /\ Phases /\ Push
           \/ TypeOK /\ Phases /\ Pop
           \/ TypeOK /\ Phases /\ Conceal
           \/ UNCHANGED <<audio, data, m1_, m2_, played, jitterBuffer_, accepted>>
    PROVE  Numbered' /\ Heard' = Heard /\ UNCHANGED played
  <1>0. accepted \in Nat /\ Len(jitterBuffer_) \in Nat
    BY LenProperties DEF TypeOK
  <1>1. CASE Phases /\ Push
    <2>1. InHand' = InHand /\ InM1' = InM1 /\ data' = data /\ m1_' = m1_ /\ played' = played
      BY <1>1, PushEffect DEF InHand, InM1
    <2>2. CASE UNCHANGED <<jitterBuffer_, accepted>>
      BY <2>1, <2>2 DEF Numbered, Heard, Shifted
    <2>3. CASE ~UNCHANGED <<jitterBuffer_, accepted>>
      <3>1. /\ Len(jitterBuffer_') = Len(jitterBuffer_) + 1
            /\ accepted' = accepted + 1
            /\ \A k \in 1 .. Len(jitterBuffer_) : jitterBuffer_'[k] = jitterBuffer_[k]
            /\ jitterBuffer_'[Len(jitterBuffer_) + 1].no = accepted + 1
        BY <1>1, <2>3, PushEffect
      <3>2. Shifted' = Shifted /\ Heard' = Heard
        BY <1>0, <2>1, <3>1 DEF Shifted, Heard, InHand, InM1
      <3>3. \A k \in 1 .. Len(jitterBuffer_') :
               jitterBuffer_'[k].no = accepted' - Len(jitterBuffer_') + k
        BY <1>0, <3>1 DEF Numbered
      <3>4. QED
        BY <1>0, <2>1, <3>1, <3>2, <3>3 DEF Numbered
    <2>4. QED
      BY <2>2, <2>3
  <1>2. CASE Phases /\ Pop
    <2>1. accepted' = accepted /\ m1_' = m1_ /\ played' = played /\ data = Null
      BY <1>2, PopEffect
    <2>2. CASE data' = Null /\ UNCHANGED jitterBuffer_
      BY <2>1, <2>2 DEF Numbered, Heard, Shifted, InHand, InM1
    <2>3. CASE ~(data' = Null /\ UNCHANGED jitterBuffer_)
      <3>1. /\ Len(jitterBuffer_) > 0
            /\ data' = jitterBuffer_[1] /\ data' # Null
            /\ Len(jitterBuffer_') = Len(jitterBuffer_) - 1
            /\ \A k \in 1 .. Len(jitterBuffer_') : jitterBuffer_'[k] = jitterBuffer_[k + 1]
        BY <1>2, <2>3, PopEffect
      <3>2. Shifted' = Shifted /\ Heard' = Heard
        BY <1>0, <2>1, <3>1 DEF Shifted, Heard, InHand, InM1
      <3>3. \A k \in 1 .. Len(jitterBuffer_') :
               jitterBuffer_'[k].no = accepted' - Len(jitterBuffer_') + k
        BY <1>0, <2>1, <3>1 DEF Numbered
      <3>4. data'.no = accepted' - Len(jitterBuffer_')
        BY <1>0, <2>1, <3>1 DEF Numbered
      <3>5. QED
        BY <2>1, <3>2, <3>3, <3>4 DEF Numbered
    <2>4. QED
      BY <2>2, <2>3
  <1>3. CASE Conceal
    <2>1. m1_'.kind = m1_.kind /\ m1_'.no = m1_.no
      BY <1>3 DEF Conceal, FadedOut, TypeOK, AnyBlock
    <2>2. UNCHANGED <<data, played, jitterBuffer_, accepted>>
      BY <1>3 DEF Conceal, FadedOut, receiverVars
    <2>3. InM1' = InM1 /\ InHand' = InHand /\ (Real(m1_') <=> Real(m1_))
      BY <2>1, <2>2 DEF InM1, InHand, Real
    <2>4. Shifted' = Shifted /\ Heard' = Heard
      BY <2>2, <2>3 DEF Shifted, Heard
    <2>5. QED
      BY <2>1, <2>2, <2>3, <2>4 DEF Numbered
  <1>4. CASE UNCHANGED <<audio, data, m1_, m2_, played, jitterBuffer_, accepted>>
    BY <1>4 DEF Numbered, Heard, Shifted, InHand, InM1
  <1>5. QED
    BY <1>1, <1>2, <1>3, <1>4

LEMMA NumberedShift ==
    ASSUME TypeOK, Phases, Numbered, NEW b, Kept(b), Shift(b)
    PROVE  /\ Numbered'
           /\ Heard' = Heard + InM1
           /\ played'[Len(played) + 1].no = IF Real(m1_) THEN Heard' ELSE 0
           /\ Real(played'[Len(played) + 1]) <=> Real(m1_)
  <1>0. accepted \in Nat /\ Len(jitterBuffer_) \in Nat
    BY LenProperties DEF TypeOK
  <1>1. /\ accepted' = accepted /\ jitterBuffer_' = jitterBuffer_
        /\ m1_' = b /\ data' = Null
        /\ played'[Len(played) + 1] = IF m1_ = Null THEN Silence ELSE m1_
    BY ShiftEffect
  <1>2. Heard' = Heard + InM1 /\ Heard' = Shifted
    <2>1. InHand' = 0 /\ InM1' = InHand
      BY <1>1, NullFields DEF InHand, InM1, Kept, TypeOK
    <2>2. QED
      BY <1>0, <1>1, <2>1 DEF Heard, Shifted, InHand, InM1
  <1>3. b.no = IF Real(b) THEN Shifted' ELSE 0
    <2>1. CASE data = Null
      BY <2>1, NullFields DEF Kept
    <2>2. CASE data # Null
      <3>1. b = data /\ Real(b)
        BY <2>2, NullFields DEF Kept, TypeOK
      <3>2. Shifted' = accepted - Len(jitterBuffer_)
        BY <1>0, <1>1 DEF Shifted, InHand
      <3>3. QED
        BY <2>2, <3>1, <3>2 DEF Numbered
    <2>3. QED
      BY <2>1, <2>2
  <1>4. Numbered'
    <2>1. Heard' \in Nat
      BY <1>2 DEF Numbered, InM1
    <2>2. \A k \in 1 .. Len(jitterBuffer_') :
             jitterBuffer_'[k].no = accepted' - Len(jitterBuffer_') + k
      BY <1>1 DEF Numbered
    <2>3. QED
      BY <1>1, <1>3, <2>1, <2>2 DEF Numbered
  <1>5. QED
    BY <1>1, <1>2, <1>4, NullFields DEF Numbered

OrderInv == Numbered /\ PlayedUpTo /\ PlayedInOrder

LEMMA OrderKept == TypeOK /\ Phases /\ OrderInv /\ [Next]_vars => OrderInv'
  <1> SUFFICES ASSUME TypeOK, Phases, OrderInv, [Next]_vars
               PROVE  OrderInv'
    OBVIOUS
  <1>1. CASE \/ Push \/ Pop \/ Conceal
             \/ UNCHANGED <<audio, data, m1_, m2_, played, jitterBuffer_, accepted>>
    <2>1. Numbered' /\ Heard' = Heard /\ played' = played
      BY <1>1, NumberedSame DEF OrderInv
    <2>2. QED
      BY <2>1 DEF OrderInv, PlayedUpTo, PlayedInOrder
  <1>2. ASSUME NEW b, Kept(b), Shift(b) PROVE OrderInv'
    <2> DEFINE n == Len(played)
               out == played'[n + 1]
    <2>1. /\ Numbered' /\ Heard' = Heard + InM1 /\ Heard \in Nat
          /\ out.no = IF Real(m1_) THEN Heard' ELSE 0
          /\ Real(out) <=> Real(m1_)
      BY <1>2, NumberedShift DEF OrderInv, Numbered
    <2>2. /\ n \in Nat /\ Len(played') = n + 1
          /\ \A j \in 1 .. n : played'[j] = played[j]
      BY <1>2, ShiftEffect, LenProperties DEF TypeOK
    <2>3. InM1 = (IF Real(m1_) THEN 1 ELSE 0)
      BY DEF InM1
    <2>4. DOMAIN played = 1 .. n /\ DOMAIN played' = 1 .. n + 1
      <3>1. played' \in Seq(AnyBlock)
        BY NextTyped DEF TypeOK
      <3>2. QED
        BY <2>2, <3>1 DEF TypeOK
    <2> HIDE DEF out, n
    <2>5. PlayedUpTo'
      <3>1. \A j \in 1 .. n + 1 : played'[j].no \in 0 .. Heard'
        BY <2>1, <2>2, <2>3 DEF OrderInv, PlayedUpTo, n, out
      <3>2. ASSUME NEW k \in 1 .. Heard' PROVE \E j \in 1 .. n + 1 : played'[j].no = k
        <4>1. CASE k \in 1 .. Heard
          <5>1. PICK j \in 1 .. n : played[j].no = k
            BY <4>1 DEF OrderInv, PlayedUpTo, n
          <5>2. j \in 1 .. n + 1 /\ played'[j].no = k
            BY <2>2, <5>1
          <5>3. QED
            BY <5>2
        <4>2. CASE k \notin 1 .. Heard
          <5>1. k = Heard' /\ Real(m1_)
            BY <2>1, <2>3, <4>2
          <5>2. QED
            BY <2>1, <2>2, <5>1 DEF out
        <4>3. QED
          BY <4>1, <4>2
      <3>3. QED
        BY <2>2, <3>1, <3>2 DEF PlayedUpTo
    <2>6. ASSUME NEW j \in 1 .. n + 1, Real(played'[j])
          PROVE  /\ \A i \in 1 .. j - 1 : played'[i].no < played'[j].no
                 /\ \A k \in 1 .. played'[j].no : \E i \in 1 .. j : played'[i].no = k
      <3>1. CASE j \in 1 .. n
        <4>1. /\ played'[j] = played[j]
              /\ \A i \in 1 .. j : played'[i] = played[i]
          BY <2>2, <3>1
        <4>2. /\ \A i \in 1 .. j - 1 : played[i].no < played[j].no
              /\ \A k \in 1 .. played[j].no : \E i \in 1 .. j : played[i].no = k
          BY <2>4, <2>6, <3>1, <4>1 DEF OrderInv, PlayedInOrder
        <4>3. \A i \in 1 .. j - 1 : i \in 1 .. j
          BY <2>2, <3>1
        <4>4. QED
          BY <4>1, <4>2, <4>3
      <3>2. CASE j = n + 1
        <4>1. out.no = Heard + 1 /\ Heard' = Heard + 1
          BY <2>1, <2>3, <2>6, <3>2 DEF out
        <4>2. \A i \in 1 .. n : played'[i].no \in 0 .. Heard
          BY <2>1, <2>2 DEF OrderInv, PlayedUpTo, n
        <4>3. \A k \in 1 .. Heard' : \E i \in 1 .. n + 1 : played'[i].no = k
          BY <2>2, <2>5 DEF PlayedUpTo
        <4>4. played'[j].no = Heard + 1
          BY <3>2, <4>1 DEF out
        <4>5. \A i \in 1 .. j - 1 : played'[i].no < played'[j].no
          BY <2>1, <2>2, <3>2, <4>2, <4>4
        <4>6. QED
          BY <3>2, <4>1, <4>3, <4>4, <4>5
      <3>3. QED
        BY <2>2, <3>1, <3>2
    <2>7. PlayedInOrder'
      BY <2>4, <2>6 DEF PlayedInOrder
    <2>8. QED
      BY <2>1, <2>5, <2>7 DEF OrderInv
  <1>3. QED
    BY <1>1, <1>2, StepCases

(* Every block the buffer accepted is heard in the order of acceptance, once,
   and with none left out. *)
THEOREM OutputInOrder == Spec => []PlayedInOrder
  <1>1. Init => TypeOK /\ Phases /\ OrderInv
    BY InitTyped, NumberedInit DEF OrderInv
  <1>2. TypeOK /\ Phases /\ OrderInv /\ [Next]_vars => (TypeOK /\ Phases /\ OrderInv)'
    BY NextTyped, OrderKept
  <1>3. OrderInv => PlayedInOrder
    BY DEF OrderInv
  <1>4. QED
    BY <1>1, <1>2, <1>3, PTL DEF Spec

-------------------------------------------------------------------------------
(* Delay.  A block enters no deeper than Capacity, and each output brings it one
   block closer. *)
DelayInv == Due /\ DelayBound

LEMMA DelayInit == Init => DelayInv
  BY NullFields DEF Init, DelayInv, Due, DelayBound

LEMMA AtNat ==
    ASSUME TypeOK
    PROVE  /\ \A k \in 1 .. Len(jitterBuffer_) : jitterBuffer_[k].at \in Nat
           /\ data # Null => data.at \in Nat
           /\ m1_.at \in Nat
           /\ Len(jitterBuffer_) \in Nat /\ Len(played) \in Nat
           /\ DOMAIN played = 1 .. Len(played)
  <1>1. \A k \in 1 .. Len(jitterBuffer_) : jitterBuffer_[k] \in Block
    BY ElementOfSeq DEF TypeOK
  <1>2. \A x \in Block \cup AnyBlock : x.at \in Nat
    BY DEF Block, AnyBlock
  <1>3. QED
    BY <1>1, <1>2, LenProperties DEF TypeOK

LEMMA DelayKept == TypeOK /\ Phases /\ DelayInv /\ [Next]_vars => DelayInv'
  <1> SUFFICES ASSUME TypeOK, Phases, DelayInv, [Next]_vars
               PROVE  DelayInv'
    OBVIOUS
  <1>0. TypeOK' /\ Capacity \in Nat
    BY NextTyped, CapacityAssumption
  <1>9. /\ \A k \in 1 .. Len(jitterBuffer_) : jitterBuffer_[k].at \in Nat
        /\ data # Null => data.at \in Nat
        /\ m1_.at \in Nat
        /\ Len(jitterBuffer_) \in Nat /\ Len(played) \in Nat
        /\ DOMAIN played = 1 .. Len(played)
    BY AtNat
  <1>1. CASE Push
    <2>1. /\ UNCHANGED <<audio, data, m1_, played>> /\ Fetching' = Fetching
          /\ Fetching \in {0, 1}
      BY <1>1, PushEffect DEF Fetching
    <2>2. ASSUME NEW k \in 1 .. Len(jitterBuffer_')
          PROVE  Len(played) + k + Fetching <= jitterBuffer_'[k].at + Capacity + 1
      <3>1. CASE k \in 1 .. Len(jitterBuffer_)
        <4>1. jitterBuffer_'[k] = jitterBuffer_[k]
          BY <1>1, <3>1, PushEffect
        <4>2. QED
          BY <3>1, <4>1 DEF DelayInv, Due
      <3>2. CASE k \notin 1 .. Len(jitterBuffer_)
        <4>1. /\ k = Len(jitterBuffer_) + 1 /\ Len(jitterBuffer_) < Capacity
              /\ jitterBuffer_'[k].at = Len(played)
          <5>1. ~UNCHANGED <<jitterBuffer_, accepted>>
            BY <2>2, <3>2
          <5>2. /\ Len(jitterBuffer_') = Len(jitterBuffer_) + 1
                /\ Len(jitterBuffer_) < Capacity
                /\ jitterBuffer_'[Len(jitterBuffer_) + 1].at = Len(played)
            BY <1>1, <5>1, PushEffect
          <5>3. k = Len(jitterBuffer_) + 1
            BY <1>9, <2>2, <3>2, <5>2
          <5>4. QED
            BY <5>2, <5>3
        <4>2. QED
          BY <1>0, <1>9, <2>1, <4>1
      <3>3. QED
        BY <3>1, <3>2
    <2>3. QED
      BY <2>1, <2>2 DEF DelayInv, Due, DelayBound
  <1>2. CASE Pop
    <2>1. /\ UNCHANGED <<m1_, played>> /\ Fetching = 0 /\ Fetching' = 1
          /\ DelayBound'
      BY <1>2, PopEffect DEF Fetching, DelayInv, DelayBound
    <2>2. CASE data' = Null /\ UNCHANGED jitterBuffer_
      <3>1. jitterBuffer_' = <<>>
        BY <1>2, <2>2, NullFields, HeadTailProperties DEF Pop, TypeOK
      <3>2. QED
        BY <2>1, <2>2, <3>1 DEF DelayInv, Due
    <2>3. CASE ~(data' = Null /\ UNCHANGED jitterBuffer_)
      <3>1. /\ Len(jitterBuffer_) > 0
            /\ data' = jitterBuffer_[1]
            /\ Len(jitterBuffer_') = Len(jitterBuffer_) - 1
            /\ \A k \in 1 .. Len(jitterBuffer_') : jitterBuffer_'[k] = jitterBuffer_[k + 1]
        BY <1>2, <2>3, PopEffect
      <3>2. \A k \in 1 .. Len(jitterBuffer_) :
               Len(played) + k <= jitterBuffer_[k].at + Capacity + 1
        BY <1>9, <2>1 DEF DelayInv, Due
      <3>3. \A k \in 1 .. Len(jitterBuffer_') :
               Len(played) + k + 1 <= jitterBuffer_'[k].at + Capacity + 1
        <4>1. TAKE k \in 1 .. Len(jitterBuffer_')
        <4>2. k + 1 \in 1 .. Len(jitterBuffer_) /\ k \in Nat
          BY <1>9, <3>1
        <4>3. Len(played) + (k + 1) <= jitterBuffer_[k + 1].at + Capacity + 1
          BY <3>2, <4>2
        <4>4. QED
          BY <1>9, <3>1, <4>2, <4>3
      <3>4. Len(played) <= data'.at + Capacity
        <4>1. 1 \in 1 .. Len(jitterBuffer_)
          BY <1>9, <3>1
        <4>2. Len(played) + 1 <= data'.at + Capacity + 1 /\ data'.at \in Nat
          BY <1>9, <3>1, <3>2, <4>1
        <4>3. QED
          BY <1>0, <1>9, <4>2
      <3>5. QED
        BY <2>1, <3>3, <3>4 DEF DelayInv, Due
    <2>4. QED
      BY <2>2, <2>3
  <1>3. CASE Conceal
    <2>1. UNCHANGED <<data, played, jitterBuffer_>> /\ Fetching' = Fetching
      BY <1>3 DEF Conceal, FadedOut, receiverVars, Fetching
    <2>2. m1_'.at = m1_.at /\ (Real(m1_') <=> Real(m1_))
      BY <1>3 DEF Conceal, FadedOut, TypeOK, AnyBlock, Real
    <2>3. QED
      BY <2>1, <2>2 DEF DelayInv, Due, DelayBound
  <1>4. ASSUME NEW b, Kept(b), Shift(b), audio # "idle" PROVE DelayInv'
    <2>1. /\ jitterBuffer_' = jitterBuffer_ /\ m1_' = b /\ data' = Null
          /\ Len(played') = Len(played) + 1
          /\ \A j \in 1 .. Len(played) : played'[j] = played[j]
          /\ played'[Len(played) + 1] = IF m1_ = Null THEN Silence ELSE m1_
      BY <1>4, ShiftEffect
    <2>2. Fetching = 1 /\ Fetching' = 0
      BY <1>4, ShiftEffect DEF Fetching
    <2>3. \A k \in 1 .. Len(jitterBuffer_) :
             Len(played) + 1 + k + 0 <= jitterBuffer_[k].at + Capacity + 1
      <3>1. \A k \in 1 .. Len(jitterBuffer_) :
               Len(played) + k + 1 <= jitterBuffer_[k].at + Capacity + 1
        BY <2>2 DEF DelayInv, Due
      <3>2. QED
        BY <1>9, <3>1
    <2>4. Real(b) => Len(played) + 1 <= b.at + Capacity + 1
      <3>1. Real(b) => data # Null /\ b = data
        BY <1>4, NullFields DEF Kept
      <3>2. QED
        BY <1>0, <1>9, <3>1 DEF DelayInv, Due
    <2>5. Real(played'[Len(played) + 1]) =>
             Len(played) + 1 <= played'[Len(played) + 1].at + Capacity + 2
      <3>1. Real(played'[Len(played) + 1]) =>
               Real(m1_) /\ played'[Len(played) + 1] = m1_
        BY <2>1, NullFields
      <3>2. QED
        BY <1>0, <1>9, <3>1 DEF DelayInv, Due
    <2>6. DOMAIN played' = 1 .. Len(played) + 1
      BY <1>0, <2>1 DEF TypeOK
    <2>7. DelayBound'
      <3>1. \A j \in 1 .. Len(played) :
               Real(played'[j]) => j <= played'[j].at + Capacity + 2
        BY <1>9, <2>1 DEF DelayInv, DelayBound
      <3>2. \A j \in 1 .. Len(played) + 1 : j \in 1 .. Len(played) \/ j = Len(played) + 1
        BY <1>9
      <3>3. QED
        BY <2>5, <2>6, <3>1, <3>2 DEF DelayBound
    <2>8. Due'
      BY <2>1, <2>2, <2>3, <2>4 DEF Due
    <2>9. QED
      BY <2>7, <2>8 DEF DelayInv
  <1>5. CASE UNCHANGED <<audio, data, m1_, m2_, played, jitterBuffer_, accepted>>
    BY <1>5 DEF DelayInv, Due, DelayBound, Fetching
  <1>6. QED
    BY <1>1, <1>2, <1>3, <1>4, <1>5, StepCases

(* No block is heard more than Capacity + 2 outputs after it was accepted. *)
THEOREM DelayIsBounded == Spec => []DelayBound
  <1>1. Init => TypeOK /\ Phases /\ DelayInv
    BY InitTyped, DelayInit
  <1>2. TypeOK /\ Phases /\ DelayInv /\ [Next]_vars => (TypeOK /\ Phases /\ DelayInv)'
    BY NextTyped, DelayKept
  <1>3. DelayInv => DelayBound
    BY DEF DelayInv
  <1>4. QED
    BY <1>1, <1>2, <1>3, PTL DEF Spec

-------------------------------------------------------------------------------
(* Fading.  m1_ is faded exactly between Conceal and the output that follows. *)
LEMMA FadesInit == Init => Fades
  <1> SUFFICES ASSUME Init PROVE Fades
    OBVIOUS
  <1>1. Len(jitterBuffer_) = 0 /\ Len(played) = 0
    BY DEF Init
  <1>2. data = Null /\ m1_ = Null /\ audio = "idle"
    BY DEF Init
  <1>3. QED
    BY <1>1, <1>2, NullFields DEF Fades, FadedBeforeGap

LEMMA FadesKept == TypeOK /\ Phases /\ Fades /\ [Next]_vars => Fades'
  <1> SUFFICES ASSUME TypeOK, Phases, Fades, [Next]_vars
               PROVE  Fades'
    OBVIOUS
  <1>0. Len(jitterBuffer_) \in Nat /\ Len(played) \in Nat
    BY LenProperties DEF TypeOK
  <1>1. CASE Push
    <2>1. UNCHANGED <<audio, data, m1_, played>>
      BY <1>1, PushEffect
    <2>2. ASSUME NEW k \in 1 .. Len(jitterBuffer_')
          PROVE  jitterBuffer_'[k].faded = FALSE
      <3>1. CASE UNCHANGED jitterBuffer_
        BY <3>1 DEF Fades
      <3>2. CASE ~UNCHANGED jitterBuffer_
        <4>1. /\ Len(jitterBuffer_') = Len(jitterBuffer_) + 1
              /\ \A i \in 1 .. Len(jitterBuffer_) : jitterBuffer_'[i] = jitterBuffer_[i]
              /\ jitterBuffer_'[Len(jitterBuffer_) + 1].faded = FALSE
          BY <1>1, <3>2, PushEffect
        <4>2. k \in 1 .. Len(jitterBuffer_) \/ k = Len(jitterBuffer_) + 1
          BY <1>0, <2>2, <4>1
        <4>3. QED
          BY <4>1, <4>2 DEF Fades
      <3>3. QED
        BY <3>1, <3>2
    <2>3. QED
      BY <2>1, <2>2 DEF Fades, FadedBeforeGap
  <1>2. CASE Pop
    <2>1. UNCHANGED <<m1_, played>> /\ audio # "made" /\ audio' # "made"
      BY <1>2, PopEffect
    <2>2. CASE data' = Null /\ UNCHANGED jitterBuffer_
      BY <2>1, <2>2, NullFields DEF Fades, FadedBeforeGap
    <2>3. CASE ~(data' = Null /\ UNCHANGED jitterBuffer_)
      <3>1. /\ Len(jitterBuffer_) > 0
            /\ data' = jitterBuffer_[1]
            /\ Len(jitterBuffer_') = Len(jitterBuffer_) - 1
            /\ \A k \in 1 .. Len(jitterBuffer_') : jitterBuffer_'[k] = jitterBuffer_[k + 1]
        BY <1>2, <2>3, PopEffect
      <3>2. data'.faded = FALSE
        BY <1>0, <3>1 DEF Fades
      <3>3. \A k \in 1 .. Len(jitterBuffer_') : jitterBuffer_'[k].faded = FALSE
        BY <1>0, <3>1 DEF Fades
      <3>4. QED
        BY <2>1, <3>2, <3>3 DEF Fades, FadedBeforeGap
    <2>4. QED
      BY <2>2, <2>3
  <1>3. CASE Conceal
    <2>1. /\ UNCHANGED <<data, played, jitterBuffer_>> /\ audio' = "made"
          /\ m1_'.kind = m1_.kind /\ m1_'.faded = TRUE
      BY <1>3 DEF Conceal, FadedOut, receiverVars, TypeOK, AnyBlock
    <2>2. QED
      BY <2>1 DEF Fades, FadedBeforeGap
  <1>4. ASSUME NEW b, Kept(b), Shift(b), b.kind = "concealed" <=> audio = "made"
        PROVE  Fades'
    <2>1. /\ jitterBuffer_' = jitterBuffer_ /\ m1_' = b /\ data' = Null
          /\ audio' = "idle"
          /\ Len(played') = Len(played) + 1
          /\ \A j \in 1 .. Len(played) : played'[j] = played[j]
          /\ played'[Len(played) + 1] = IF m1_ = Null THEN Silence ELSE m1_
      BY <1>4, ShiftEffect
    <2>2. b.faded = FALSE
      BY <1>4, NullFields DEF Kept, Fades
    <2>3. LET out == played'[Len(played) + 1]
          IN  /\ out.faded <=> b.kind = "concealed"
              /\ out.kind = "concealed" <=> m1_.kind = "concealed"
      <3>1. CASE m1_ = Null
        BY <1>4, <2>1, <3>1, NullFields DEF Fades
      <3>2. CASE m1_ # Null
        BY <1>4, <2>1, <3>2 DEF Fades
      <3>3. QED
        BY <3>1, <3>2
    <2>4. ASSUME NEW j \in 1 .. Len(played') - 1
          PROVE  played'[j].faded <=> played'[j + 1].kind = "concealed"
      <3>1. j \in 1 .. Len(played)
        BY <1>0, <2>1
      <3>2. CASE j = Len(played)
        BY <1>0, <2>1, <2>3, <3>1, <3>2 DEF Fades
      <3>3. CASE j # Len(played)
        <4>1. j \in 1 .. Len(played) - 1 /\ j + 1 \in 1 .. Len(played)
          BY <1>0, <3>1, <3>3
        <4>2. QED
          BY <2>1, <3>1, <4>1 DEF Fades, FadedBeforeGap
      <3>4. QED
        BY <3>2, <3>3
    <2>5. FadedBeforeGap'
      BY <2>4 DEF FadedBeforeGap
    <2>6. Len(played') > 0 => (played'[Len(played')].faded <=> m1_'.kind = "concealed")
      BY <2>1, <2>3
    <2>7. QED
      BY <2>1, <2>2, <2>5, <2>6, NullFields DEF Fades
  <1>5. CASE UNCHANGED <<audio, data, m1_, m2_, played, jitterBuffer_, accepted>>
    BY <1>5 DEF Fades, FadedBeforeGap
  <1>6. QED
    BY <1>1, <1>2, <1>3, <1>4, <1>5, StepCases

(* The block heard before a concealed gap is faded out, and no other is. *)
THEOREM GapsAreFaded == Spec => []FadedBeforeGap
  <1>1. Init => TypeOK /\ Phases /\ Fades
    BY InitTyped, FadesInit
  <1>2. TypeOK /\ Phases /\ Fades /\ [Next]_vars => (TypeOK /\ Phases /\ Fades)'
    BY NextTyped, FadesKept
  <1>3. Fades => FadedBeforeGap
    BY DEF Fades
  <1>4. QED
    BY <1>1, <1>2, <1>3, PTL DEF Spec

-------------------------------------------------------------------------------
(* The comfort noise flag, as long as the threads have not raced. *)
FlagInv ==
    /\ CnFlagTracksLastBlock
    /\ ~raced => /\ receiver # "made" \/ audio # "made"
                 /\ receiver = "made" => lastMade = packet.kind
                 /\ audio = "made" => lastMade = "noise"

LEMMA FlagKept == TypeOK /\ FlagInv /\ [Next]_vars => FlagInv'
  <1> SUFFICES ASSUME TypeOK, FlagInv, [Next]_vars PROVE FlagInv'
    OBVIOUS
  <1> USE DEF FlagInv, CnFlagTracksLastBlock
  <1>1. ASSUME NEW p \in MediaPacket, Decode(p) PROVE FlagInv'
    BY <1>1 DEF Decode, audioVars
  <1>2. CASE NoteKind
    BY <1>2 DEF NoteKind, audioVars
  <1>3. CASE Push
    BY <1>3 DEF Push, audioVars
  <1>4. CASE Pop
    BY <1>4 DEF Pop, receiverVars
  <1>5. CASE Conceal
    BY <1>5 DEF Conceal, FadedOut, receiverVars
  <1>6. CASE OutputReal \/ OutputSilent
    BY <1>6 DEF OutputReal, OutputSilent, Shift, receiverVars
  <1>7. CASE OutputConcealed
    BY <1>7 DEF OutputConcealed, Shift, receiverVars
  <1>8. CASE UNCHANGED vars
    BY <1>8 DEF vars, receiverVars, audioVars
  <1>9. QED
    BY <1>1, <1>2, <1>3, <1>4, <1>5, <1>6, <1>7, <1>8 DEF Next

(* lastIsCnPacket_ says what was decoded or generated last, whenever neither
   thread is between the two and they have never been there together. *)
THEOREM FlagIsRight == Spec => []CnFlagTracksLastBlock
  <1>1. Init => TypeOK /\ Phases /\ FlagInv
    BY InitTyped DEF Init, FlagInv, CnFlagTracksLastBlock
  <1>2. TypeOK /\ Phases /\ FlagInv /\ [Next]_vars => (TypeOK /\ Phases /\ FlagInv)'
    BY NextTyped, FlagKept
  <1>3. FlagInv => CnFlagTracksLastBlock
    BY DEF FlagInv
  <1>4. QED
    BY <1>1, <1>2, <1>3, PTL DEF Spec

-------------------------------------------------------------------------------
(* largestReceivedMediaDataTimestamp_ is the newest of the packets verified. *)
Verified == IF receiver = "idle" THEN Len(received) ELSE Len(received) - 1

Newest ==
    /\ receiver # "idle" => /\ Len(received) > 0
                            /\ packet = received[Len(received)]
    /\ \A i \in 1 .. Verified : received[i].ts <= largestReceivedMediaDataTimestamp_
    /\ \/ largestReceivedMediaDataTimestamp_ = 0
       \/ \E i \in 1 .. Verified : received[i].ts = largestReceivedMediaDataTimestamp_

LEMMA ReceivedNat ==
    ASSUME TypeOK
    PROVE  /\ Len(received) \in Nat
           /\ \A i \in 1 .. Len(received) : received[i].ts \in Nat
           /\ largestReceivedMediaDataTimestamp_ \in Nat
  <1>1. \A i \in 1 .. Len(received) : received[i] \in MediaPacket
    BY ElementOfSeq DEF TypeOK
  <1>2. QED
    BY <1>1, LenProperties, FieldAssumption DEF TypeOK, MediaPacket

LEMMA NewestKept == TypeOK /\ Phases /\ Newest /\ [Next]_vars => Newest'
  <1> SUFFICES ASSUME TypeOK, Phases, Newest, [Next]_vars PROVE Newest'
    OBVIOUS
  <1>0. /\ Len(received) \in Nat
        /\ \A i \in 1 .. Len(received) : received[i].ts \in Nat
        /\ largestReceivedMediaDataTimestamp_ \in Nat
    BY ReceivedNat
  <1>1. ASSUME NEW p \in MediaPacket, Decode(p) PROVE Newest'
    <2>1. /\ received' = Append(received, p) /\ packet' = p
          /\ receiver = "idle" /\ receiver' = "made"
          /\ UNCHANGED largestReceivedMediaDataTimestamp_
      BY <1>1 DEF Decode
    <2>2. /\ Len(received') = Len(received) + 1
          /\ \A i \in 1 .. Len(received) : received'[i] = received[i]
          /\ received'[Len(received) + 1] = p
      BY <2>1, AppendProperties DEF TypeOK
    <2>3. Verified = Len(received) /\ Verified' = Len(received)
      BY <1>0, <2>1, <2>2 DEF Verified
    <2>4. QED
      BY <1>0, <2>1, <2>2, <2>3 DEF Newest
  <1>2. CASE Push
    <2>1. /\ receiver # "idle" /\ receiver' = "idle" /\ UNCHANGED received
          /\ largestReceivedMediaDataTimestamp_' =
                IF packet.ts < largestReceivedMediaDataTimestamp_
                THEN largestReceivedMediaDataTimestamp_ ELSE packet.ts
      BY <1>2 DEF Push, Verify, Descending
    <2>2. /\ Len(received) > 0 /\ packet = received[Len(received)]
          /\ Verified = Len(received) - 1 /\ Verified' = Len(received)
      BY <2>1 DEF Newest, Verified
    <2>3. \A i \in 1 .. Len(received) : i \in 1 .. Verified \/ i = Len(received)
      BY <1>0, <2>2
    <2>4. \A i \in 1 .. Verified : i \in 1 .. Len(received)
      BY <1>0, <2>2
    <2>5. \A i \in 1 .. Verified' :
             received'[i].ts <= largestReceivedMediaDataTimestamp_'
      BY <1>0, <2>1, <2>2, <2>3, <2>4 DEF Newest
    <2>6. \/ largestReceivedMediaDataTimestamp_' = 0
          \/ \E i \in 1 .. Verified' :
                received'[i].ts = largestReceivedMediaDataTimestamp_'
      <3>1. CASE packet.ts < largestReceivedMediaDataTimestamp_
        BY <2>1, <2>2, <2>4, <3>1 DEF Newest
      <3>2. CASE ~(packet.ts < largestReceivedMediaDataTimestamp_)
        <4>1. Len(received) \in 1 .. Verified'
          BY <1>0, <2>2
        <4>2. QED
          BY <2>1, <2>2, <3>2, <4>1
      <3>3. QED
        BY <3>1, <3>2
    <2>7. QED
      BY <2>1, <2>5, <2>6 DEF Newest
  <1>3. CASE NoteKind
    BY <1>3 DEF NoteKind, Newest, Verified
  <1>4. CASE Pop \/ Conceal
    BY <1>4 DEF Pop, Conceal, FadedOut, receiverVars, Newest, Verified
  <1>5. CASE OutputReal \/ OutputSilent \/ OutputConcealed \/ UNCHANGED vars
    BY <1>5 DEF OutputReal, OutputSilent, OutputConcealed, Shift, vars, receiverVars,
                Newest, Verified
  <1>6. QED
    BY <1>1, <1>2, <1>3, <1>4, <1>5 DEF Next

(* Exactly the packets older than one received before are reported. *)
THEOREM DescendingIsReported == Spec => DescendingReported
  <1> DEFINE Reported ==
        receiver = "noted" /\ receiver' = "idle" =>
          ("order" \in reports' <=>
             \E i \in 1 .. Len(received) - 1 :
                 received[i].ts > received[Len(received)].ts)
  <1>1. Init => TypeOK /\ Phases /\ Newest
    <2>1. Init => Len(received) = 0
      BY DEF Init
    <2>2. QED
      BY <2>1, InitTyped DEF Init, Newest, Verified
  <1>2. TypeOK /\ Phases /\ Newest /\ [Next]_vars => (TypeOK /\ Phases /\ Newest)'
    BY NextTyped, NewestKept
  <1>3. TypeOK /\ Phases /\ Newest /\ [Next]_vars => [Reported]_vars
    <2> SUFFICES ASSUME TypeOK, Phases, Newest, [Next]_vars,
                        receiver = "noted", receiver' = "idle"
                 PROVE  "order" \in reports' <=>
                          \E i \in 1 .. Len(received) - 1 :
                              received[i].ts > received[Len(received)].ts
      OBVIOUS
    <2>1. Push
      BY DEF Next, Decode, NoteKind, Pop, Conceal, FadedOut, OutputReal, OutputSilent,
             OutputConcealed, Shift, vars, receiverVars
    <2>2. "order" \in reports' <=> packet.ts < largestReceivedMediaDataTimestamp_
      BY <2>1 DEF Push, Verify, Descending
    <2>3. /\ Len(received) \in Nat /\ Len(received) > 0
          /\ \A i \in 1 .. Len(received) : received[i].ts \in Nat
          /\ largestReceivedMediaDataTimestamp_ \in Nat
          /\ packet = received[Len(received)] /\ Verified = Len(received) - 1
      BY ReceivedNat DEF Newest, Verified
    <2>4. packet.ts \in Nat /\ \A i \in 1 .. Verified : received[i].ts \in Nat
      BY <2>3
    <2>5. QED
      BY <2>2, <2>3, <2>4 DEF Newest
  <1>4. QED
    BY <1>1, <1>2, <1>3, PTL DEF Spec, DescendingReported

(* Both orders are kept: that of the blocks played, and the check of the packets'. *)
THEOREM OrderKeptThroughout == Spec => OrderIsKept
  BY OutputInOrder, DescendingIsReported, PTL DEF OrderIsKept

(* Every gap is faded into, and the comfort noise decoder is told right. *)
THEOREM GapsAreSmooth == Spec => []GapIsSmooth
  <1>1. FadedBeforeGap /\ CnFlagTracksLastBlock => GapIsSmooth
    BY DEF GapIsSmooth
  <1>2. QED
    BY <1>1, GapsAreFaded, FlagIsRight, PTL
===============================================================================

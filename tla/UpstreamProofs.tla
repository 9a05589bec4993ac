----------------------------- MODULE UpstreamProofs -----------------------------
(***************************************************************************)
(* Theorems about the choice between voice and comfort noise, for every      *)
(* length of the window and every width of the counter that suffices for it, *)
(* and about the recording and the meter that share its callback.           *)
(***************************************************************************)
EXTENDS AudioCallback, TLAPS

USE TimeAssumption, CounterAssumption

(* The counter cannot wrap: each block counted has taken a tick of the window,
   and a window that is not over has at most Second of them. *)
Counts == /\ vadCounter_ <= Second
          /\ vadCounter_ <= sinceWindow
          /\ audio = "working" => vadCounter_ < sinceWindow

(* Nothing counted in this window: the last voice is as old as the window. *)
Quiet == (vadCounter_ = 0 /\ (audio = "working" => ~haveVoice)) =>
            sinceVoice >= sinceWindow

Late == /\ ~mute_ => lateSends = 0
        /\ mute_ => \/ lateSends = 0
                    \/ lateSends = 1 /\ audio = "idle"

Inv == TypeOK /\ Counts /\ Quiet /\ Late

LEMMA LaterType ==
    ASSUME NEW t \in 0 .. Forever, NEW d \in 1 .. MaxDelay
    PROVE  /\ Later(t, d) \in 0 .. Forever
           /\ Later(t, d) > t \/ Later(t, d) = Forever
           /\ \A u \in 0 .. Forever : u >= t => Later(u, d) >= Later(t, d)
  BY DEF Later, Forever

LEMMA NoWrap ==
    ASSUME Inv, audio = "working"
    PROVE  /\ Counted = (IF haveVoice THEN vadCounter_ + 1 ELSE vadCounter_)
           /\ Counted \in 0 .. CounterRange - 1
           /\ ~WindowEnds => Counted <= Second /\ Counted <= sinceWindow
  BY DEF Inv, TypeOK, Counts, Counted, WindowEnds, Forever

LEMMA InitInv == Init => Inv
  <1> SUFFICES ASSUME Init PROVE Inv
    OBVIOUS
  <1>1. Forever \in Nat /\ Forever > Second
    BY DEF Forever
  <1>2. TypeOK
    <2>1. /\ vadCounter_ \in 0 .. CounterRange - 1 /\ lateSends \in 0 .. 2
          /\ sinceWindow \in 0 .. Forever /\ sinceVoice \in 0 .. Forever
      BY <1>1 DEF Init
    <2>2. /\ audio = "idle" /\ sent = "nothing"
          /\ haveVoice \in BOOLEAN /\ mute_ \in BOOLEAN /\ sendOpus_ \in BOOLEAN
      BY Zenon DEF Init
    <2>3. QED
      BY <2>1, <2>2 DEF TypeOK
  <1>3. Counts /\ Quiet
    BY <1>1 DEF Init, Counts, Quiet
  <1>4. Late
    BY DEF Init, Late
  <1>5. QED
    BY <1>2, <1>3, <1>4 DEF Inv

LEMMA NextInv == Inv /\ [Next]_vars => Inv'
  <1> SUFFICES ASSUME Inv, [Next]_vars PROVE Inv'
    OBVIOUS
  <1>1. ASSUME NEW d \in 1 .. MaxDelay, NEW voice \in BOOLEAN, BeginBlock(d, voice)
        PROVE  Inv'
    <2> DEFINE w == Later(sinceWindow, d)
               v == Later(sinceVoice, d)
    <2>1. /\ w \in 0 .. Forever /\ v \in 0 .. Forever
          /\ w > sinceWindow \/ w = Forever
          /\ sinceVoice >= sinceWindow => v >= w
      BY LaterType DEF Inv, TypeOK
    <2>2. /\ sinceWindow' = w
          /\ UNCHANGED <<mute_, vadCounter_, sendOpus_, lateSends>>
          /\ audio = "idle"
      BY <1>1 DEF BeginBlock
    <2>3. \/ /\ ~mute_ /\ audio' = "working" /\ haveVoice' = voice /\ sent' = sent
             /\ sinceVoice' = IF voice THEN 0 ELSE v
          \/ /\ mute_ /\ audio' = audio /\ haveVoice' = haveVoice /\ sent' = "nothing"
             /\ sinceVoice' = v
      BY <1>1 DEF BeginBlock, Heeds
    <2> HIDE DEF w, v
    <2>4. TypeOK'
      BY <2>1, <2>2, <2>3 DEF Inv, TypeOK, Forever
    <2>5. Counts'
      BY <2>1, <2>2, <2>3 DEF Inv, TypeOK, Counts, Forever
    <2>6. Quiet'
      BY <2>1, <2>2, <2>3 DEF Inv, TypeOK, Quiet
    <2>7. Late'
      BY <2>2, <2>3 DEF Inv, Late
    <2>8. QED
      BY <2>4, <2>5, <2>6, <2>7 DEF Inv
  <1>2. ASSUME NEW cn \in BOOLEAN, EndBlock(cn) PROVE Inv'
    <2>1. /\ audio = "working" /\ audio' = "idle" /\ sendOpus_' = StillVoice
          /\ vadCounter_' = IF WindowEnds THEN 0 ELSE Counted
          /\ sinceWindow' = IF WindowEnds THEN 0 ELSE sinceWindow
          /\ sent' = Packet(cn)
          /\ UNCHANGED <<haveVoice, mute_, sinceVoice>>
      BY <1>2 DEF EndBlock
    <2>2. /\ Counted = (IF haveVoice THEN vadCounter_ + 1 ELSE vadCounter_)
          /\ Counted \in 0 .. CounterRange - 1
          /\ ~WindowEnds => Counted <= Second /\ Counted <= sinceWindow
      BY <2>1, NoWrap
    <2>3. lateSends' = lateSends \/ (mute_ /\ lateSends' = lateSends + 1)
      BY <1>2 DEF EndBlock
    <2>4. TypeOK'
      <3>1. /\ sent' \in {"AudioMessage", "AudioMessage_CN", "nothing"}
            /\ sendOpus_' \in BOOLEAN
        BY <2>1 DEF Packet, StillVoice, Inv, TypeOK
      <3>2. lateSends' \in 0 .. 2
        BY <2>1, <2>3 DEF Inv, TypeOK, Late
      <3>3. vadCounter_' \in 0 .. CounterRange - 1 /\ sinceWindow' \in 0 .. Forever
        BY <2>1, <2>2 DEF Inv, TypeOK, Forever
      <3>4. QED
        BY <2>1, <3>1, <3>2, <3>3 DEF Inv, TypeOK
    <2>5. Counts'
      BY <2>1, <2>2 DEF Counts, Inv, TypeOK
    <2>6. Quiet'
      BY <2>1, <2>2 DEF Quiet, Inv, TypeOK
    <2>7. Late'
      BY <2>1, <2>3 DEF Late, Inv
    <2>8. QED
      BY <2>4, <2>5, <2>6, <2>7 DEF Inv
  <1>3. ASSUME NEW mute \in BOOLEAN, SetMute(mute) PROVE Inv'
    BY <1>3 DEF SetMute, blockVars, Inv, TypeOK, Counts, Quiet, Late
  <1>4. CASE UNCHANGED vars
    BY <1>4 DEF vars, blockVars, Inv, TypeOK, Counts, Quiet, Late
  <1>5. QED
    BY <1>1, <1>2, <1>3, <1>4 DEF Next, AudioThread

(* Type correctness, and a counter that stays within its width. *)
THEOREM TypeCorrect == Spec => []TypeOK
  <1>1. Inv => TypeOK
    BY DEF Inv
  <1>2. QED
    BY <1>1, InitInv, NextInv, PTL DEF Spec

(* After a mute only the block in progress may still be sent. *)
THEOREM MuteIsPrompt == Spec => []OneLateSend
  <1>1. Inv => OneLateSend
    BY DEF Inv, Late, OneLateSend
  <1>2. QED
    BY <1>1, InitInv, NextInv, PTL DEF Spec

LEMMA EndsByEndBlock ==
    ASSUME [Next]_vars, audio = "working", audio' = "idle"
    PROVE  \E cn \in BOOLEAN : EndBlock(cn)
  BY DEF Next, AudioThread, BeginBlock, SetMute, vars

(* A block with voice is never sent as comfort noise: the counter of the window
   does not wrap to 0 before the window ends. *)
THEOREM VoiceSent == Spec => VoiceIsSent
  <1>1. Inv /\ [Next]_vars =>
          [(audio = "working" /\ audio' = "idle" /\ haveVoice) =>
              sent' = "AudioMessage"]_vars
    <2> SUFFICES ASSUME Inv, [Next]_vars, audio = "working", audio' = "idle", haveVoice
                 PROVE  sent' = "AudioMessage"
      OBVIOUS
    <2>1. PICK cn \in BOOLEAN : EndBlock(cn)
      BY EndsByEndBlock
    <2>2. Counted = vadCounter_ + 1 /\ vadCounter_ \in Nat
      BY NoWrap DEF Inv, TypeOK
    <2>3. StillVoice
      BY <2>2 DEF StillVoice
    <2>4. QED
      BY <2>1, <2>3 DEF EndBlock, Packet
  <1>2. QED
    BY <1>1, InitInv, NextInv, PTL DEF Spec, VoiceIsSent

(* Sending is turned off only when voice is more than a second ago. *)
THEOREM HangoverKept == Spec => Hangover
  <1>1. Inv /\ [Next]_vars => [(sendOpus_ /\ ~sendOpus_') => sinceVoice > Second]_vars
    <2> SUFFICES ASSUME Inv, [Next]_vars, sendOpus_, ~sendOpus_'
                 PROVE  sinceVoice > Second
      OBVIOUS
    <2>1. PICK cn \in BOOLEAN : EndBlock(cn)
      BY DEF Next, AudioThread, BeginBlock, SetMute, blockVars, vars
    <2>2. audio = "working" /\ ~StillVoice
      BY <2>1 DEF EndBlock
    <2>3. WindowEnds /\ Counted = 0
      BY <2>2 DEF StillVoice
    <2>4. ~haveVoice /\ vadCounter_ = 0
      BY <2>2, <2>3, NoWrap DEF Inv, TypeOK
    <2>5. sinceVoice >= sinceWindow /\ sinceWindow > Second
      BY <2>3, <2>4 DEF Inv, Quiet, WindowEnds
    <2>6. QED
      BY <2>5 DEF Inv, TypeOK, Forever
  <1>2. QED
    BY <1>1, InitInv, NextInv, PTL DEF Spec, Hangover

(* Voice goes out as voice, from its first block to well after its last. *)
THEOREM VoiceGoesOutWhole == Spec => VoiceGoesOut
  BY VoiceSent, HangoverKept, PTL DEF VoiceGoesOut


-------------------------------------------------------------------------------
(* The callback as a whole: the recording and the meter. *)

USE RecordingAssumption

LEMMA CallbackSteps == [CallbackNext]_callbackVars => [Next]_vars
  <1> SUFFICES ASSUME [CallbackNext]_callbackVars PROVE [Next]_vars
    OBVIOUS
  <1>1. CASE CallbackThread
    BY <1>1 DEF CallbackThread, CallbackBegins, CallbackSends, Next, AudioThread
  <1>2. CASE \E mute \in BOOLEAN : SetMute(mute)
    BY <1>2 DEF Next
  <1>3. CASE UNCHANGED callbackVars
    BY <1>3 DEF callbackVars
  <1>4. QED
    BY <1>1, <1>2, <1>3 DEF CallbackNext

(* The callback is an Upstream: what is proved of Spec above holds of CallbackSpec. *)
THEOREM CallbackIsUpstream == CallbackSpec => Spec
  <1>1. CallbackInit => Init
    BY DEF CallbackInit
  <1>2. QED
    BY <1>1, CallbackSteps, PTL DEF CallbackSpec, Spec

(* The next block of the recording begins where the last one ended, but for the first. *)
StubInv == /\ Stub!StubTypeOK
           /\ pos_ = given + BlockSize \/ (pos_ = 0 /\ given = 0)

LEMMA RecordingSize == Stub!Recordings \subseteq Nat
  <1>1. \A bytes \in Nat : bytes \div 2 \in Nat
    OBVIOUS
  <1>2. \A bytes \in FileSizes : Stub!Loaded(bytes) \in Nat
    BY <1>1 DEF Stub!Loaded
  <1>3. QED
    BY <1>2 DEF Stub!Recordings

LEMMA StubStep ==
    ASSUME StubInv, Stub!Get \/ UNCHANGED stubVars
    PROVE  /\ StubInv'
           /\ size_ >= BlockSize =>
                 /\ given' + BlockSize <= size_
                 /\ given' # given => \/ given' = given + BlockSize
                                      \/ given' = 0 /\ size_ <= given + 2 * BlockSize
              \/ UNCHANGED stubVars
  <1>1. size_ \in Nat /\ pos_ \in 0 .. size_ + BlockSize /\ given \in 0 .. size_
    BY RecordingSize DEF StubInv, Stub!StubTypeOK
  <1>2. CASE UNCHANGED stubVars
    BY <1>2 DEF StubInv, Stub!StubTypeOK, stubVars
  <1>3. CASE size_ > 0 /\ Stub!Get
    <2>1. /\ given' = IF Stub!AtEnd THEN 0 ELSE pos_
          /\ pos_' = given' + BlockSize /\ size_' = size_
      BY <1>1, <1>3 DEF Stub!Get, Stub!stubVars
    <2>2. CASE Stub!AtEnd
      <3>1. given' = 0 /\ pos_' = BlockSize /\ pos_ + BlockSize >= size_
        BY <2>1, <2>2 DEF Stub!AtEnd
      <3>2. StubInv'
        BY <1>1, <2>1, <3>1 DEF StubInv, Stub!StubTypeOK
      <3>3. QED
        BY <1>1, <3>1, <3>2 DEF StubInv
    <2>3. CASE ~Stub!AtEnd
      <3>1. given' = pos_ /\ pos_' = pos_ + BlockSize /\ pos_ + BlockSize < size_
        BY <1>1, <2>1, <2>3 DEF Stub!AtEnd
      <3>2. StubInv'
        BY <1>1, <2>1, <3>1 DEF StubInv, Stub!StubTypeOK
      <3>3. QED
        BY <1>1, <3>1, <3>2 DEF StubInv
    <2>4. QED
      BY <2>2, <2>3
  <1>4. QED
    BY <1>1, <1>2, <1>3 DEF Stub!Get, Stub!stubVars, stubVars

(* The maximum shown is that held, and it was a level not longer ago than the meter has
   held it. *)
MeterInv == /\ Meter!MeterTypeOK
            /\ shown.recentMaxLevel = recentMaxLevel /\ shown.level_ <= recentMaxLevel
            /\ recentMaxLevel > 0 => ago[recentMaxLevel] <= elapsed
            /\ MeterIsHonest

LEMMA LevelType == \A peak \in Peak : Meter!LevelOf(peak) \in Meter!Levels
  <1>1. Meter!FullScale \in Nat \ {0}
    BY DEF Meter!FullScale
  <1> HIDE DEF Meter!FullScale
  <1>2. \A a \in Nat, b \in Nat \ {0} : a \div b \in Nat
    OBVIOUS
  <1>3. ASSUME NEW peak \in Peak
        PROVE  (peak * Meter!MaxVolumeLevel) \div Meter!FullScale \in Nat
    <2>1. peak \in Nat
      BY <1>1, <1>3, PeakAssumption
    <2>2. peak * Meter!MaxVolumeLevel \in Nat
      BY <2>1 DEF Meter!MaxVolumeLevel
    <2>3. QED
      BY <1>1, <1>2, <2>2
  <1>4. QED
    BY <1>3 DEF Meter!LevelOf, Meter!Levels, Meter!MaxVolumeLevel

LEMMA AgeGrows ==
    ASSUME NEW t \in 0 .. Forever, NEW d \in 1 .. MaxDelay
    PROVE  /\ Meter!Age(t, d) \in 0 .. Forever /\ Meter!Age(t, d) > 0
           /\ \A u \in 0 .. Forever : u <= t => Meter!Age(u, d) <= Meter!Age(t, d)
           /\ Meter!Age(t, d) <= Second => t <= Second
  BY DEF Meter!Age, Forever

LEMMA MeterInitially == Meter!MeterInit => MeterInv
  <1> SUFFICES ASSUME Meter!MeterInit PROVE MeterInv
    OBVIOUS
  <1>1. 0 \in Meter!Levels /\ Forever \in Nat /\ Forever > 0
    BY DEF Meter!Levels, Meter!MaxVolumeLevel, Forever
  <1>2. Meter!MeterTypeOK
    BY <1>1 DEF Meter!MeterInit, Meter!MeterTypeOK
  <1>3. ago[0] = Forever /\ shown.level_ = 0 /\ recentMaxLevel = 0
        /\ shown.recentMaxLevel = 0
    BY <1>1 DEF Meter!MeterInit
  <1>4. QED
    BY <1>1, <1>2, <1>3 DEF MeterInv, MeterIsHonest, Meter!MeterIsHonest

LEMMA CalculateStep ==
    ASSUME MeterInv, NEW d \in 1 .. MaxDelay, NEW peak \in Peak, Meter!Calculate(d, peak)
    PROVE  MeterInv'
  <1> DEFINE level == Meter!LevelOf(peak)
             kept == IF Meter!Held(d) THEN recentMaxLevel ELSE 0
  <1>1. /\ recentMaxLevel' = IF level > kept THEN level ELSE kept
        /\ elapsed' = IF level > kept \/ ~Meter!Held(d) THEN 0 ELSE Meter!Age(elapsed, d)
        /\ shown' = [level_ |-> level, recentMaxLevel |-> recentMaxLevel']
        /\ ago' = [l \in Meter!Levels |-> IF l = level THEN 0 ELSE Meter!Age(ago[l], d)]
    BY DEF Meter!Calculate
  <1>2. level \in Meter!Levels
    BY LevelType
  <1>3. /\ recentMaxLevel \in Meter!Levels /\ elapsed \in 0 .. Forever
        /\ ago \in [Meter!Levels -> 0 .. Forever]
        /\ recentMaxLevel > 0 => ago[recentMaxLevel] <= elapsed
    BY DEF MeterInv, Meter!MeterTypeOK
  <1>4. Meter!Held(d) <=> Meter!Age(elapsed, d) <= Second
    BY DEF Meter!Held
  <1>5. Meter!Levels \subseteq Nat /\ 0 \in Meter!Levels /\ Forever \in Nat
    BY DEF Meter!Levels, Meter!MaxVolumeLevel, Forever
  <1>6. \A t \in 0 .. Forever :
           /\ Meter!Age(t, d) \in 0 .. Forever
           /\ \A u \in 0 .. Forever : u <= t => Meter!Age(u, d) <= Meter!Age(t, d)
    BY AgeGrows
  <1> HIDE DEF level
  <1>7. kept \in Meter!Levels
    BY <1>3, <1>5
  <1>8. recentMaxLevel' \in Meter!Levels /\ recentMaxLevel' >= level
    BY <1>1, <1>2, <1>5, <1>7
  <1>9. elapsed' \in 0 .. Forever
    BY <1>1, <1>3, <1>5, <1>6
  <1>10. ago' \in [Meter!Levels -> 0 .. Forever]
    BY <1>1, <1>3, <1>5, <1>6
  <1>11. Meter!MeterTypeOK'
    BY <1>1, <1>2, <1>8, <1>9, <1>10 DEF Meter!MeterTypeOK
  <1>12. recentMaxLevel' > 0 => /\ ago'[recentMaxLevel'] <= elapsed'
                                /\ ago'[recentMaxLevel'] <= Second
    <2>1. CASE level > kept
      <3>1. recentMaxLevel' = level /\ elapsed' = 0 /\ ago'[level] = 0
        BY <1>1, <1>2, <2>1
      <3>2. QED
        BY <3>1
    <2>2. CASE ~(level > kept) /\ Meter!Held(d)
      <3>1. recentMaxLevel' = recentMaxLevel /\ elapsed' = Meter!Age(elapsed, d)
        BY <1>1, <2>2
      <3>2. CASE recentMaxLevel = level
        <4>1. ago'[recentMaxLevel'] = 0
          BY <1>1, <1>2, <3>1, <3>2
        <4>2. QED
          BY <1>9, <4>1
      <3>3. CASE recentMaxLevel # level /\ recentMaxLevel > 0
        <4>1. ago'[recentMaxLevel'] = Meter!Age(ago[recentMaxLevel], d)
          BY <1>1, <1>3, <3>1, <3>3
        <4>2. ago[recentMaxLevel] \in 0 .. Forever /\ ago[recentMaxLevel] <= elapsed
          BY <1>3, <3>3
        <4>3. Meter!Age(ago[recentMaxLevel], d) <= Meter!Age(elapsed, d)
          BY <1>3, <1>6, <4>2
        <4>4. /\ Meter!Age(ago[recentMaxLevel], d) \in 0 .. Forever
              /\ Meter!Age(elapsed, d) \in 0 .. Forever
          BY <1>3, <1>6, <4>2
        <4>5. Meter!Age(elapsed, d) <= Second
          BY <1>4, <2>2
        <4>6. QED
          BY <3>1, <4>1, <4>3, <4>4, <4>5
      <3>4. QED
        BY <3>1, <3>2, <3>3
    <2>3. CASE ~(level > kept) /\ ~Meter!Held(d)
      BY <1>1, <1>2, <1>5, <2>3
    <2>4. QED
      BY <2>1, <2>2, <2>3
  <1>13. /\ shown'.recentMaxLevel = recentMaxLevel' /\ shown'.level_ = level
    BY <1>1
  <1>14. MeterIsHonest'
    BY <1>8, <1>12, <1>13 DEF MeterIsHonest, Meter!MeterIsHonest
  <1>15. QED
    BY <1>2, <1>5, <1>8, <1>11, <1>12, <1>13, <1>14 DEF MeterInv

LEMMA SkipStep ==
    ASSUME MeterInv, NEW d \in 1 .. MaxDelay, Meter!Skip(d)
    PROVE  MeterInv'
  <1>1. /\ elapsed' = Meter!Age(elapsed, d)
        /\ ago' = [l \in Meter!Levels |-> Meter!Age(ago[l], d)]
        /\ UNCHANGED <<recentMaxLevel, shown>>
    BY DEF Meter!Skip
  <1>2. /\ recentMaxLevel \in Meter!Levels /\ elapsed \in 0 .. Forever
        /\ shown \in [level_ : Meter!Levels, recentMaxLevel : Meter!Levels]
        /\ ago \in [Meter!Levels -> 0 .. Forever]
        /\ recentMaxLevel > 0 => ago[recentMaxLevel] <= elapsed
    BY DEF MeterInv, Meter!MeterTypeOK
  <1>3. \A t \in 0 .. Forever :
           /\ Meter!Age(t, d) \in 0 .. Forever /\ Meter!Age(t, d) > 0
           /\ \A u \in 0 .. Forever : u <= t => Meter!Age(u, d) <= Meter!Age(t, d)
    BY AgeGrows
  <1>4. ago' \in [Meter!Levels -> 0 .. Forever] /\ elapsed' \in 0 .. Forever
    BY <1>1, <1>2, <1>3
  <1>5. Meter!MeterTypeOK'
    BY <1>1, <1>2, <1>4 DEF Meter!MeterTypeOK
  <1>6. recentMaxLevel > 0 => ago'[recentMaxLevel] <= elapsed'
    BY <1>1, <1>2, <1>3
  <1>7. ago'[shown.level_] > 0
    BY <1>1, <1>2, <1>3
  <1>8. MeterIsHonest'
    BY <1>1, <1>7 DEF MeterIsHonest, Meter!MeterIsHonest
  <1>9. QED
    BY <1>1, <1>5, <1>6, <1>8 DEF MeterInv

CallbackInv == StubInv /\ MeterInv

LEMMA CallbackInitially == CallbackInit => CallbackInv
  <1> SUFFICES ASSUME CallbackInit PROVE CallbackInv
    OBVIOUS
  <1>1. Stub!StubInit /\ Meter!MeterInit
    BY DEF CallbackInit
  <1>2. size_ \in Nat
    BY <1>1, RecordingSize DEF Stub!StubInit
  <1>3. StubInv
    BY <1>1, <1>2 DEF StubInv, Stub!StubInit, Stub!StubTypeOK
  <1>4. QED
    BY <1>1, <1>3, MeterInitially DEF CallbackInv

LEMMA CallbackGoesOn ==
    ASSUME [CallbackNext]_callbackVars
    PROVE  /\ Stub!Get \/ UNCHANGED stubVars
           /\ \/ \E d \in 1 .. MaxDelay, peak \in Peak : Meter!Calculate(d, peak)
              \/ \E d \in 1 .. MaxDelay : Meter!Skip(d)
              \/ UNCHANGED meterVars
  <1>1. ASSUME NEW d \in 1 .. MaxDelay, NEW voice \in BOOLEAN, NEW peak \in Peak,
               CallbackBegins(d, voice, peak)
        PROVE  /\ Stub!Get
               /\ Meter!Calculate(d, peak) \/ Meter!Skip(d)
    BY <1>1 DEF CallbackBegins
  <1>2. ASSUME NEW cn \in BOOLEAN, CallbackSends(cn) PROVE UNCHANGED <<stubVars, meterVars>>
    BY <1>2 DEF CallbackSends
  <1>3. UNCHANGED callbackVars => UNCHANGED <<stubVars, meterVars>>
    BY DEF callbackVars
  <1>4. QED
    BY <1>1, <1>2, <1>3 DEF CallbackNext, CallbackThread

LEMMA CallbackStep == CallbackInv /\ [CallbackNext]_callbackVars => CallbackInv'
  <1> SUFFICES ASSUME CallbackInv, [CallbackNext]_callbackVars PROVE CallbackInv'
    OBVIOUS
  <1>1. StubInv'
    BY CallbackGoesOn, StubStep DEF CallbackInv
  <1>2. MeterInv'
    <2>1. CASE UNCHANGED meterVars
      BY <2>1 DEF CallbackInv, MeterInv, Meter!MeterTypeOK, MeterIsHonest,
                  Meter!MeterIsHonest, meterVars
    <2>2. CASE \E d \in 1 .. MaxDelay, peak \in Peak : Meter!Calculate(d, peak)
      BY <2>2, CalculateStep DEF CallbackInv
    <2>3. CASE \E d \in 1 .. MaxDelay : Meter!Skip(d)
      BY <2>3, SkipStep DEF CallbackInv
    <2>4. QED
      BY <2>1, <2>2, <2>3, CallbackGoesOn
  <1>3. QED
    BY <1>1, <1>2 DEF CallbackInv

THEOREM CallbackInvariant == CallbackSpec => []CallbackInv
  BY CallbackInitially, CallbackStep, PTL DEF CallbackSpec

(* The callback and the objects it uses keep their types, the array of levels its
   bounds. *)
THEOREM CallbackTypeCorrect == CallbackSpec => []CallbackTypeOK
  <1>1. TypeOK /\ CallbackInv => CallbackTypeOK
    BY DEF CallbackInv, StubInv, MeterInv, CallbackTypeOK
  <1>2. QED
    BY <1>1, CallbackInvariant, CallbackIsUpstream, TypeCorrect, PTL

(* The maximum that the meter shows is never below the level, nor older than a second. *)
THEOREM MeterIsRight == CallbackSpec => []MeterIsHonest
  <1>1. CallbackInv => MeterIsHonest
    BY DEF CallbackInv, MeterInv
  <1>2. QED
    BY <1>1, CallbackInvariant, PTL

(* The recording is given in order and round and round, each block within it. *)
THEOREM RecordingGoesRound == CallbackSpec => StubGoesRound
  <1> DEFINE GoesRound == size_ >= BlockSize =>
                 /\ given' + BlockSize <= size_
                 /\ given' # given => \/ given' = given + BlockSize
                                      \/ given' = 0 /\ size_ <= given + 2 * BlockSize
  <1>1. CallbackInv /\ [CallbackNext]_callbackVars => [GoesRound]_stubVars
    BY CallbackGoesOn, StubStep DEF CallbackInv
  <1>2. CallbackSpec => [][GoesRound]_stubVars
    BY <1>1, CallbackInvariant, PTL DEF CallbackSpec
  <1>3. QED
    BY <1>2 DEF StubGoesRound, Stub!StubGoesRound, Stub!stubVars, stubVars

(* What is proved of Upstream alone holds in the whole callback: a click on mute stops the
   packets but for one, and voice goes out as voice. *)
THEOREM CallbackPromises == CallbackSpec => []OneLateSend /\ VoiceGoesOut
  BY CallbackIsUpstream, MuteIsPrompt, VoiceGoesOutWhole, PTL

===============================================================================

---------------------------- MODULE AudioCallback ----------------------------
(***************************************************************************)
(* The first half of the callback that Worker::init gives to the audio      *)
(* endpoint: the block comes from the microphone or from an AudioInStub,    *)
(* goes through nsAecVolumeVadSend (Upstream), and is measured there by     *)
(* volumeMeterIn_ unless the microphone is muted.                           *)
(***************************************************************************)
EXTENDS Upstream

CONSTANTS
    BlockSize, FileSizes, SineLength,      \* see AudioInStub
    Peak                                   \* see AudioVolumeMeter_Peak

VARIABLES size_, pos_, given,                      \* audioInStub_
          recentMaxLevel, elapsed, shown, ago      \* volumeMeterIn_

Stub == INSTANCE AudioInStub
Meter == INSTANCE AudioVolumeMeter_Peak

ASSUME RecordingAssumption == /\ BlockSize \in Nat \ {0} /\ SineLength \in Nat
                              /\ FileSizes \subseteq Nat
ASSUME PeakAssumption == Peak \subseteq 0 .. Meter!FullScale

stubVars == <<size_, pos_, given>>
meterVars == <<recentMaxLevel, elapsed, shown, ago>>
callbackVars == <<vars, stubVars, meterVars>>

CallbackTypeOK == TypeOK /\ Stub!StubTypeOK /\ Meter!MeterTypeOK

CallbackInit == Init /\ Stub!StubInit /\ Meter!MeterInit

(* A muted block is taken from the recording, but not measured. *)
CallbackBegins(d, voice, peak) ==
    /\ BeginBlock(d, voice)
    /\ Stub!Get
    /\ IF Heeds THEN Meter!Calculate(d, peak) ELSE Meter!Skip(d)

CallbackSends(cn) == EndBlock(cn) /\ UNCHANGED <<stubVars, meterVars>>

CallbackThread ==
    \/ \E d \in 1 .. MaxDelay, voice \in BOOLEAN, peak \in Peak : CallbackBegins(d, voice, peak)
    \/ \E cn \in BOOLEAN : CallbackSends(cn)

CallbackNext ==
    \/ CallbackThread
    \/ \E mute \in BOOLEAN : SetMute(mute) /\ UNCHANGED <<stubVars, meterVars>>

(* The sound card goes on asking for blocks. *)
CallbackSpec == /\ CallbackInit /\ [][CallbackNext]_callbackVars
                /\ WF_callbackVars(CallbackThread)

-------------------------------------------------------------------------------
(* What the recording and the meter promise: see there. *)
StubGoesRound == Stub!StubGoesRound
MeterIsHonest == Meter!MeterIsHonest
===============================================================================

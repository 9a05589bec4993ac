--------------------------------- MODULE Upstream ---------------------------------
(***************************************************************************)
(* What a client does with the audio it records (Worker::nsAecVolumeVadSend):*)
(* the audio thread hands over a block of 10 ms; unless the microphone is   *)
(* muted the block is checked for voice and sent, as an AudioMessage while  *)
(* there has been voice lately, and as comfort noise otherwise.  mute_ is    *)
(* set by the user's thread with no lock.                                   *)
(*                                                                          *)
(* Time is counted in ticks, and a block comes at least a tick after the    *)
(* one before it.  sinceWindow and sinceVoice stop at Forever.              *)
(***************************************************************************)
EXTENDS Naturals

CONSTANTS
    Second,        \* ticks of the window over which voice is counted: 100 in the code
    MaxDelay,      \* bound: ticks from one block to the next
    CounterRange   \* values of vadCounter_, a uint8_t: 256 in the code

ASSUME TimeAssumption == Second \in Nat \ {0} /\ MaxDelay \in Nat \ {0}

(* Blocks are 10 ms apart, so one window holds fewer than the counter can count:
   about 101 of them, whatever the last one's delay. *)
ASSUME CounterAssumption == CounterRange \in Nat /\ CounterRange > Second + 1

Forever == Second + MaxDelay + 1

VARIABLES
    audio,         \* "idle", or "working" on a block that was not muted
    haveVoice,     \* what the voice activity detector says of that block
    mute_,
    vadCounter_,   \* blocks with voice in this window, modulo CounterRange
    sendOpus_,
    sinceWindow,   \* now - lastTimeStamp, the static that starts a window
    sinceVoice,    \* ticks since a block that was heeded had voice (history)
    sent,          \* what the last block became: a payload type, or "nothing"
    lateSends      \* packets sent since the microphone was muted (history)

blockVars == <<vadCounter_, sendOpus_, sinceWindow, sinceVoice, sent>>
vars == <<audio, haveVoice, mute_, blockVars, lateSends>>

TypeOK == /\ audio \in {"idle", "working"}
          /\ haveVoice \in BOOLEAN /\ mute_ \in BOOLEAN /\ sendOpus_ \in BOOLEAN
          /\ vadCounter_ \in 0 .. CounterRange - 1
          /\ sinceWindow \in 0 .. Forever
          /\ sinceVoice \in 0 .. Forever
          /\ sent \in {"AudioMessage", "AudioMessage_CN", "nothing"}
          /\ lateSends \in 0 .. 2

(* lastTimeStamp is a static of the process: an earlier call may have left it at
   any time. *)
Init == /\ audio = "idle" /\ haveVoice = FALSE
        /\ mute_ = FALSE
        /\ vadCounter_ = 0 /\ sendOpus_ = TRUE
        /\ sinceWindow \in 0 .. Forever
        /\ sinceVoice = Forever
        /\ sent = "nothing"
        /\ lateSends = 0

-------------------------------------------------------------------------------
Later(t, d) == IF t + d > Forever THEN Forever ELSE t + d

Heeds_Never == TRUE

(* A muted block is not looked at. *)
Heeds == ~mute_

(* The callback begins, d ticks after the one before. *)
BeginBlock(d, voice) ==
    /\ audio = "idle"
    /\ sinceWindow' = Later(sinceWindow, d)
    /\ IF Heeds
       THEN /\ audio' = "working"
            /\ haveVoice' = voice
            /\ sinceVoice' = IF voice THEN 0 ELSE Later(sinceVoice, d)
            /\ UNCHANGED sent
       ELSE /\ UNCHANGED <<audio, haveVoice>>
            /\ sinceVoice' = Later(sinceVoice, d)
            /\ sent' = "nothing"
    /\ UNCHANGED <<mute_, vadCounter_, sendOpus_, lateSends>>

Counted_Narrow == IF haveVoice THEN (vadCounter_ + 1) % 2 ELSE vadCounter_
Counted == IF haveVoice THEN (vadCounter_ + 1) % CounterRange ELSE vadCounter_

WindowEnds == sinceWindow > Second

StillVoice_Latched == sendOpus_ \/ haveVoice

(* A block with voice turns sending on; a window without any turns it off. *)
StillVoice == (sendOpus_ \/ haveVoice) /\ ~(WindowEnds /\ Counted = 0)

(* The comfort noise encoder yields bytes for some blocks only. *)
Packet(cn) == IF StillVoice THEN "AudioMessage"
              ELSE IF cn THEN "AudioMessage_CN" ELSE "nothing"

EndBlock(cn) ==
    /\ audio = "working"
    /\ audio' = "idle"
    /\ sendOpus_' = StillVoice
    /\ vadCounter_' = IF WindowEnds THEN 0 ELSE Counted
    /\ sinceWindow' = IF WindowEnds THEN 0 ELSE sinceWindow
    /\ sent' = Packet(cn)
    /\ lateSends' = IF mute_ /\ sent' # "nothing" /\ lateSends < 2
                    THEN lateSends + 1 ELSE lateSends
    /\ UNCHANGED <<haveVoice, mute_, sinceVoice>>

(* Worker::setMute, on the user's thread. *)
SetMute(mute) ==
    /\ mute_ # mute
    /\ mute_' = mute
    /\ lateSends' = 0
    /\ UNCHANGED <<audio, haveVoice, blockVars>>

AudioThread == \/ \E d \in 1 .. MaxDelay, voice \in BOOLEAN : BeginBlock(d, voice)
               \/ \E cn \in BOOLEAN : EndBlock(cn)

Next == AudioThread \/ \E mute \in BOOLEAN : SetMute(mute)

Spec == Init /\ [][Next]_vars

(* The sound card goes on asking for blocks. *)
FairSpec == Spec /\ WF_vars(AudioThread)

-------------------------------------------------------------------------------
(* No block in which voice was detected is replaced by comfort noise, although
   the decision hangs on a counter of 8 bits that is reset once in a while. *)
VoiceIsSent ==
    [][(audio = "working" /\ audio' = "idle" /\ haveVoice) =>
          sent' = "AudioMessage"]_vars

(* The end of a word is not cut off: sending is turned off only when the last
   block with voice is more than a second old. *)
Hangover == [][(sendOpus_ /\ ~sendOpus_') => sinceVoice > Second]_vars

(* Voice goes out as voice, from its first block to well after its last. *)
VoiceGoesOut == VoiceIsSent /\ Hangover

(* Somebody who stops talking ends up sending comfort noise. *)
SilenceIsNoticed ==
    <>[](audio = "working" => ~haveVoice) /\ <>[]~mute_ => <>[]~sendOpus_

(* Muting takes effect at once but for the block that is being worked on. *)
OneLateSend == mute_ => lateSends <= 1
===============================================================================

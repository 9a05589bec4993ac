------------------------------ MODULE WorkerProofs ------------------------------
(***************************************************************************)
(* Theorems about a call, for every set-up of its owner, any number of      *)
(* polls and any number of answers, and whenever syncStop is called.        *)
(***************************************************************************)
EXTENDS Worker, TLAPS

USE OwnerAssumption, PollAssumption, AnswerAssumption

(* Where the net thread has not said anything yet, and where it has said that the
   call is up. *)
Undecided == {"none", "clear", "init", "connect", "login", "await", "report"}
Up == {"openAudio", "starting", "stubLoop", "timer", "check", "sleep", "logout"}

(* One verdict: none before toggleState, "Connected" while the call is up. *)
Verdicts == /\ net \in Undecided => reported = <<>> /\ ~refused
            /\ net \in Up => reported = <<"Connected">> /\ ~refused
            /\ net = "done" => Len(reported) = (IF refused THEN 0 ELSE 1)

(* A stop that the net thread's first statement has not cleared stays in force, and
   the net thread does not go back to where it was. *)
StopHolds == /\ stop = "no" => stopAt = "none" /\ lateTicks = 0
             /\ stop # "no" /\ stopAt # "clear" =>
                   gotoStop_ /\ net \notin {"none", "clear"}
             /\ stop # "no" /\ stopAt \notin Opening =>
                   net \notin Opening \cup {"none"}

(* A tick after the stop is the end of the sleep under way. *)
Ticks == stopAt # "clear" =>
            lateTicks = 0 \/ (lateTicks = 1 /\ timer # "sleep")

(* The endpoint's own thread calls back from a stream that has not stopped, and a
   stop of an opened stream is final. *)
AudioStops ==
    /\ callback => owner.realEndpoint /\ stream # "stopped"
    /\ stream = "stopping" => stop = "stopping"
    /\ stop = "stopping" /\ stopAt \notin Opening => stream # "running"
    /\ stop \in {"nulled", "joined", "returned"} /\ stopAt \notin Opening =>
          stream = "stopped"

(* With the stub every packet is the net thread's, the logout the last of them. *)
LastPacket == (~owner.realEndpoint /\ net = "done" /\ Alive
                 /\ reported = <<"Connected">>) => ~inRoom

(* What syncStop has joined is gone. *)
Joined == /\ stop \in {"joined", "returned"} /\ owner.ownThread => net = "done"
          /\ stop = "returned" /\ owner.ownThread => timer \in {"none", "done"}

(* The pointer is only null when syncStop has been there. *)
NullPointer == /\ ~endpoint_ => stop \in {"nulled", "joined", "returned"}
               /\ crashed = "nullEndpoint" => stop # "no" /\ stopAt \in Opening

(* Each part needs others: a verdict is only for good because the net thread does
   not come back, the late tick needs the flag to stay up, the silence of the stub
   needs StopHolds, and all of them the types. *)
IInv == /\ TypeOK /\ Verdicts /\ StopHolds /\ Ticks /\ AudioStops /\ LastPacket
        /\ Joined /\ NullPointer

-------------------------------------------------------------------------------
(* toggleState, the first time it is called. *)
LEMMA FirstReport ==
    ASSUME NEW v \in NetworkState
    PROVE  /\ Append(<<>>, v) = <<v>> /\ Len(<<v>>) = 1
           /\ <<v>> \in Seq(NetworkState)
           /\ v # "Connected" => <<v>> # <<"Connected">>
  OBVIOUS

(* The flags, apart from the rest of TypeOK. *)
Flags == {isLogin, connected, gotoStop_, endpoint_, callback, serverUp, refused,
          inRoom} \subseteq BOOLEAN

LEMMA InitIInv == Init => IInv
  <1> SUFFICES ASSUME Init PROVE IInv
    OBVIOUS
  <1>1. owner \in OwnerType
    BY DEF Init
  <1>2. Flags
    BY <1>1, Zenon DEF Init, Flags, OwnerType
  <1>3. QED
    BY <1>1, <1>2 DEF Init, Flags, IInv, TypeOK, Verdicts, StopHolds, Ticks,
           AudioStops, LastPacket, Joined, NullPointer, NetPc, Opening, Undecided,
           Up, Alive

(* syncStart: one verdict on each way through it, and the logout last. *)
LEMMA NetThreadIInv == IInv /\ (Start \/ NetThread) => IInv'
  <1> SUFFICES ASSUME IInv, Start \/ NetThread PROVE IInv'
    OBVIOUS
  <1> USE DEF IInv, vars, netVars, callVars, audioVars, serverVars, stopVars, Goto,
              Alive, NetPc, Opening, NetworkState, Undecided, Up, OwnerType,
              TypeOK, Verdicts, StopHolds, Ticks, AudioStops, LastPacket, Joined,
              NullPointer
  <1>1. CASE Start
    BY <1>1 DEF Start
  <1>2. CASE ClearStop
    BY <1>2 DEF ClearStop
  <1>3. CASE InitClient
    <2>1. TypeOK'
      <3>1. Flags'
        BY <1>3, Zenon DEF InitClient, Flags
      <3>2. QED
        BY <1>3, <3>1 DEF InitClient, Flags
    <2>2. Verdicts'
      BY <1>3 DEF InitClient
    <2>3. LastPacket'
      BY <1>3 DEF InitClient
    <2>4. (StopHolds /\ Ticks /\ AudioStops /\ Joined /\ NullPointer)'
      BY <1>3 DEF InitClient
    <2>5. QED
      BY <2>1, <2>2, <2>3, <2>4
  <1>4. CASE PollConnected
    <2>1. TypeOK'
      BY <1>4, FirstReport DEF PollConnected
    <2>2. Verdicts'
      BY <1>4, FirstReport DEF PollConnected
    <2>3. LastPacket'
      BY <1>4, FirstReport DEF PollConnected
    <2>4. (StopHolds /\ Ticks /\ AudioStops /\ Joined /\ NullPointer)'
      BY <1>4, FirstReport DEF PollConnected
    <2>5. QED
      BY <2>1, <2>2, <2>3, <2>4
  <1>5. CASE SendLogin
    BY <1>5 DEF SendLogin
  <1>6. CASE PollLogin
    BY <1>6 DEF PollLogin
  <1>7. CASE ToggleState
    <2>1. TypeOK'
      BY <1>7, FirstReport DEF ToggleState
    <2>2. Verdicts'
      BY <1>7, FirstReport DEF ToggleState
    <2>3. LastPacket'
      BY <1>7, FirstReport DEF ToggleState
    <2>4. (StopHolds /\ Ticks /\ AudioStops /\ Joined /\ NullPointer)'
      BY <1>7, FirstReport DEF ToggleState
    <2>5. QED
      BY <2>1, <2>2, <2>3, <2>4
  <1>8. CASE ReadEndpoint
    BY <1>8 DEF ReadEndpoint
  <1>9. CASE StartEndpoint
    BY <1>9 DEF StartEndpoint
  <1>10. CASE StubLoop
    <2>1. TypeOK'
      <3>1. Flags'
        BY <1>10, Zenon DEF StubLoop, Flags
      <3>2. net' \in NetPc /\ UNCHANGED <<callVars, audioVars, serverVars, stopVars,
                                           gotoStop_, timer, lateTicks, crashed>>
        BY <1>10 DEF StubLoop
      <3>3. QED
        BY <3>1, <3>2 DEF Flags
    <2>2. (Verdicts /\ LastPacket)'
      BY <1>10 DEF StubLoop
    <2>3. (StopHolds /\ Ticks /\ AudioStops /\ Joined /\ NullPointer)'
      BY <1>10 DEF StubLoop
    <2>4. QED
      BY <2>1, <2>2, <2>3
  <1>11. CASE StartTimer
    BY <1>11 DEF StartTimer
  <1>12. CASE CheckStop
    <2>1. TypeOK'
      <3>1. Flags'
        BY <1>12, Zenon DEF CheckStop, SendHeartbeat, Flags
      <3>2. net' \in NetPc /\ UNCHANGED <<callVars, audioVars, serverVars, stopVars,
                                           gotoStop_, timer, lateTicks, crashed>>
        BY <1>12 DEF CheckStop
      <3>3. QED
        BY <3>1, <3>2 DEF Flags
    <2>2. (Verdicts /\ LastPacket)'
      BY <1>12 DEF CheckStop, SendHeartbeat
    <2>3. (StopHolds /\ Ticks /\ AudioStops /\ Joined /\ NullPointer)'
      BY <1>12 DEF CheckStop, SendHeartbeat
    <2>4. QED
      BY <2>1, <2>2, <2>3
  <1>13. CASE Wake
    BY <1>13 DEF Wake
  <1>14. CASE SendLogout
    <2>1. TypeOK'
      <3>1. Flags'
        BY <1>14, Zenon DEF SendLogout, Flags
      <3>2. QED
        BY <1>14, <3>1 DEF SendLogout, Flags
    <2>2. Verdicts'
      BY <1>14 DEF SendLogout
    <2>3. LastPacket'
      BY <1>14 DEF SendLogout
    <2>4. (StopHolds /\ Ticks /\ AudioStops /\ Joined /\ NullPointer)'
      BY <1>14 DEF SendLogout
    <2>5. QED
      BY <2>1, <2>2, <2>3, <2>4
  <1>15. QED
    BY <1>1, <1>2, <1>3, <1>4, <1>5, <1>6, <1>7, <1>8, <1>9, <1>10, <1>11, <1>12,
       <1>13, <1>14 DEF NetThread

(* The duration timer and the callbacks of the audio endpoint. *)
LEMMA AudioIInv == IInv /\ (TimerThread \/ BeginCallback \/ EndCallback) => IInv'
  <1> SUFFICES ASSUME IInv, TimerThread \/ BeginCallback \/ EndCallback PROVE IInv'
    OBVIOUS
  <1> USE DEF IInv, vars, netVars, callVars, audioVars, serverVars, stopVars, Goto,
              Alive, NetPc, Opening, NetworkState, Undecided, Up, OwnerType,
              TypeOK, Verdicts, StopHolds, Ticks, AudioStops, LastPacket, Joined,
              NullPointer
  <1>1. CASE CheckTimer
    BY <1>1 DEF CheckTimer
  <1>2. CASE Tick
    BY <1>2 DEF Tick
  <1>3. CASE BeginCallback
    BY <1>3 DEF BeginCallback
  <1>4. CASE EndCallback
    <2>1. TypeOK'
      <3>1. Flags'
        BY <1>4, Zenon DEF EndCallback, Flags
      <3>2. UNCHANGED <<netVars, stream, serverVars, stopVars, gotoStop_, timer,
                        lateTicks, crashed>>
        BY <1>4 DEF EndCallback
      <3>3. QED
        BY <3>1, <3>2 DEF Flags
    <2>2. (Verdicts /\ LastPacket)'
      BY <1>4 DEF EndCallback
    <2>3. (StopHolds /\ Ticks /\ AudioStops /\ Joined /\ NullPointer)'
      BY <1>4 DEF EndCallback
    <2>4. QED
      BY <2>1, <2>2, <2>3
  <1>5. QED
    BY <1>1, <1>2, <1>3, <1>4 DEF TimerThread

(* syncStop, from the flag to the joins. *)
LEMMA StopIInv == IInv /\ (SetGotoStop \/ StopThread) => IInv'
  <1> SUFFICES ASSUME IInv, SetGotoStop \/ StopThread PROVE IInv'
    OBVIOUS
  <1> USE DEF IInv, vars, netVars, callVars, audioVars, serverVars, stopVars, Goto,
              Alive, NetPc, Opening, NetworkState, Undecided, Up, OwnerType,
              TypeOK, Verdicts, StopHolds, Ticks, AudioStops, LastPacket, Joined,
              NullPointer
  <1>1. CASE SetGotoStop
    BY <1>1 DEF SetGotoStop
  <1>2. CASE StopEndpoint
    BY <1>2 DEF StopEndpoint
  <1>3. CASE NullEndpoint
    <2>1. TypeOK'
      <3>1. Flags'
        BY <1>3, Zenon DEF NullEndpoint, Flags
      <3>2. QED
        BY <3>1, <1>3 DEF Flags, NullEndpoint
    <2>2. (Verdicts /\ LastPacket)'
      BY <1>3 DEF NullEndpoint
    <2>3. (StopHolds /\ Ticks /\ AudioStops /\ Joined /\ NullPointer)'
      BY <1>3 DEF NullEndpoint
    <2>4. QED
      BY <2>1, <2>2, <2>3
  <1>4. CASE JoinNet
    BY <1>4 DEF JoinNet
  <1>5. CASE JoinTimer
    BY <1>5 DEF JoinTimer
  <1>6. QED
    BY <1>1, <1>2, <1>3, <1>4, <1>5 DEF StopThread

(* The server, the network and the receiver thread. *)
LEMMA ServerIInv == IInv /\ (ServerDown \/ Connect \/ Answer \/ ReceiveLoginResponse) => IInv'
  <1> SUFFICES ASSUME IInv, ServerDown \/ Connect \/ Answer \/ ReceiveLoginResponse PROVE IInv'
    OBVIOUS
  <1> USE DEF IInv, vars, netVars, callVars, audioVars, serverVars, stopVars, Goto,
              Alive, NetPc, Opening, NetworkState, Undecided, Up, OwnerType,
              TypeOK, Verdicts, StopHolds, Ticks, AudioStops, LastPacket, Joined,
              NullPointer
  <1>1. CASE ServerDown
    <2>1. TypeOK'
      <3>1. Flags'
        BY <1>1, Zenon DEF ServerDown, Flags
      <3>2. QED
        BY <3>1, <1>1 DEF Flags, ServerDown
    <2>2. (Verdicts /\ LastPacket)'
      BY <1>1 DEF ServerDown
    <2>3. (StopHolds /\ Ticks /\ AudioStops /\ Joined /\ NullPointer)'
      BY <1>1 DEF ServerDown
    <2>4. QED
      BY <2>1, <2>2, <2>3
  <1>2. CASE Connect
    BY <1>2 DEF Connect
  <1>3. CASE Answer
    BY <1>3 DEF Answer
  <1>4. CASE ReceiveLoginResponse
    <2>1. TypeOK'
      <3>1. Flags'
        BY <1>4, Zenon DEF ReceiveLoginResponse, Flags
      <3>2. QED
        BY <3>1, <1>4 DEF Flags, ReceiveLoginResponse
    <2>2. (Verdicts /\ LastPacket)'
      BY <1>4 DEF ReceiveLoginResponse
    <2>3. (StopHolds /\ Ticks /\ AudioStops /\ Joined /\ NullPointer)'
      BY <1>4 DEF ReceiveLoginResponse
    <2>4. QED
      BY <2>1, <2>2, <2>3
  <1>5. QED
    BY <1>1, <1>2, <1>3, <1>4

LEMMA NextIInv == IInv /\ [Next]_vars => IInv'
  <1>1. ASSUME IInv, UNCHANGED vars PROVE IInv'
    BY <1>1 DEF vars, netVars, callVars, audioVars, serverVars, stopVars, IInv, TypeOK,
                Verdicts, StopHolds, Ticks, AudioStops, LastPacket, Joined, NullPointer,
                Alive
  <1>2. QED
    BY <1>1, NetThreadIInv, AudioIInv, StopIInv, ServerIInv DEF Next

-------------------------------------------------------------------------------
THEOREM Invariant == Spec => []IInv
  BY InitIInv, NextIInv, PTL DEF Spec

(* Type correctness of every thread's state. *)
THEOREM TypeCorrect == Spec => []TypeOK
  <1>1. IInv => TypeOK
    BY DEF IInv
  <1>2. QED
    BY <1>1, Invariant, PTL

(* Each call that ends has told the user interface one verdict, or none when the
   host did not resolve, however its threads interleave. *)
THEOREM VerdictOnce == Spec => []OneVerdict
  <1>1. IInv => OneVerdict
    BY DEF IInv, Verdicts, OneVerdict
  <1>2. QED
    BY <1>1, Invariant, PTL

(* A hang-up ends the audio and the timer of a call that was up, and with the stub
   its place in the server's room. *)
THEOREM HangUpWorks == Spec => []StopTakesEffect
  <1>1. IInv => AudioEndsWithStop
    BY DEF IInv, AudioStops, AudioEndsWithStop
  <1>2. IInv => OneLateTick
    BY DEF IInv, Ticks, OneLateTick
  <1>3. IInv => StubLeavesRoom
    BY DEF IInv, LastPacket, StubLeavesRoom, InRoomAfterStop
  <1>4. QED
    BY <1>1, <1>2, <1>3, Invariant, PTL DEF StopTakesEffect

(* asyncStart is called on a null endpoint_ only when syncStop ran before the audio
   endpoint was open: the crash that stopping a call early may cause, and the only
   way to it. *)
THEOREM NullOnlyWhenStoppedEarly ==
    Spec => [](crashed = "nullEndpoint" => stop # "no" /\ stopAt \in Opening)
  <1>1. IInv => (crashed = "nullEndpoint" => stop # "no" /\ stopAt \in Opening)
    BY DEF IInv, NullPointer
  <1>2. QED
    BY <1>1, Invariant, PTL

(* After syncStop has returned to an owner whose Worker has its own thread, neither
   thread moves and nothing is reported. *)
THEOREM QuietOnceStopped == Spec => QuietAfterReturn
  <1>1. IInv /\ [Next]_vars =>
          [stop = "returned" /\ owner.ownThread =>
              UNCHANGED <<net, timer, reported, lateTicks>>]_vars
    <2> SUFFICES ASSUME IInv, [Next]_vars, stop = "returned", owner.ownThread
                 PROVE  UNCHANGED <<net, timer, reported, lateTicks>>
      OBVIOUS
    <2>1. net = "done" /\ timer \in {"none", "done"}
      BY DEF IInv, Joined
    <2>2. ~Start /\ ~NetThread
      BY <2>1 DEF Start, NetThread, ClearStop, InitClient, PollConnected, SendLogin,
                  PollLogin, ToggleState, ReadEndpoint, StartEndpoint, StubLoop,
                  StartTimer, CheckStop, Wake, SendLogout, Goto
    <2>3. ~TimerThread
      BY <2>1 DEF TimerThread, CheckTimer, Tick
    <2>4. QED
      BY <2>2, <2>3 DEF Next, BeginCallback, EndCallback, SetGotoStop, StopThread,
            StopEndpoint, NullEndpoint, JoinNet, JoinTimer, ServerDown, Connect,
            Answer, ReceiveLoginResponse, vars, netVars, callVars
  <1>2. QED
    BY <1>1, Invariant, PTL DEF Spec, QuietAfterReturn
===============================================================================

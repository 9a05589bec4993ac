-------------------------------- MODULE MainWindow --------------------------------
(***************************************************************************)
(* The desktop user interface (client_qt5/mainwindow.cpp) and the call it    *)
(* owns.  Clicks and events run one at a time on the main thread, which      *)
(* blocks while it stops a Worker; the Worker's net thread, duration timer   *)
(* and audio thread report by posting events to the window's queue.          *)
(*                                                                          *)
(* Of the Worker only what the window sees is kept: module Worker has the    *)
(* rest.  A duration is 0 or more, a volume level empty or not.              *)
(***************************************************************************)
EXTENDS Naturals, Sequences, FiniteSets

CONSTANTS
    MaxCalls,     \* bound: calls started
    MaxTicks,     \* bound: duration events that wait in the queue
    MaxVolumes,   \* bound: volume events that wait in the queue
    MaxToggles    \* bound: clicks on the mute button

ASSUME BoundAssumption == {MaxCalls, MaxTicks, MaxVolumes, MaxToggles} \subseteq Nat

VARIABLES
    currentUiState_,
    main,         \* what the main thread is doing
    queue,        \* events posted and not yet handled
    duration,     \* the duration label shows a time
    level,        \* the microphone's meter shows a level
    micMute,      \* the mute button is checked
    toggles,      \* clicks on it (bounds the model)
    call,         \* calls started (tells them apart)
    worker_,      \* worker_ is not null
    net,          \* where the Worker's net thread is
    timer,        \* its duration timer
    counted,      \* s > 0: it has counted a second
    audio,        \* its audio thread: off, on, or in the callback of an unmuted block
    mute_,        \* Worker::mute_
    gotoStop_     \* Worker::gotoStop_

uiVars == <<currentUiState_, main, duration, level>>
muteVars == <<micMute, mute_, toggles>>
vars == <<uiVars, queue, muteVars, call, worker_, net, timer, counted, audio, gotoStop_>>

NetworkState == {"Disconnected", "Connecting", "Connected"}
Event == [type : {"state"}, value : NetworkState, call : Nat]
           \cup [type : {"duration", "volume"}, value : BOOLEAN, call : Nat]
State(s) == [type |-> "state", value |-> s, call |-> call]
Duration(b) == [type |-> "duration", value |-> b, call |-> call]
Volume(b) == [type |-> "volume", value |-> b, call |-> call]
Waiting(t) == Cardinality({i \in DOMAIN queue : queue[i].type = t})

(* main: "replacing" destroys the Worker of the last call and "starting" makes the
   next, "endpoint" and "joining" are the two halves of syncStop (the same with "-"
   when the window is being closed), "aborted" is a process that is no more. *)
Main == {"idle", "replacing", "starting", "endpoint", "joining", "endpoint-",
         "joining-", "closed", "aborted"}

TypeOK == /\ currentUiState_ \in NetworkState
          /\ main \in Main
          /\ queue \in Seq(Event)
          /\ {duration, level, micMute, mute_, worker_, gotoStop_} \subseteq BOOLEAN
          /\ toggles \in 0 .. MaxToggles /\ call \in 0 .. MaxCalls
          /\ net \in {"none", "begin", "login", "reported", "refused", "returning",
                      "up", "done"}
          /\ timer \in {"none", "check", "sleep", "done"}
          /\ counted \in BOOLEAN
          /\ audio \in {"off", "on", "unmuted"}

Init == /\ currentUiState_ = "Disconnected" /\ main = "idle"
        /\ call = 0
        /\ queue = <<Duration(FALSE)>>
        /\ duration = FALSE /\ level = FALSE
        /\ micMute = FALSE /\ mute_ = FALSE /\ toggles = 0
        /\ worker_ = FALSE /\ gotoStop_ = FALSE
        /\ net = "none" /\ timer = "none" /\ counted = FALSE /\ audio = "off"

-------------------------------------------------------------------------------
(* Main thread. *)

OnDisconnected == queue' = Append(queue, Duration(FALSE))

Startable_NotConnected == currentUiState_ # "Connected"

(* The button does nothing, and is disabled, while connecting. *)
Startable == currentUiState_ = "Disconnected"

(* on_pushButton_connecting_clicked, gotoWork: the last call's Worker, if it failed,
   is destroyed (and so stopped) when worker_ is assigned. *)
ClickConnect ==
    /\ main = "idle" /\ Startable
    /\ call < MaxCalls
    /\ currentUiState_' = "Connecting"
    /\ IF worker_ THEN main' = "replacing" /\ gotoStop_' = TRUE
                  ELSE main' = "starting" /\ UNCHANGED gotoStop_
    /\ UNCHANGED <<duration, level, queue, muteVars, call, worker_, net, timer,
                   counted, audio>>

Joined == net \in {"none", "refused", "done"} /\ timer \in {"none", "done"}

Replace == /\ main = "replacing"
           /\ Joined
           /\ main' = "starting"
           /\ worker_' = FALSE /\ audio' = "off"
           /\ UNCHANGED <<currentUiState_, duration, level, queue, muteVars, call, net,
                          timer, counted, gotoStop_>>

(* PortAudio does not start or open a stream: init returns its text, and gotoWork
   throws it as a std::string, which nothing catches. *)
InitFails ==
    /\ main = "starting"
    /\ main' = "aborted"
    /\ UNCHANGED <<currentUiState_, duration, level, queue, muteVars, call, worker_, net,
                   timer, counted, audio, gotoStop_>>

StartCall ==
    /\ main = "starting"
    /\ main' = "idle"
    /\ call' = call + 1 /\ worker_' = TRUE
    /\ net' = "begin" /\ timer' = "none" /\ counted' = FALSE
    /\ mute_' = FALSE /\ gotoStop_' = FALSE
    /\ UNCHANGED <<currentUiState_, duration, level, queue, micMute, toggles, audio>>

ClickHangUp ==
    /\ main = "idle" /\ currentUiState_ = "Connected"
    /\ main' = "endpoint" /\ gotoStop_' = TRUE
    /\ UNCHANGED <<currentUiState_, duration, level, queue, muteVars, call, worker_,
                   net, timer, counted, audio>>

(* syncStop: the endpoint first. *)
StopEndpoint ==
    /\ \/ main = "endpoint" /\ main' = "joining"
       \/ main = "endpoint-" /\ main' = "joining-"
    /\ audio # "unmuted"
    /\ audio' = "off"
    /\ UNCHANGED <<currentUiState_, duration, level, queue, muteVars, call, worker_,
                   net, timer, counted, gotoStop_>>

HungUp_NoDuration ==
    /\ main = "joining" /\ Joined
    /\ main' = "idle" /\ worker_' = FALSE
    /\ currentUiState_' = "Disconnected"
    /\ UNCHANGED <<duration, level, queue, muteVars, call, net, timer, counted,
                   audio, gotoStop_>>

(* Both threads are joined: the state changes, and the label is to be cleared. *)
HungUp ==
    /\ main = "joining" /\ Joined
    /\ main' = "idle" /\ worker_' = FALSE
    /\ currentUiState_' = "Disconnected"
    /\ OnDisconnected
    /\ UNCHANGED <<duration, level, muteVars, call, net, timer, counted, audio, gotoStop_>>

(* ~MainWindow. *)
ClickClose ==
    /\ main = "idle"
    /\ IF worker_ THEN main' = "endpoint-" /\ gotoStop_' = TRUE
                  ELSE main' = "closed" /\ UNCHANGED gotoStop_
    /\ UNCHANGED <<currentUiState_, duration, level, queue, muteVars, call, worker_,
                   net, timer, counted, audio>>

Closed == /\ main = "joining-" /\ Joined
          /\ main' = "closed"
          /\ UNCHANGED <<currentUiState_, duration, level, queue, muteVars, call,
                         worker_, net, timer, counted, audio, gotoStop_>>

ClickMute ==
    /\ main = "idle" /\ toggles < MaxToggles
    /\ toggles' = toggles + 1
    /\ micMute' = ~micMute
    /\ mute_' = IF worker_ THEN micMute' ELSE mute_
    /\ level' = (level /\ ~micMute')
    /\ UNCHANGED <<currentUiState_, main, duration, queue, call, worker_, net, timer,
                   counted, audio, gotoStop_>>

(* A level that was posted before the button was checked is not shown. *)
Shown(e) == IF micMute THEN level ELSE e.value

(* MainWindow::event. *)
HandleEvent ==
    /\ main = "idle" /\ queue # <<>>
    /\ LET e == Head(queue)
       IN  /\ duration' = IF e.type = "duration" THEN e.value ELSE duration
           /\ level' = IF e.type = "volume" THEN Shown(e) ELSE level
           /\ currentUiState_' = IF e.type = "state" THEN e.value ELSE currentUiState_
           /\ queue' = IF e.type = "state" /\ e.value = "Disconnected"
                       THEN Append(Tail(queue), Duration(FALSE)) ELSE Tail(queue)
    /\ UNCHANGED <<main, muteVars, call, worker_, net, timer, counted, audio, gotoStop_>>

MainThread == \/ Replace \/ InitFails \/ StartCall \/ StopEndpoint \/ HungUp \/ Closed
              \/ HandleEvent

User == ClickConnect \/ ClickHangUp \/ ClickClose \/ ClickMute

-------------------------------------------------------------------------------
(* The Worker's threads. *)

Running == main \notin {"closed", "aborted"}

(* syncStart clears the stop request; the host may not resolve. *)
NetBegin == /\ Running /\ net = "begin"
            /\ gotoStop_' = FALSE
            /\ net' \in {"login", "refused"}
            /\ UNCHANGED <<uiVars, queue, muteVars, call, worker_, timer, counted, audio>>

Verdict_Failed(ok) == State(IF ok THEN "Connected" ELSE "Failed")
Verdict(ok) == State(IF ok THEN "Connected" ELSE "Disconnected")

Report_Silent(ok) ==
    /\ Running /\ net = "login"
    /\ net' = IF ok THEN "reported" ELSE "returning"
    /\ queue' = IF ok THEN Append(queue, Verdict(ok)) ELSE queue
    /\ UNCHANGED <<uiVars, muteVars, call, worker_, timer, counted, audio, gotoStop_>>

(* toggleState, from the net thread: the window is told by an event. *)
Report(ok) == /\ Running /\ net = "login"
              /\ net' = IF ok THEN "reported" ELSE "returning"
              /\ queue' = Append(queue, Verdict(ok))
              /\ UNCHANGED <<uiVars, muteVars, call, worker_, timer, counted, audio,
                             gotoStop_>>

Return == /\ Running /\ net = "returning"
          /\ net' = "done"
          /\ UNCHANGED <<uiVars, queue, muteVars, call, worker_, timer, counted, audio,
                         gotoStop_>>

(* endpoint_->asyncStart(), on an endpoint that a syncStop may have set to null. *)
OpenAudio == /\ Running /\ net = "reported"
             /\ \/ /\ main \in {"joining", "joining-"}
                   /\ main' = "aborted"
                   /\ UNCHANGED <<net, timer, audio>>
                \/ /\ UNCHANGED main
                   /\ audio' = "on" /\ timer' = "check" /\ net' = "up"
             /\ UNCHANGED <<currentUiState_, duration, level, queue, muteVars, call,
                            worker_, counted, gotoStop_>>

NetStop == /\ Running /\ net = "up" /\ gotoStop_
           /\ net' = "done"
           /\ UNCHANGED <<uiVars, queue, muteVars, call, worker_, timer, counted, audio,
                          gotoStop_>>

CheckTimer == /\ Running /\ timer = "check"
              /\ timer' = IF gotoStop_ THEN "done" ELSE "sleep"
              /\ UNCHANGED <<uiVars, queue, muteVars, call, worker_, net, counted, audio,
                             gotoStop_>>

(* The first duration reported is 0. *)
Tick == /\ Running /\ timer = "sleep"
        /\ gotoStop_ \/ Waiting("duration") < MaxTicks
        /\ timer' = "check"
        /\ counted' = TRUE
        /\ queue' = Append(queue, Duration(counted))
        /\ UNCHANGED <<uiVars, muteVars, call, worker_, net, audio, gotoStop_>>

BeginCallback == /\ Running /\ audio = "on" /\ ~mute_
                 /\ Waiting("volume") < MaxVolumes
                 /\ audio' = "unmuted"
                 /\ UNCHANGED <<uiVars, queue, muteVars, call, worker_, net, timer,
                                counted, gotoStop_>>

PostVolume(b) == /\ Running /\ audio = "unmuted"
                 /\ audio' = "on"
                 /\ queue' = Append(queue, Volume(b))
                 /\ UNCHANGED <<uiVars, muteVars, call, worker_, net, timer, counted,
                                gotoStop_>>

NetThread == NetBegin \/ (\E ok \in BOOLEAN : Report(ok)) \/ Return \/ OpenAudio \/ NetStop

TimerThread == CheckTimer \/ Tick

AudioThread == BeginCallback \/ \E b \in BOOLEAN : PostVolume(b)

Next == MainThread \/ User \/ NetThread \/ TimerThread \/ AudioThread

Spec == Init /\ [][Next]_vars

(* The event loop and the threads go on; the user need not do anything. *)
FairSpec == Spec /\ WF_vars(MainThread) /\ WF_vars(NetThread) /\ WF_vars(TimerThread)
                 /\ WF_vars(\E b \in BOOLEAN : PostVolume(b))
-------------------------------------------------------------------------------
(* A verdict that waits in the queue is that of the call on display: what an
   earlier call reported can no longer change the state of this one. *)
VerdictIsCurrent ==
    \A i \in DOMAIN queue :
        queue[i].type = "state" => /\ queue[i].call = call
                                   /\ currentUiState_ = "Connecting"
                                   /\ \A j \in DOMAIN queue :
                                         queue[j].type = "state" => j = i

(* The window says Connected only while there is a call: the Worker that reported
   it has not been stopped, and was not denied. *)
ConnectedIsCall ==
    (currentUiState_ = "Connected" /\ main = "idle") =>
        (worker_ /\ net \in {"reported", "up"} /\ ~gotoStop_)

(* The state on display is that of the call on display and of no other: what an
   earlier call reported, or this one before it was hung up, never shows again. *)
StateIsCurrent == VerdictIsCurrent /\ ConnectedIsCall

(* The display does not outlive what it shows.  When everything posted has been
   handled, no duration is left in a window without a call, although the timer posted
   until it was joined; and a muted microphone shows no level, although levels that
   were posted before the click are handled after it. *)
NoStaleDisplay ==
    /\ (currentUiState_ = "Disconnected" /\ main = "idle" /\ Waiting("duration") = 0)
         => ~duration
    /\ micMute => ~level

(* Connecting comes to an end by itself, unless the host did not resolve (then
   nothing is reported, and the button stays disabled) or the window closes. *)
ConnectingEnds ==
    (currentUiState_ = "Connecting") ~>
        \/ currentUiState_ # "Connecting"
        \/ net = "refused"
        \/ main \in {"endpoint-", "joining-", "closed", "aborted"}

(* A hang-up comes to an end: the main thread is not left waiting for a thread. *)
HangUpEnds == (main = "endpoint") ~> (main \in {"idle", "aborted"})

(* The user is never left waiting, for a verdict or for the end of a call. *)
WaitsEnd == ConnectingEnds /\ HangUpEnds

(* mainwindow.cpp: the tool tip of the mute button is "Mute Microphone!". *)
MuteHonoured == (micMute /\ audio = "on" /\ main = "idle") => mute_
===============================================================================

--------------------------------- MODULE Worker ---------------------------------
(***************************************************************************)
(* One call as a client runs it (client_essential/Worker.cpp): the thread   *)
(* in syncStart (the net thread) connects, logs in, opens the audio         *)
(* endpoint, starts the duration timer and keeps the call up; the receiver  *)
(* thread hands it the server's answer; the audio endpoint calls back on a  *)
(* thread of its own; and another thread may call syncStop at any moment.   *)
(* They share gotoStop_, isLogin, endpoint_ and durationTimer_ with no lock.*)
(*                                                                          *)
(* Time is left out: a sleep is a step that may take any time.  inRoom      *)
(* follows what a server reached by every packet in the order it was sent   *)
(* would think: any packet admits the client, a LogoutRequest removes it.   *)
(***************************************************************************)
EXTENDS Naturals, Sequences

CONSTANTS
    Owner,           \* how the programs that own a Worker set it up: see OwnerType
    MaxPolls,        \* polls of the connecting and of the login phase: 10 in the code
    MaxAnswers       \* bound: LoginResponses the network delivers

(* ownThread: asyncStart runs syncStart in netThread_; else the caller does.
   realEndpoint: PortAudio; else CallbackStyleAudioEndpointStub.  hasReporter:
   setDurationReporter was called.  datagram: RawUdpClient; else TcpClient.  hangsUp:
   some thread may call syncStop at any time; else only ~Worker does, in the end. *)
OwnerType == [ownThread : BOOLEAN, realEndpoint : BOOLEAN, hasReporter : BOOLEAN,
              datagram : BOOLEAN, hangsUp : BOOLEAN]

ASSUME OwnerAssumption == Owner \subseteq OwnerType
ASSUME PollAssumption == MaxPolls \in Nat \ {0}
ASSUME AnswerAssumption == MaxAnswers \in Nat

VARIABLES
    owner,       \* the Worker's set-up, which init() and the setters fixed
    net,         \* where the net thread is in syncStart
    polls,       \* polls left in its current phase
    isLogin,     \* local of syncStart that the receiver's callback refers to
    connected,   \* NetClient::isConnected
    gotoStop_,
    endpoint_,   \* endpoint_ is not null
    stream,      \* the audio endpoint: stopped, running, or being stopped
    callback,    \* the endpoint's thread is inside the audio callback
    timer,       \* where the duration timer thread is
    stop,        \* where the stopping thread is in syncStop
    login,       \* the LoginRequest: unsent, sent, or answered by the server
    answers,     \* LoginResponses delivered so far
    serverUp,
    reported,    \* the states toggleState was called with (history)
    stopAt,      \* where net was when syncStop set gotoStop_ (history)
    lateTicks,   \* durationReporter_ calls since then, 2 for more (history)
    refused,     \* NetClient::init threw (history)
    inRoom,      \* the server counts this client among its peers (history)
    crashed      \* how the process died, if it did

callVars == <<owner, polls, isLogin, reported, refused>>
netVars == <<net, callVars>>
audioVars == <<stream, callback>>
serverVars == <<login, answers, serverUp, connected>>
stopVars == <<stop, stopAt, endpoint_>>
vars == <<netVars, audioVars, serverVars, stopVars, gotoStop_, timer, lateTicks,
          inRoom, crashed>>

NetPc == {"none", "clear", "init", "connect", "login", "await", "report",
          "openAudio", "starting", "stubLoop", "timer", "check", "sleep",
          "logout", "done"}
(* Where endpoint_->asyncStart() is still to come. *)
Opening == {"clear", "init", "connect", "login", "await", "report", "openAudio",
            "starting"}
NetworkState == {"Connected", "Disconnected"}

TypeOK == /\ owner \in Owner
          /\ net \in NetPc /\ stopAt \in NetPc
          /\ polls \in 0 .. MaxPolls
          /\ {isLogin, connected, gotoStop_, endpoint_, callback, serverUp,
              refused, inRoom} \subseteq BOOLEAN
          /\ stream \in {"stopped", "running", "stopping"}
          /\ timer \in {"none", "check", "sleep", "done"}
          /\ stop \in {"no", "flagged", "stopping", "nulled", "joined", "returned"}
          /\ login \in {"unsent", "sent", "answered"}
          /\ answers \in 0 .. MaxAnswers
          /\ reported \in Seq(NetworkState)
          /\ lateTicks \in 0 .. 2
          /\ crashed \in {"no", "nullEndpoint", "staleLogin"}

Init == /\ owner \in Owner
        /\ net = "none" /\ polls = MaxPolls /\ isLogin = FALSE
        /\ connected = owner.datagram
        /\ gotoStop_ = FALSE /\ endpoint_ = TRUE
        /\ stream = "stopped" /\ callback = FALSE
        /\ timer = "none"
        /\ stop = "no" /\ stopAt = "none"
        /\ login = "unsent" /\ answers = 0 /\ serverUp \in BOOLEAN
        /\ reported = <<>> /\ refused = FALSE
        /\ lateTicks = 0 /\ inRoom = FALSE
        /\ crashed = "no"

-------------------------------------------------------------------------------
(* The net thread, in syncStart.  (init() has been called: endpoint_ is set.) *)

Alive == crashed = "no"      \* nothing runs in a process that died
Goto(here, there) == Alive /\ net = here /\ net' = there

(* asyncStart, or the call of syncStart itself. *)
Start == /\ Goto("none", "clear")
         /\ UNCHANGED <<callVars, audioVars, serverVars,
                        stopVars, gotoStop_, timer, lateTicks, inRoom, crashed>>

ClearStop == /\ Goto("clear", "init")
             /\ gotoStop_' = FALSE
             /\ UNCHANGED <<callVars, audioVars, serverVars,
                            stopVars, timer, lateTicks, inRoom, crashed>>

(* pClient->init throws when the host does not resolve: syncStart returns and
   toggleState is not called. *)
InitClient == /\ \/ Goto("init", "connect") /\ UNCHANGED refused
                 \/ Goto("init", "done") /\ refused' = TRUE
              /\ UNCHANGED <<owner, polls, isLogin, reported, audioVars, serverVars,
                             stopVars, gotoStop_, timer, lateTicks, inRoom, crashed>>

(* One poll of isConnected(), or the end of the polls; the timeout branch also
   calls durationReporter_(0), which is not a tick of the timer. *)
PollConnected ==
    /\ IF connected /\ polls > 0
       THEN Goto("connect", "login") /\ polls' = MaxPolls /\ UNCHANGED reported
       ELSE IF polls > 0
            THEN Goto("connect", "connect") /\ polls' = polls - 1 /\ UNCHANGED reported
            ELSE /\ Goto("connect", "done") /\ UNCHANGED polls
                 /\ reported' = Append(reported, "Disconnected")
    /\ UNCHANGED <<owner, isLogin, refused, audioVars, serverVars, stopVars, gotoStop_,
                   timer, lateTicks, inRoom, crashed>>

(* The only LoginRequest of the call. *)
SendLogin == /\ Goto("login", "await")
             /\ inRoom' = TRUE
             /\ login' = "sent"
             /\ UNCHANGED <<callVars, audioVars, answers,
                            serverUp, connected, stopVars, gotoStop_, timer,
                            lateTicks, crashed>>

PollLogin_Forever ==
    /\ isLogin /\ Goto("await", "report")
    /\ UNCHANGED <<callVars, audioVars, serverVars,
                   stopVars, gotoStop_, timer, lateTicks, inRoom, crashed>>
PollLogin_ExtraPoll ==
    /\ Goto("await", "await") /\ polls' = polls + 1
    /\ UNCHANGED <<owner, isLogin, reported, refused, audioVars, serverVars,
                   stopVars, gotoStop_, timer, lateTicks, inRoom, crashed>>

PollLogin == /\ IF isLogin \/ polls = 0
                THEN Goto("await", "report") /\ UNCHANGED polls
                ELSE Goto("await", "await") /\ polls' = polls - 1
             /\ UNCHANGED <<owner, isLogin, reported, refused, audioVars, serverVars,
                            stopVars, gotoStop_, timer, lateTicks, inRoom, crashed>>

ToggleState_SilentFailure ==
    /\ IF isLogin
       THEN Goto("report", "openAudio") /\ reported' = Append(reported, "Connected")
       ELSE Goto("report", "done") /\ UNCHANGED reported
    /\ UNCHANGED <<owner, polls, isLogin, refused, audioVars, serverVars, stopVars,
                   gotoStop_, timer, lateTicks, inRoom, crashed>>

(* isLogin is read again here: an answer after the last poll still counts. *)
ToggleState ==
    /\ IF isLogin
       THEN Goto("report", "openAudio") /\ reported' = Append(reported, "Connected")
       ELSE Goto("report", "done") /\ reported' = Append(reported, "Disconnected")
    /\ UNCHANGED <<owner, polls, isLogin, refused, audioVars, serverVars, stopVars,
                   gotoStop_, timer, lateTicks, inRoom, crashed>>

(* endpoint_->asyncStart(): the pointer is read, then the endpoint started. *)
ReadEndpoint ==
    /\ IF endpoint_ THEN Goto("openAudio", "starting") /\ UNCHANGED crashed
       ELSE Goto("openAudio", "done") /\ crashed' = "nullEndpoint"
    /\ UNCHANGED <<callVars, audioVars, serverVars,
                   stopVars, gotoStop_, timer, lateTicks, inRoom>>

StartEndpoint ==
    /\ Goto("starting", IF owner.realEndpoint THEN "timer" ELSE "stubLoop")
    /\ stream' = "running"
    /\ UNCHANGED <<callVars, callback, serverVars, stopVars,
                   gotoStop_, timer, lateTicks, inRoom, crashed>>

(* The stub's asyncStart does not return before its syncStop: it calls back on
   the net thread.  A callback sends a packet, or nothing when muted. *)
StubLoop == /\ IF stream = "running"
               THEN /\ Goto("stubLoop", "stubLoop")
                    /\ inRoom' \in {TRUE, inRoom}
               ELSE Goto("stubLoop", "timer") /\ UNCHANGED inRoom
            /\ UNCHANGED <<callVars, audioVars, serverVars,
                           stopVars, gotoStop_, timer, lateTicks, crashed>>

StartTimer == /\ Goto("timer", "check")
              /\ timer' = IF owner.hasReporter THEN "check" ELSE "none"
              /\ UNCHANGED <<callVars, audioVars, serverVars,
                             stopVars, gotoStop_, lateTicks, inRoom, crashed>>

(* sendHeartbeat: every ten seconds, by a clock that calls share. *)
SendHeartbeat == inRoom' \in {TRUE, inRoom}

(* for (;!gotoStop_;) { sendHeartbeat(); sleep } *)
CheckStop == /\ IF gotoStop_ THEN Goto("check", "logout") /\ UNCHANGED inRoom
                ELSE Goto("check", "sleep") /\ SendHeartbeat
             /\ UNCHANGED <<callVars, audioVars, serverVars,
                            stopVars, gotoStop_, timer, lateTicks, crashed>>

Wake == /\ Goto("sleep", "check")
        /\ UNCHANGED <<callVars, audioVars, serverVars,
                       stopVars, gotoStop_, timer, lateTicks, inRoom, crashed>>

SendLogout == /\ Goto("logout", "done")
              /\ inRoom' = FALSE
              /\ UNCHANGED <<callVars, audioVars, serverVars,
                             stopVars, gotoStop_, timer, lateTicks, crashed>>

NetThread == \/ ClearStop \/ InitClient \/ PollConnected \/ SendLogin \/ PollLogin
             \/ ToggleState \/ ReadEndpoint \/ StartEndpoint \/ StubLoop
             \/ StartTimer \/ CheckStop \/ Wake \/ SendLogout

-------------------------------------------------------------------------------
(* The duration timer thread. *)

CheckTimer == /\ Alive /\ timer = "check"
              /\ timer' = IF gotoStop_ THEN "done" ELSE "sleep"
              /\ UNCHANGED <<netVars, audioVars, serverVars, stopVars, gotoStop_,
                             lateTicks, inRoom, crashed>>

Tick == /\ Alive /\ timer = "sleep"
        /\ timer' = "check"
        /\ lateTicks' = IF stop = "no" \/ lateTicks = 2 THEN lateTicks
                      ELSE lateTicks + 1
        /\ UNCHANGED <<netVars, audioVars, serverVars, stopVars, gotoStop_,
                       inRoom, crashed>>

TimerThread == CheckTimer \/ Tick

(* The audio endpoint's thread (PortAudio). *)

BeginCallback == /\ Alive /\ owner.realEndpoint
                 /\ stream = "running" /\ ~callback
                 /\ callback' = TRUE
                 /\ UNCHANGED <<netVars, stream, serverVars, stopVars, gotoStop_,
                                timer, lateTicks, inRoom, crashed>>

(* nsAecVolumeVadSend sends a packet, or nothing when muted. *)
EndCallback == /\ Alive /\ callback
               /\ callback' = FALSE
               /\ inRoom' \in {TRUE, inRoom}
               /\ UNCHANGED <<netVars, stream, serverVars, stopVars, gotoStop_,
                              timer, lateTicks, crashed>>

-------------------------------------------------------------------------------
(* The thread that calls syncStop. *)

SetGotoStop == /\ Alive /\ stop = "no" /\ net # "none"
               /\ owner.hangsUp \/ net = "done"
               /\ stop' = "flagged"
               /\ gotoStop_' = TRUE
               /\ stopAt' = net
               /\ UNCHANGED <<netVars, audioVars, serverVars, endpoint_, timer,
                              lateTicks, inRoom, crashed>>

StopEndpoint_Skipped ==
    /\ Alive /\ stop = "flagged" /\ stop' = "stopping"
    /\ UNCHANGED <<netVars, audioVars, serverVars, stopAt, endpoint_,
                   gotoStop_, timer, lateTicks, inRoom, crashed>>

(* endpoint_->syncStop(): Pa_StopStream, or started_ = false; neither does
   anything to an endpoint that is not started. *)
StopEndpoint == /\ Alive /\ stop = "flagged"
                /\ stop' = "stopping"
                /\ stream' = IF stream = "running" /\ owner.realEndpoint
                             THEN "stopping" ELSE "stopped"
                /\ UNCHANGED <<netVars, callback, serverVars, stopAt, endpoint_,
                               gotoStop_, timer, lateTicks, inRoom, crashed>>

(* Pa_StopStream returns when no callback runs any more. *)
NullEndpoint == /\ Alive /\ stop = "stopping"
                /\ stream = "stopping" => ~callback
                /\ stop' = "nulled"
                /\ stream' = IF stream = "stopping" THEN "stopped" ELSE stream
                /\ endpoint_' = FALSE
                /\ UNCHANGED <<netVars, callback, serverVars, stopAt, gotoStop_,
                               timer, lateTicks, inRoom, crashed>>

(* There is no netThread_ to join when the caller ran syncStart itself. *)
JoinNet == /\ Alive /\ stop = "nulled"
           /\ owner.ownThread => net = "done"
           /\ stop' = "joined"
           /\ UNCHANGED <<netVars, audioVars, serverVars, stopAt, endpoint_, gotoStop_,
                          timer, lateTicks, inRoom, crashed>>

JoinTimer_Detach ==
    /\ Alive /\ stop = "joined" /\ stop' = "returned"
    /\ UNCHANGED <<netVars, audioVars, serverVars, stopAt, endpoint_,
                   gotoStop_, timer, lateTicks, inRoom, crashed>>
JoinTimer == /\ Alive /\ stop = "joined"
             /\ timer \in {"none", "done"}
             /\ stop' = "returned"
             /\ UNCHANGED <<netVars, audioVars, serverVars, stopAt, endpoint_,
                            gotoStop_, timer, lateTicks, inRoom, crashed>>

StopThread == StopEndpoint \/ NullEndpoint \/ JoinNet \/ JoinTimer

-------------------------------------------------------------------------------
(* The server and the network. *)

ServerDown == /\ Alive /\ serverUp
              /\ serverUp' = FALSE
              /\ UNCHANGED <<netVars, audioVars, login, answers, connected,
                             stopVars,
                             gotoStop_, timer, lateTicks, inRoom, crashed>>

Connect == /\ Alive /\ serverUp /\ ~connected /\ net = "connect"
           /\ connected' = TRUE
           /\ UNCHANGED <<netVars, audioVars, login, answers, serverUp, stopVars,
                          gotoStop_, timer, lateTicks, inRoom, crashed>>

Answer == /\ Alive /\ serverUp /\ login = "sent"
          /\ login' = "answered"
          /\ UNCHANGED <<netVars, audioVars, answers, serverUp, connected, stopVars,
                         gotoStop_, timer, lateTicks, inRoom, crashed>>

(* A LoginResponse reaches the receiver thread, perhaps late, perhaps twice.
   Its callback holds a reference to isLogin, which is gone once syncStart has
   returned: the write then does no harm, or kills the process. *)
ReceiveLoginResponse ==
    /\ Alive /\ login = "answered" /\ answers < MaxAnswers
    /\ answers' = answers + 1
    /\ IF net # "done"
       THEN isLogin' = TRUE /\ UNCHANGED crashed
       ELSE crashed' \in {"no", "staleLogin"} /\ UNCHANGED isLogin
    /\ UNCHANGED <<owner, net, polls, reported, refused, audioVars, login, serverUp,
                   connected, stopVars, gotoStop_, timer, lateTicks, inRoom>>

Next == \/ Start \/ NetThread \/ TimerThread
        \/ BeginCallback \/ EndCallback
        \/ SetGotoStop \/ StopThread
        \/ ServerDown \/ Connect \/ Answer \/ ReceiveLoginResponse

Spec == Init /\ [][Next]_vars

(* Each thread of the client goes on, and nothing else is sure to happen: not
   the server, not the network, not the user. *)
FairSpec == /\ Spec
            /\ WF_vars(NetThread) /\ WF_vars(TimerThread)
            /\ WF_vars(EndCallback) /\ WF_vars(StopThread)

-------------------------------------------------------------------------------
(* IWorker.hpp asks of syncStop "blocked when server down?".  It returns, server
   or no server, unless it was called before the net thread's first statement,
   which then clears the request (gotoStop_ = false).  When another thread runs
   syncStart itself, a syncStop called once the audio endpoint is open makes that
   return too. *)
StopReturns ==
    /\ \A w \in NetPc \ {"clear"} :
         (stop # "no" /\ stopAt = w) ~> (stop = "returned" \/ crashed # "no")
    /\ \A w \in NetPc \ Opening :
         (stop # "no" /\ stopAt = w) ~> (net = "done" \/ crashed # "no")

(* Once syncStop has returned, both threads it joined are gone: no state and no
   duration is reported any more to an owner that may be going away. *)
QuietAfterReturn ==
    [][stop = "returned" /\ owner.ownThread =>
          UNCHANGED <<net, timer, reported, lateTicks>>]_vars

(* After the hang-up of a call whose audio had been opened, the endpoint is
   stopped and no audio callback runs or will run. *)
AudioEndsWithStop ==
    (stop = "returned" /\ stopAt \notin Opening) =>
        (stream = "stopped" /\ ~callback)

(* The duration timer reports at most once more after the stop: the report that
   its one-second sleep was already heading for. *)
OneLateTick == stopAt # "clear" => lateTicks <= 1

(* Each call that ends tells the user interface exactly one verdict, Connected
   or Disconnected, or none at all when the host did not resolve: the catch in
   syncStart returns without toggleState. *)
OneVerdict ==
    (net = "done" /\ crashed = "no") =>
        Len(reported) = (IF refused THEN 0 ELSE 1)

InRoomAfterStop ==
    /\ stop = "returned" /\ net = "done" /\ Alive
    /\ reported = <<"Connected">> /\ stopAt \notin Opening
    /\ inRoom

(* With the stub, whose callback runs on the net thread, nothing is sent after the
   LogoutRequest: a call that was up leaves the server's room for good. *)
StubLeavesRoom == ~owner.realEndpoint => ~InRoomAfterStop

(* A hang-up takes effect on everything the call had running: its audio, its timer
   and, where one thread sends everything, its place in the room. *)
StopTakesEffect == AudioEndsWithStop /\ OneLateTick /\ StubLeavesRoom

(* TediousNetworkProtocol.md has the audio packets first and then the Logout
   Request: a call that was up leaves the server's room for good. *)
LeavesRoom == ~InRoomAfterStop

(* TediousNetworkTestPlan.md: "when the server down, the client should be
   notified or disconnected at least". *)
ServerDownNoticed ==
    (~serverUp /\ net = "sleep") ~>
        (stop # "no" \/ crashed # "no" \/ "Disconnected" \in
            {reported[i] : i \in DOMAIN reported})
===============================================================================

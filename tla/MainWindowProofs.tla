---------------------------- MODULE MainWindowProofs ----------------------------
(***************************************************************************)
(* Theorems about the window, for any number of calls and of clicks on the   *)
(* mute button, and any number of events waiting.                            *)
(***************************************************************************)
EXTENDS MainWindow, SequenceTheorems, FiniteSetTheorems, TLAPS

USE BoundAssumption

(* No verdict waits in the queue. *)
NoVerdict == \A i \in DOMAIN queue : queue[i].type # "state"

(* Where the net thread may be, by what the main thread does and the window shows.
   A verdict is only posted while the window says Connecting; while a call is being
   replaced its Worker has reported already. *)
Phases ==
    /\ main \in {"replacing", "starting"} =>
          /\ currentUiState_ = "Connecting" /\ NoVerdict
          /\ net \in {"none", "returning", "done"} /\ call < MaxCalls
    /\ main \in {"endpoint", "joining"} =>
          currentUiState_ = "Connected" /\ net \in {"reported", "up", "done"}
    /\ net \in {"begin", "login"} =>
          /\ currentUiState_ = "Connecting" /\ NoVerdict
          /\ main \in {"idle", "endpoint-", "joining-"}
    /\ main = "idle" /\ net \in {"begin", "login", "reported", "up"} =>
          worker_ /\ ~gotoStop_

(* The duration timer runs only in a call that is or was up, and a window that says
   Disconnected has none. *)
Timers ==
    /\ net \in {"none", "begin", "login", "reported", "returning", "refused"} =>
          timer = "none"
    /\ currentUiState_ = "Disconnected" =>
          net \in {"none", "returning", "done"} /\ timer \in {"none", "done"}

(* A verdict that waits is still true when the window can read it. *)
VerdictHolds ==
    \A i \in DOMAIN queue : queue[i].type = "state" =>
       \/ /\ queue[i].value = "Disconnected"
          /\ net \in {"returning", "done"} /\ timer = "none"
       \/ /\ queue[i].value = "Connected"
          /\ main = "idle" => net \in {"reported", "up"}

(* Whatever shows a duration, now or later, is followed by what clears it. *)
Clears(q, j) == q[j].type = "duration" /\ q[j].value = FALSE
Settled(q, shown) ==
    /\ shown => \E j \in DOMAIN q : Clears(q, j)
    /\ \A i \in DOMAIN q : q[i].type = "duration" /\ q[i].value = TRUE =>
          \E j \in DOMAIN q : j > i /\ Clears(q, j)
DurationClears == currentUiState_ = "Disconnected" => Settled(queue, duration)

MuteShows == micMute => ~level

IInv == /\ TypeOK /\ Phases /\ Timers /\ VerdictIsCurrent /\ VerdictHolds
        /\ ConnectedIsCall /\ DurationClears /\ MuteShows

-------------------------------------------------------------------------------
(* The queue: an event is posted behind those that wait, and taken before them. *)
LEMMA Posted ==
    ASSUME NEW q \in Seq(Event), NEW e \in Event
    PROVE  /\ Append(q, e) \in Seq(Event)
           /\ Len(q) \in Nat /\ DOMAIN q = 1 .. Len(q)
           /\ DOMAIN Append(q, e) = 1 .. Len(q) + 1
           /\ \A i \in DOMAIN q : Append(q, e)[i] = q[i]
           /\ Append(q, e)[Len(q) + 1] = e
  BY AppendProperties, LenProperties

LEMMA Taken ==
    ASSUME NEW q \in Seq(Event), q # <<>>
    PROVE  /\ Head(q) \in Event /\ Tail(q) \in Seq(Event)
           /\ Len(q) \in Nat \ {0} /\ DOMAIN q = 1 .. Len(q) /\ Head(q) = q[1]
           /\ DOMAIN Tail(q) = 1 .. Len(q) - 1
           /\ \A i \in DOMAIN Tail(q) : Tail(q)[i] = q[i + 1]
  <1>1. /\ Head(q) \in Event /\ Tail(q) \in Seq(Event)
        /\ Len(Tail(q)) = Len(q) - 1
        /\ \A i \in 1 .. Len(Tail(q)) : Tail(q)[i] = q[i + 1]
    BY HeadTailProperties
  <1>2. Len(q) \in Nat \ {0} /\ DOMAIN q = 1 .. Len(q)
    BY EmptySeq, LenProperties
  <1>3. DOMAIN Tail(q) = 1 .. Len(Tail(q))
    BY <1>1, LenProperties
  <1>4. Head(q) = q[1]
    OBVIOUS
  <1>5. QED
    BY <1>1, <1>2, <1>3, <1>4

LEMMA EventTypes ==
    ASSUME NEW e \in Event
    PROVE  /\ e.type \in {"state", "duration", "volume"} /\ e.call \in Nat
           /\ e.type = "state" => e.value \in NetworkState
           /\ e.type # "state" => e.value \in BOOLEAN
  BY DEF Event

LEMMA NewEvents ==
    ASSUME call \in Nat, NEW b \in BOOLEAN
    PROVE  /\ Duration(b) \in Event /\ Volume(b) \in Event /\ Verdict(b) \in Event
           /\ Duration(b).type = "duration" /\ Duration(b).value = b
           /\ Volume(b).type = "volume"
           /\ Verdict(b).type = "state" /\ Verdict(b).call = call
           /\ b = TRUE => Verdict(b).value = "Connected"
           /\ b = FALSE => Verdict(b).value = "Disconnected"
  BY DEF Duration, Volume, Verdict, State, Event, NetworkState

(* What the label will show in the end. *)
LEMMA SettledByClearing ==
    ASSUME NEW q \in Seq(Event), NEW e \in Event, NEW shown \in BOOLEAN,
           e.type = "duration", e.value = FALSE
    PROVE  Settled(Append(q, e), shown)
  <1> DEFINE p == Append(q, e)
             n == Len(q) + 1
  <1>1. n \in DOMAIN p /\ Clears(p, n)
    BY Posted DEF Clears
  <1>2. \A i \in DOMAIN p : p[i].type = "duration" /\ p[i].value = TRUE => n > i
    BY Posted
  <1>3. n \in Nat
    BY Posted
  <1> HIDE DEF p, n
  <1>4. Settled(p, shown)
    BY <1>1, <1>2 DEF Settled
  <1>5. QED
    BY <1>4 DEF p

LEMMA SettledByOther ==
    ASSUME NEW q \in Seq(Event), NEW e \in Event, NEW shown \in BOOLEAN,
           e.type # "duration", Settled(q, shown)
    PROVE  Settled(Append(q, e), shown)
  <1> DEFINE p == Append(q, e)
  <1>1. /\ DOMAIN q \subseteq DOMAIN p
        /\ \A j \in DOMAIN q : Clears(q, j) => Clears(p, j)
        /\ \A i \in DOMAIN p : p[i].type = "duration" => i \in DOMAIN q /\ p[i] = q[i]
    BY Posted DEF Clears
  <1> HIDE DEF p
  <1>2. Settled(p, shown)
    BY <1>1 DEF Settled
  <1>3. QED
    BY <1>2 DEF p

LEMMA SettledByTaking ==
    ASSUME NEW q \in Seq(Event), q # <<>>, NEW shown \in BOOLEAN, Settled(q, shown)
    PROVE  Settled(Tail(q), IF Head(q).type = "duration" THEN Head(q).value ELSE shown)
  <1> DEFINE p == Tail(q)
             now == IF Head(q).type = "duration" THEN Head(q).value ELSE shown
  <1>1. /\ 1 \in DOMAIN q /\ Head(q) = q[1] /\ now \in BOOLEAN
        /\ \A i \in DOMAIN p : i + 1 \in DOMAIN q /\ p[i] = q[i + 1]
        /\ \A j \in DOMAIN q : j > 1 => j - 1 \in DOMAIN p /\ p[j - 1] = q[j]
        /\ DOMAIN p \subseteq Nat /\ DOMAIN q \subseteq Nat
    BY Taken, EventTypes
  <1>2. \A j \in DOMAIN q : j > 1 /\ Clears(q, j) => Clears(p, j - 1)
    BY <1>1 DEF Clears
  <1>3. ASSUME now = TRUE PROVE \E j \in DOMAIN p : Clears(p, j)
    <2>1. PICK j \in DOMAIN q : j > 1 /\ Clears(q, j)
      <3>1. CASE Head(q).type = "duration"
        BY <1>1, <1>3, <3>1 DEF Settled
      <3>2. CASE Head(q).type # "duration"
        BY <1>1, <1>3, <3>2 DEF Settled, Clears
      <3>3. QED
        BY <3>1, <3>2
    <2>2. QED
      BY <1>1, <1>2, <2>1
  <1>4. ASSUME NEW i \in DOMAIN p, p[i].type = "duration", p[i].value = TRUE
        PROVE  \E j \in DOMAIN p : j > i /\ Clears(p, j)
    <2>1. PICK j \in DOMAIN q : j > i + 1 /\ Clears(q, j)
      BY <1>1, <1>4 DEF Settled
    <2>2. QED
      BY <1>1, <1>2, <2>1
  <1> HIDE DEF p, now
  <1>5. Settled(p, now)
    BY <1>1, <1>3, <1>4 DEF Settled
  <1>6. QED
    BY <1>5 DEF p, now

-------------------------------------------------------------------------------
LEMMA InitIInv == Init => IInv
  <1> SUFFICES ASSUME Init PROVE IInv
    OBVIOUS
  <1> DEFINE e == Duration(FALSE)
  <1>1. e \in Event /\ e.type = "duration" /\ e.value = FALSE
    BY NewEvents DEF Init
  <1>2. queue = <<e>>
    BY DEF Init
  <1> HIDE DEF e
  <1>3. queue \in Seq(Event) /\ DOMAIN queue = {1} /\ queue[1] = e
    BY <1>1, <1>2
  <1>4. TypeOK
    <2>1. {duration, level, micMute, mute_, worker_, gotoStop_} \subseteq BOOLEAN
          /\ counted \in BOOLEAN
      BY Zenon DEF Init
    <2>2. /\ toggles \in 0 .. MaxToggles /\ call \in 0 .. MaxCalls
          /\ currentUiState_ \in NetworkState /\ main \in Main
      BY DEF Init, NetworkState, Main
    <2>3. QED
      BY <1>3, <2>1, <2>2, Zenon DEF Init, TypeOK
  <1>5. DurationClears
    BY <1>1, <1>3 DEF Init, DurationClears, Settled
  <1>6. QED
    BY <1>1, <1>3, <1>4, <1>5 DEF Init, IInv, Phases, Timers, NoVerdict,
       VerdictIsCurrent, VerdictHolds, ConnectedIsCall, MuteShows

(* Events other than a verdict change nothing about verdicts. *)
LEMMA PostOther ==
    ASSUME queue \in Seq(Event), NEW e \in Event, e.type # "state",
           queue' = Append(queue, e)
    PROVE  /\ queue' \in Seq(Event)
           /\ NoVerdict => NoVerdict'
           /\ \A i \in DOMAIN queue' : queue'[i].type = "state" =>
                 i \in DOMAIN queue /\ queue'[i] = queue[i]
  <1>1. /\ queue' \in Seq(Event)
        /\ \A i \in DOMAIN queue' : \/ i \in DOMAIN queue /\ queue'[i] = queue[i]
                                    \/ queue'[i] = e
    BY Posted
  <1>2. QED
    BY <1>1 DEF NoVerdict

LEMMA TakeEvent ==
    ASSUME queue \in Seq(Event), queue # <<>>
    PROVE  /\ Tail(queue) \in Seq(Event) /\ Head(queue) \in Event
           /\ 1 \in DOMAIN queue /\ queue[1] = Head(queue)
           /\ \A i \in DOMAIN Tail(queue) :
                 i \in Nat \ {0} /\ i + 1 \in DOMAIN queue /\ Tail(queue)[i] = queue[i + 1]
  BY Taken

LEMMA UserIInv == IInv /\ User => IInv'
  <1> SUFFICES ASSUME IInv, User PROVE IInv'
    OBVIOUS
  <1> USE DEF uiVars, muteVars, vars, Running, NetworkState, Main,
              IInv, TypeOK, Phases, Timers, NoVerdict, VerdictIsCurrent, VerdictHolds,
              ConnectedIsCall, DurationClears, MuteShows
  <1>1. CASE ClickConnect
    BY <1>1 DEF ClickConnect, Startable
  <1>2. CASE ClickHangUp
    BY <1>2 DEF ClickHangUp
  <1>3. CASE ClickClose
    BY <1>3 DEF ClickClose
  <1>4. CASE ClickMute
    BY <1>4 DEF ClickMute
  <1>5. QED
    BY <1>1, <1>2, <1>3, <1>4 DEF User

(* The window's own steps but for the events it handles: a hang-up leaves the event
   that clears the label at the end of the queue, and no verdict in it. *)
LEMMA MainThreadIInv ==
    IInv /\ (Replace \/ InitFails \/ StartCall \/ StopEndpoint \/ HungUp \/ Closed) => IInv'
  <1> SUFFICES ASSUME IInv,
                      Replace \/ InitFails \/ StartCall \/ StopEndpoint \/ HungUp \/ Closed
               PROVE  IInv'
    OBVIOUS
  <1> USE DEF uiVars, muteVars, vars, Running, NetworkState, Main,
              IInv, TypeOK, Phases, Timers, NoVerdict, VerdictIsCurrent, VerdictHolds,
              ConnectedIsCall, DurationClears, MuteShows
  <1>1. CASE Replace
    BY <1>1 DEF Replace, Joined
  <1>2. CASE InitFails
    BY <1>2 DEF InitFails
  <1>3. CASE StartCall
    <2>1. call < MaxCalls /\ MaxCalls \in Nat
      BY <1>3 DEF StartCall
    <2>2. call' \in 0 .. MaxCalls
      BY <1>3, <2>1 DEF StartCall
    <2>3. TypeOK'
      <3>1. {duration, level, micMute, mute_, worker_, gotoStop_}' \subseteq BOOLEAN
        BY <1>3, Zenon DEF StartCall
      <3>2. QED
        BY <1>3, <2>2, <3>1 DEF StartCall
    <2>4. (Phases /\ Timers /\ VerdictIsCurrent /\ VerdictHolds /\ ConnectedIsCall
             /\ DurationClears /\ MuteShows)'
      BY <1>3 DEF StartCall
    <2>5. QED
      BY <2>3, <2>4
  <1>4. CASE StopEndpoint
    BY <1>4 DEF StopEndpoint
  <1>5. CASE Closed
    BY <1>5 DEF Closed, Joined
  <1>6. CASE HungUp
    <2> DEFINE e == Duration(FALSE)
    <2>1. e \in Event /\ e.type = "duration" /\ e.value = FALSE
      <3>1. call \in Nat
        OBVIOUS
      <3>2. QED
        BY <3>1, NewEvents
    <2> HIDE DEF e
    <2>2. queue' = Append(queue, e)
      BY <1>6 DEF HungUp, OnDisconnected, e
    <2>3. /\ queue' \in Seq(Event)
          /\ \A i \in DOMAIN queue' : queue'[i].type = "state" =>
                i \in DOMAIN queue /\ queue'[i] = queue[i]
      BY <2>1, <2>2, PostOther
    <2>4. NoVerdict'
      BY <1>6, <2>3 DEF HungUp
    <2>5. DurationClears'
      <3>1. duration' \in BOOLEAN /\ queue \in Seq(Event)
        BY <1>6, Zenon DEF HungUp
      <3>2. QED
        BY <2>1, <2>2, <3>1, SettledByClearing
    <2>6. TypeOK'
      BY <1>6, <2>3 DEF HungUp
    <2>7. (Phases /\ Timers /\ VerdictIsCurrent /\ VerdictHolds /\ ConnectedIsCall
             /\ MuteShows)'
      BY <1>6, <2>4 DEF HungUp, Joined
    <2>8. QED
      BY <2>5, <2>6, <2>7
  <1>7. QED
    BY <1>1, <1>2, <1>3, <1>4, <1>5, <1>6

(* MainWindow::event: a verdict that is shown was the only one that waited, and what
   it says is so; a denied call leaves the event that clears the label. *)
LEMMA HandleEventIInv == IInv /\ HandleEvent => IInv'
  <1> SUFFICES ASSUME IInv, HandleEvent PROVE IInv'
    OBVIOUS
  <1> DEFINE e == Head(queue)
             cleared == Duration(FALSE)
  <1>1. /\ Tail(queue) \in Seq(Event) /\ e \in Event
        /\ 1 \in DOMAIN queue /\ queue[1] = e
        /\ \A i \in DOMAIN Tail(queue) :
              i \in Nat \ {0} /\ i + 1 \in DOMAIN queue /\ Tail(queue)[i] = queue[i + 1]
    BY TakeEvent DEF HandleEvent, IInv, TypeOK
  <1>2. /\ e.type \in {"state", "duration", "volume"}
        /\ e.type = "state" => e.value \in NetworkState
        /\ e.type # "state" => e.value \in BOOLEAN
    BY <1>1, EventTypes
  <1>3. /\ main = "idle" /\ queue # <<>>
        /\ duration' = IF e.type = "duration" THEN e.value ELSE duration
        /\ level' = IF e.type = "volume" THEN Shown(e) ELSE level
        /\ currentUiState_' = IF e.type = "state" THEN e.value ELSE currentUiState_
        /\ queue' = IF e.type = "state" /\ e.value = "Disconnected"
                    THEN Append(Tail(queue), cleared) ELSE Tail(queue)
        /\ UNCHANGED <<main, micMute, mute_, toggles, call, worker_, net, timer, counted,
                       audio, gotoStop_>>
    BY DEF HandleEvent, muteVars
  <1>4. cleared \in Event /\ cleared.type = "duration" /\ cleared.value = FALSE
    <2>1. call \in Nat
      BY DEF IInv, TypeOK
    <2>2. QED
      BY <2>1, NewEvents
  <1> HIDE DEF e, cleared
  <1>5. /\ queue' \in Seq(Event)
        /\ \A i \in DOMAIN queue' : queue'[i].type = "state" =>
              i \in Nat \ {0} /\ i + 1 \in DOMAIN queue /\ queue'[i] = queue[i + 1]
    <2>1. /\ Append(Tail(queue), cleared) \in Seq(Event)
          /\ \A i \in DOMAIN Append(Tail(queue), cleared) :
                \/ i \in DOMAIN Tail(queue) /\ Append(Tail(queue), cleared)[i] = Tail(queue)[i]
                \/ Append(Tail(queue), cleared)[i] = cleared
      BY <1>1, <1>4, Posted
    <2>2. QED
      BY <1>1, <1>3, <1>4, <2>1
  <1>6. \A shown \in BOOLEAN : Settled(Append(Tail(queue), cleared), shown)
    BY <1>1, <1>4, SettledByClearing
  <1> USE DEF uiVars, muteVars, vars, Running, NetworkState, Main,
              IInv, TypeOK, Phases, Timers, NoVerdict, VerdictIsCurrent, VerdictHolds,
              ConnectedIsCall, DurationClears, MuteShows
  <1>7. TypeOK'
    <2>1. {duration, level, micMute, mute_, worker_, gotoStop_}' \subseteq BOOLEAN
      <3>1. duration' \in BOOLEAN /\ level' \in BOOLEAN
        BY <1>2, <1>3, Zenon DEF Shown
      <3>2. QED
        BY <1>3, <3>1, Zenon
    <2>2. currentUiState_' \in NetworkState
      BY <1>2, <1>3
    <2>3. QED
      BY <1>3, <1>5, <2>1, <2>2
  <1>8. MuteShows'
    BY <1>2, <1>3, Zenon DEF Shown
  <1>9. CASE e.type = "state"
    <2>1. NoVerdict'
      BY <1>1, <1>5, <1>9
    <2>2. currentUiState_' = e.value /\ duration' = duration
      BY <1>3, <1>9
    <2>3. (Phases /\ Timers /\ VerdictIsCurrent /\ VerdictHolds /\ ConnectedIsCall)'
      BY <1>1, <1>3, <1>9, <2>1, <2>2
    <2>4. DurationClears'
      <3>1. duration' \in BOOLEAN
        BY <1>7, Zenon
      <3>2. CASE e.value = "Disconnected"
        <4>1. Settled(Append(Tail(queue), cleared), duration')
          BY <1>6, <3>1, Zenon
        <4>2. queue' = Append(Tail(queue), cleared)
          BY <1>3, <1>9, <3>2
        <4>3. QED
          BY <4>1, <4>2, Zenon
      <3>3. CASE e.value # "Disconnected"
        BY <2>2, <3>3
      <3>4. QED
        BY <3>2, <3>3
    <2>5. QED
      BY <1>7, <1>8, <2>3, <2>4
  <1>10. CASE e.type # "state"
    <2>1. currentUiState_' = currentUiState_ /\ queue' = Tail(queue)
      BY <1>3, <1>10
    <2>2. NoVerdict => NoVerdict'
      BY <1>5
    <2>3. (Phases /\ Timers /\ ConnectedIsCall)'
      BY <1>3, <2>1, <2>2
    <2>4. VerdictIsCurrent'
      <3>1. ASSUME NEW i \in DOMAIN queue', queue'[i].type = "state"
            PROVE  /\ queue'[i].call = call' /\ currentUiState_' = "Connecting"
                   /\ \A j \in DOMAIN queue' : queue'[j].type = "state" => j = i
        <4>1. /\ i \in Nat /\ i + 1 \in DOMAIN queue /\ queue'[i] = queue[i + 1]
              /\ queue[i + 1].type = "state"
          BY <1>5, <3>1
        <4>2. /\ queue[i + 1].call = call /\ currentUiState_ = "Connecting"
              /\ \A j \in DOMAIN queue : queue[j].type = "state" => j = i + 1
          BY <4>1
        <4>3. \A j \in DOMAIN queue' : queue'[j].type = "state" => j + 1 = i + 1 /\ j \in Nat
          BY <1>5, <4>2
        <4>4. \A j \in DOMAIN queue' : queue'[j].type = "state" => j = i
          BY <4>1, <4>3
        <4>5. QED
          BY <1>3, <2>1, <4>1, <4>2, <4>4
      <3>2. QED
        BY <3>1
    <2>5. VerdictHolds'
      BY <1>3, <1>5, <2>1
    <2>6. DurationClears'
      <3>1. duration \in BOOLEAN /\ queue \in Seq(Event) /\ queue # <<>>
        BY <1>3, Zenon
      <3>2. Settled(queue, duration) => Settled(queue', duration')
        BY <1>3, <2>1, <3>1, SettledByTaking DEF e
      <3>3. QED
        BY <2>1, <3>2
    <2>7. QED
      BY <1>7, <1>8, <2>3, <2>4, <2>5, <2>6
  <1>11. QED
    BY <1>9, <1>10

(* The Worker's threads but for what they post. *)
LEMMA WorkerIInv ==
    IInv /\ (NetBegin \/ Return \/ OpenAudio \/ NetStop \/ CheckTimer \/ BeginCallback) => IInv'
  <1> SUFFICES ASSUME IInv,
                      NetBegin \/ Return \/ OpenAudio \/ NetStop \/ CheckTimer \/ BeginCallback
               PROVE  IInv'
    OBVIOUS
  <1> USE DEF uiVars, muteVars, vars, Running, NetworkState, Main,
              IInv, TypeOK, Phases, Timers, NoVerdict, VerdictIsCurrent, VerdictHolds,
              ConnectedIsCall, DurationClears, MuteShows
  <1>1. CASE NetBegin
    BY <1>1 DEF NetBegin
  <1>2. CASE Return
    BY <1>2 DEF Return
  <1>3. CASE OpenAudio
    BY <1>3 DEF OpenAudio
  <1>4. CASE NetStop
    BY <1>4 DEF NetStop
  <1>5. CASE CheckTimer
    BY <1>5 DEF CheckTimer
  <1>6. CASE BeginCallback
    BY <1>6 DEF BeginCallback
  <1>7. QED
    BY <1>1, <1>2, <1>3, <1>4, <1>5, <1>6

(* toggleState: the first verdict of its call, while the window says Connecting. *)
LEMMA ReportIInv == ASSUME IInv, NEW ok \in BOOLEAN, Report(ok) PROVE IInv'
  <1> DEFINE e == Verdict(ok)
  <1>1. /\ e \in Event /\ e.type = "state" /\ e.call = call
        /\ ok = TRUE => e.value = "Connected"
        /\ ok = FALSE => e.value = "Disconnected"
    <2>1. call \in Nat
      BY DEF IInv, TypeOK
    <2>2. QED
      BY <2>1, NewEvents
  <1>2. /\ net = "login" /\ net' = IF ok THEN "reported" ELSE "returning"
        /\ queue' = Append(queue, e)
        /\ UNCHANGED <<currentUiState_, main, duration, level, micMute, mute_, toggles,
                       call, worker_, timer, counted, audio, gotoStop_>>
    BY DEF Report, uiVars, muteVars
  <1> HIDE DEF e
  <1>3. /\ queue' \in Seq(Event)
        /\ \A i \in DOMAIN queue' : \/ i \in DOMAIN queue /\ queue'[i] = queue[i]
                                    \/ i = Len(queue) + 1 /\ queue'[i] = e
    BY <1>1, <1>2, Posted DEF IInv, TypeOK
  <1>4. /\ currentUiState_ = "Connecting" /\ NoVerdict /\ timer = "none"
        /\ main \in {"idle", "endpoint-", "joining-"}
    BY <1>2 DEF IInv, Phases, Timers
  <1>5. \A i \in DOMAIN queue' : queue'[i].type = "state" =>
           i = Len(queue) + 1 /\ queue'[i] = e
    BY <1>3, <1>4 DEF NoVerdict
  <1>6. TypeOK'
    BY <1>2, <1>3, Zenon DEF IInv, TypeOK
  <1>7. VerdictIsCurrent'
    BY <1>1, <1>2, <1>4, <1>5 DEF VerdictIsCurrent
  <1>8. VerdictHolds'
    BY <1>1, <1>2, <1>4, <1>5 DEF VerdictHolds
  <1>9. (Phases /\ Timers)'
    BY <1>2, <1>4 DEF IInv, Phases, Timers
  <1>10. (ConnectedIsCall /\ DurationClears /\ MuteShows)'
    BY <1>2, <1>4 DEF IInv, ConnectedIsCall, DurationClears, MuteShows
  <1>11. QED
    BY <1>6, <1>7, <1>8, <1>9, <1>10 DEF IInv

(* Nothing but a verdict matters to the verdicts. *)
LEMMA OtherEventIInv ==
    ASSUME IInv, NEW e \in Event, e.type # "state", queue' = Append(queue, e),
           timer' = timer \/ (timer = "sleep" /\ timer' = "check"),
           UNCHANGED <<uiVars, muteVars, call, worker_, net, gotoStop_>>
    PROVE  (Phases /\ Timers /\ VerdictIsCurrent /\ VerdictHolds /\ ConnectedIsCall
              /\ MuteShows)'
  <1>1. /\ NoVerdict => NoVerdict'
        /\ \A i \in DOMAIN queue' : queue'[i].type = "state" =>
              i \in DOMAIN queue /\ queue'[i] = queue[i]
    BY PostOther DEF IInv, TypeOK
  <1>2. (Phases /\ Timers /\ ConnectedIsCall /\ MuteShows)'
    BY <1>1 DEF uiVars, muteVars, IInv, Phases, Timers, ConnectedIsCall, MuteShows
  <1>3. VerdictIsCurrent'
    BY <1>1 DEF uiVars, IInv, VerdictIsCurrent
  <1>4. VerdictHolds'
    BY <1>1 DEF uiVars, IInv, VerdictHolds, Timers
  <1>5. QED
    BY <1>2, <1>3, <1>4

(* A duration is only posted in a call, which a window that says Disconnected has not. *)
LEMMA TickIInv == IInv /\ Tick => IInv'
  <1> SUFFICES ASSUME IInv, Tick PROVE IInv'
    OBVIOUS
  <1> DEFINE e == Duration(counted)
  <1>1. e \in Event /\ e.type # "state"
    <2>1. call \in Nat /\ counted \in BOOLEAN
      BY DEF IInv, TypeOK
    <2>2. QED
      BY <2>1, NewEvents
  <1>2. /\ timer = "sleep" /\ timer' = "check" /\ counted' = TRUE
        /\ queue' = Append(queue, e)
        /\ UNCHANGED <<uiVars, muteVars, call, worker_, net, audio, gotoStop_>>
    BY DEF Tick
  <1> HIDE DEF e
  <1>3. queue' \in Seq(Event)
    BY <1>1, <1>2, Posted DEF IInv, TypeOK
  <1>4. TypeOK'
    BY <1>2, <1>3, Zenon DEF IInv, TypeOK, uiVars, muteVars
  <1>5. DurationClears'
    BY <1>2 DEF uiVars, IInv, Timers, DurationClears
  <1>6. QED
    BY <1>1, <1>2, <1>4, <1>5, OtherEventIInv DEF IInv

LEMMA PostVolumeIInv == ASSUME IInv, NEW b \in BOOLEAN, PostVolume(b) PROVE IInv'
  <1> DEFINE e == Volume(b)
  <1>1. e \in Event /\ e.type = "volume"
    <2>1. call \in Nat
      BY DEF IInv, TypeOK
    <2>2. QED
      BY <2>1, NewEvents
  <1>2. /\ audio' = "on" /\ queue' = Append(queue, e)
        /\ UNCHANGED <<uiVars, muteVars, call, worker_, net, timer, counted, gotoStop_>>
    BY DEF PostVolume
  <1> HIDE DEF e
  <1>3. queue' \in Seq(Event)
    BY <1>1, <1>2, Posted DEF IInv, TypeOK
  <1>4. TypeOK'
    BY <1>2, <1>3, Zenon DEF IInv, TypeOK, uiVars, muteVars
  <1>5. DurationClears'
    <2>1. queue \in Seq(Event) /\ duration \in BOOLEAN /\ e.type # "duration"
      BY <1>1, Zenon DEF IInv, TypeOK
    <2>2. Settled(queue, duration) => Settled(queue', duration')
      BY <1>1, <1>2, <2>1, SettledByOther DEF uiVars
    <2>3. QED
      BY <1>2, <2>2 DEF uiVars, IInv, DurationClears
  <1>6. QED
    BY <1>1, <1>2, <1>4, <1>5, OtherEventIInv DEF IInv

LEMMA NextIInv == IInv /\ [Next]_vars => IInv'
  <1>1. ASSUME IInv, UNCHANGED vars PROVE IInv'
    BY <1>1 DEF vars, uiVars, muteVars, IInv, TypeOK, Phases, Timers, NoVerdict,
                VerdictIsCurrent, VerdictHolds, ConnectedIsCall, DurationClears, MuteShows
  <1>2. ASSUME IInv, Next PROVE IInv'
    BY <1>2, UserIInv, MainThreadIInv, HandleEventIInv, WorkerIInv, ReportIInv, TickIInv,
       PostVolumeIInv DEF Next, MainThread, NetThread, TimerThread, AudioThread
  <1>3. QED
    BY <1>1, <1>2

-------------------------------------------------------------------------------
THEOREM Invariant == Spec => []IInv
  BY InitIInv, NextIInv, PTL DEF Spec

(* Type correctness of the window, its queue and the call. *)
THEOREM TypeCorrect == Spec => []TypeOK
  <1>1. IInv => TypeOK
    BY DEF IInv
  <1>2. QED
    BY <1>1, Invariant, PTL

(* What the window says of the call is the present call's, and Connected is said only
   of one that has neither been denied nor stopped, although verdicts travel through
   a queue that outlives the Worker that posted them. *)
THEOREM StateStaysCurrent == Spec => []StateIsCurrent
  <1>1. IInv => VerdictIsCurrent /\ ConnectedIsCall
    BY DEF IInv
  <1>2. QED
    BY <1>1, Invariant, PTL DEF StateIsCurrent

(* A duration that was posted late is cleared by an event that was posted later, and a
   muted microphone shows no level. *)
THEOREM DisplayIsFresh == Spec => []NoStaleDisplay
  <1>1. IInv => NoStaleDisplay
    <2> SUFFICES ASSUME IInv PROVE NoStaleDisplay
      OBVIOUS
    <2>1. ASSUME currentUiState_ = "Disconnected", duration PROVE Waiting("duration") # 0
      <3> DEFINE found == {i \in DOMAIN queue : queue[i].type = "duration"}
      <3>1. found # {}
        BY <2>1 DEF IInv, DurationClears, Settled, Clears
      <3>2. IsFiniteSet(found)
        <4>1. queue \in Seq(Event)
          BY DEF IInv, TypeOK
        <4>2. DOMAIN queue = 1 .. Len(queue) /\ Len(queue) \in Nat
          BY <4>1, LenProperties
        <4>3. IsFiniteSet(DOMAIN queue)
          BY <4>2, FS_Interval
        <4>4. QED
          BY <4>3, FS_Subset
      <3>3. QED
        BY <3>1, <3>2, FS_EmptySet DEF Waiting
    <2>2. QED
      BY <2>1 DEF IInv, MuteShows, NoStaleDisplay
  <1>2. QED
    BY <1>1, Invariant, PTL

===============================================================================

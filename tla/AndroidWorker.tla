------------------------------ MODULE AndroidWorker ------------------------------
(***************************************************************************)
(* The Android client: the toggle button and onStart of MainActivity.java,   *)
(* and the two threads each call of its own Worker.java runs.  A hang-up only *)
(* lowers keepWorking: nobody waits for the threads, so that those of one     *)
(* call meet those of the next in the fields they share, and a Worker that    *)
(* onStart has replaced goes on by itself.                                    *)
(*                                                                          *)
(* Thread t is the t-th call: up[t] is run(), down[t] its DownStreamThread,   *)
(* and t also names the socket and the track they make.  Sound is measured    *)
(* in units of which a block of 10 ms has Block.  An array is made in one     *)
(* step and filled and stored in another, so that another thread may have     *)
(* replaced the one it is a copy of.  The listening threads of a Worker even  *)
(* share the buffer that datagrams are received in.                           *)
(***************************************************************************)
EXTENDS NetPacket, FiniteSets

CONSTANTS
    MaxStarts,    \* bound: calls
    MaxWorkers,   \* bound: Workers made by onStart
    Block,        \* units in 10 ms
    Reads,        \* units one AudioRecord.read may return
    MaxPcm,       \* bound: units that wait in pcmBuffer_mic
    Frame         \* the datagrams [type, size, len] that may come

ASSUME CallAssumption == /\ {MaxStarts, MaxWorkers, Block} \subseteq Nat \ {0}
                         /\ Reads \subseteq Nat \ {0} /\ MaxPcm \in Nat
ASSUME FrameAssumption ==
    Frame \subseteq [type : PayloadType, size : 0 .. SizeRange - 1, len : Nat]

VARIABLES
    checked,       \* the toggle button
    worker,        \* MainActivity.worker
    keepWorking, udpSocket, audioTrack, pcmBuffer_mic,     \* fields of each Worker
    started,       \* calls so far
    of,            \* the Worker of each call
    up, down,      \* program counters of its threads
    size, got,     \* run(): length of the array being made, units just read
    sock,          \* DownStreamThread: the socket it waits on in receive()
    playing,       \* tracks that play
    torn,          \* threads that another has received over in receivedBuffer
    crash,         \* the exception that ended the process, if any
    late,          \* history: rounds of a living thread since its Worker was stopped
    stale,         \* history: packets a living thread received on a replaced socket
    shared,        \* history: Workers that two runs have used at a time
    hurried        \* history: calls started while a thread was about to stop a track

fields == <<keepWorking, udpSocket, audioTrack, pcmBuffer_mic>>
activity == <<checked, worker, started, of>>
upVars == <<up, size, got>>
downVars == <<down, sock, playing, torn>>
history == <<late, stale, shared, hurried>>
vars == <<activity, fields, upVars, downVars, crash, history>>

Workers == 1 .. MaxWorkers
Threads == 1 .. MaxStarts
None == 0
Up == {"none", "begin", "login", "while", "read", "append", "blocks", "send", "trim",
       "keep", "ended"}
Down == {"none", "begin", "while", "receive", "blocked", "play", "stop", "ended"}
Gone == {"none", "ended"}

(* Every field within its type; the buffer's length only grows by what a read returns. *)
TypeOK ==
    /\ checked \in BOOLEAN
    /\ worker \in Workers /\ started \in 0 .. MaxStarts
    /\ of \in [Threads -> Workers]
    /\ keepWorking \in [Workers -> BOOLEAN]
    /\ udpSocket \in [Workers -> Threads \cup {None}]
    /\ audioTrack \in [Workers -> Threads \cup {None}]
    /\ pcmBuffer_mic \in [Workers -> 0 .. MaxPcm]
    /\ up \in [Threads -> Up] /\ down \in [Threads -> Down]
    /\ size \in [Threads -> 0 .. MaxPcm] /\ got \in [Threads -> Reads \cup {0}]
    /\ sock \in [Threads -> Threads \cup {None}]
    /\ playing \subseteq Threads
    /\ torn \subseteq Threads
    /\ crash \in {"no", "buffer", "socket", "native"}
    /\ late \in [{"up", "down"} \X Threads -> 0 .. 2] /\ stale \in [Threads -> 0 .. 2]
    /\ shared \subseteq Workers /\ hurried \subseteq Threads

Init ==
    /\ checked = FALSE /\ worker = 1
    /\ started = 0 /\ of = [t \in Threads |-> 1]
    /\ keepWorking = [w \in Workers |-> TRUE]
    /\ udpSocket = [w \in Workers |-> None] /\ audioTrack = [w \in Workers |-> None]
    /\ pcmBuffer_mic = [w \in Workers |-> 0]
    /\ up = [t \in Threads |-> "none"] /\ down = [t \in Threads |-> "none"]
    /\ size = [t \in Threads |-> 0] /\ got = [t \in Threads |-> 0]
    /\ sock = [t \in Threads |-> None] /\ playing = {} /\ torn = {}
    /\ crash = "no"
    /\ late = [x \in {"up", "down"} \X Threads |-> 0] /\ stale = [t \in Threads |-> 0]
    /\ shared = {} /\ hurried = {}

Running == crash = "no"
Forget(half, t) == late' = [late EXCEPT ![<<half, t>>] = 0]
Of(w) == {t \in 1 .. started : of[t] = w}
More(n) == IF n = 2 THEN 2 ELSE n + 1

-------------------------------------------------------------------------------
(* The activity, on the main thread. *)

(* onStart, when the user has left the app and comes back: a new Worker, whatever the
   old one is doing; the button stays as it was.  (Bound: a Worker that has made no
   call is like a new one, and is not counted.) *)
OnStart == /\ Running /\ worker < MaxWorkers /\ Of(worker) # {}
           /\ worker' = worker + 1
           /\ UNCHANGED <<checked, started, of, fields, upVars, downVars, crash, history>>

AsyncStart == /\ started' = started + 1
              /\ of' = [of EXCEPT ![started'] = worker]
              /\ up' = [up EXCEPT ![started'] = "begin"]
              /\ keepWorking' = [keepWorking EXCEPT ![worker] = TRUE]

ClickCall ==
    /\ Running /\ ~checked
    /\ started < MaxStarts
    /\ checked' = TRUE
    /\ AsyncStart
    /\ shared' = IF \E t \in Of(worker) : up[t] \notin Gone
                 THEN shared \cup {worker} ELSE shared
    /\ hurried' = IF \E t \in Of(worker) : down[t] = "stop"
                  THEN hurried \cup {started'} ELSE hurried
    /\ late' = [x \in DOMAIN late |-> IF of'[x[2]] = worker THEN 0 ELSE late[x]]
    /\ UNCHANGED <<worker, udpSocket, audioTrack, pcmBuffer_mic, size, got,
                   downVars, crash, stale>>

AsyncStop == keepWorking' = [keepWorking EXCEPT ![worker] = FALSE]

(* An address that is no IPv4 address: setChecked(false) calls the listener again,
   which stops a Worker that has not been started. *)
ClickInvalid == /\ Running /\ ~checked
                /\ AsyncStop
                /\ UNCHANGED <<activity, udpSocket, audioTrack, pcmBuffer_mic, upVars,
                               downVars, crash, history>>

ClickHangUp == /\ Running /\ checked
               /\ checked' = FALSE
               /\ AsyncStop
               /\ UNCHANGED <<worker, started, of, udpSocket, audioTrack,
                              pcmBuffer_mic, upVars, downVars, crash, history>>

-------------------------------------------------------------------------------
(* run(): the uplink thread. *)

At(t, pc) == Running /\ up[t] = pc
Goto(t, pc) == up' = [up EXCEPT ![t] = pc]
Throw(e) == crash' = e
UpOnly == UNCHANGED <<activity, downVars, stale, shared, hurried>>

(* A new socket takes the field of the Worker; without one the call goes on. *)
OpenSocket(t) ==
    /\ At(t, "begin")
    /\ \/ /\ Goto(t, "login")
          /\ udpSocket' = [udpSocket EXCEPT ![of[t]] = t]
          /\ stale' = [x \in Threads |-> IF of[x] = of[t] THEN 0 ELSE stale[x]]
       \/ Goto(t, "while") /\ UNCHANGED <<udpSocket, stale>>
    /\ UNCHANGED <<activity, keepWorking, audioTrack, pcmBuffer_mic, size, got, downVars,
                   crash, late, shared, hurried>>

(* The one LoginRequest; only if it could be sent is there a thread to listen. *)
Login(t) ==
    /\ At(t, "login")
    /\ Goto(t, "while")
    /\ down' \in {down, [down EXCEPT ![t] = "begin"]}
    /\ UNCHANGED <<activity, fields, size, got, sock, playing, torn, crash, history>>

UpWhile(t) ==
    /\ At(t, "while")
    /\ \/ keepWorking[of[t]] /\ Goto(t, "read") /\ UNCHANGED late
       \/ ~keepWorking[of[t]] /\ Goto(t, "ended") /\ Forget("up", t)
    /\ UpOnly /\ UNCHANGED <<fields, size, got, crash>>

Store_Twice(t) == pcmBuffer_mic' = [pcmBuffer_mic EXCEPT ![of[t]] = @ + size[t]]
Store(t) == pcmBuffer_mic' = [pcmBuffer_mic EXCEPT ![of[t]] = size[t]]

(* AudioRecord.read, and the array for what waits and what was read. *)
Read(t) ==
    /\ At(t, "read")
    /\ \/ Goto(t, "while") /\ UNCHANGED <<size, got>>
       \/ \E n \in Reads :
             /\ pcmBuffer_mic[of[t]] + n <= MaxPcm
             /\ size' = [size EXCEPT ![t] = pcmBuffer_mic[of[t]] + n]
             /\ got' = [got EXCEPT ![t] = n]
             /\ Goto(t, "append")
    /\ late' = IF keepWorking[of[t]] THEN late
               ELSE [late EXCEPT ![<<"up", t>>] = More(@)]
    /\ UpOnly /\ UNCHANGED <<fields, crash>>

(* Two copies into it, and the field: the buffer may have grown since. *)
Append(t) ==
    /\ At(t, "append")
    /\ IF pcmBuffer_mic[of[t]] + got[t] > size[t]
       THEN Throw("buffer") /\ UNCHANGED <<up, pcmBuffer_mic>>
       ELSE Store(t) /\ Goto(t, "blocks") /\ UNCHANGED crash
    /\ size' = [size EXCEPT ![t] = 0] /\ got' = [got EXCEPT ![t] = 0]
    /\ UpOnly /\ UNCHANGED <<keepWorking, udpSocket, audioTrack, late>>

WholeBlock_Any(n) == n > 0
WholeBlock(n) == n >= Block

Blocks(t) == /\ At(t, "blocks")
             /\ Goto(t, IF WholeBlock(pcmBuffer_mic[of[t]]) THEN "send" ELSE "while")
             /\ UpOnly /\ UNCHANGED <<fields, size, got, crash, late>>

(* The block is copied, encoded and sent.  An IOException is caught; a socket that was
   never made is not. *)
Send(t) == /\ At(t, "send")
           /\ CASE pcmBuffer_mic[of[t]] < Block -> Throw("buffer") /\ UNCHANGED up
                [] pcmBuffer_mic[of[t]] >= Block /\ udpSocket[of[t]] = None ->
                     Throw("socket") /\ UNCHANGED up
                [] OTHER -> Goto(t, "trim") /\ UNCHANGED crash
           /\ UpOnly /\ UNCHANGED <<fields, size, got, late>>

(* The array for the rest; its copy and the field. *)
Trim(t) == /\ At(t, "trim")
           /\ IF pcmBuffer_mic[of[t]] < Block
              THEN Throw("buffer") /\ UNCHANGED <<up, size>>
              ELSE /\ size' = [size EXCEPT ![t] = pcmBuffer_mic[of[t]] - Block]
                   /\ Goto(t, "keep") /\ UNCHANGED crash
           /\ UpOnly /\ UNCHANGED <<fields, got, late>>

Keep_Whole(t) ==
    /\ At(t, "keep")
    /\ Goto(t, "blocks")
    /\ size' = [size EXCEPT ![t] = 0]
    /\ UpOnly /\ UNCHANGED <<fields, got, crash, late>>

Keep(t) == /\ At(t, "keep")
           /\ IF pcmBuffer_mic[of[t]] < Block + size[t]
              THEN Throw("buffer") /\ UNCHANGED <<up, pcmBuffer_mic>>
              ELSE Store(t) /\ Goto(t, "blocks") /\ UNCHANGED crash
           /\ size' = [size EXCEPT ![t] = 0]
           /\ UpOnly /\ UNCHANGED <<keepWorking, udpSocket, audioTrack, got, late>>

Uplink(t) == \/ OpenSocket(t) \/ Login(t) \/ UpWhile(t) \/ Read(t) \/ Append(t)
             \/ Blocks(t) \/ Send(t) \/ Trim(t) \/ Keep(t)

-------------------------------------------------------------------------------
(* DownStreamThread. *)

Listening(t, pc) == Running /\ down[t] = pc
Turn(t, pc) == down' = [down EXCEPT ![t] = pc]
DownBut == UNCHANGED <<activity, keepWorking, udpSocket, pcmBuffer_mic, upVars, shared,
                       hurried>>
DownOnly == DownBut /\ UNCHANGED <<torn, crash>>

(* Entry.cpp, makePacket: whether there is a packet in the bytes received. *)
NativeParses(d) == d.len >= FixHeaderLength /\ d.len >= FixHeaderLength + d.size

(* Comfort noise is not played here. *)
IsSound(d) == d.type = "AudioMessage"

NewTrack(t) == /\ Listening(t, "begin")
               /\ Turn(t, "while")
               /\ audioTrack' = [audioTrack EXCEPT ![of[t]] = t]
               /\ playing' = playing \cup {t}
               /\ DownOnly /\ UNCHANGED <<sock, late, stale>>

DownWhile(t) == /\ Listening(t, "while")
                /\ Turn(t, IF keepWorking[of[t]] THEN "receive" ELSE "stop")
                /\ DownOnly /\ UNCHANGED <<audioTrack, sock, playing, late, stale>>

Receive_Own(t) ==
    /\ Listening(t, "receive")
    /\ Turn(t, "blocked")
    /\ sock' = [sock EXCEPT ![t] = t]
    /\ DownOnly /\ UNCHANGED <<audioTrack, playing, late, stale>>

Receive(t) == /\ Listening(t, "receive")
              /\ Turn(t, "blocked")
              /\ sock' = [sock EXCEPT ![t] = udpSocket[of[t]]]
              /\ DownOnly /\ UNCHANGED <<audioTrack, playing, late, stale>>

(* A datagram comes on the socket the thread waits on, into the buffer of the Worker,
   where another thread may have one it has not looked at yet. *)
Datagram(t) ==
    /\ Listening(t, "blocked")
    /\ Turn(t, "play")
    /\ torn' = (torn \ {t}) \cup {x \in Of(of[t]) \ {t} : down[x] = "play"}
    /\ stale' = IF sock[t] = udpSocket[of[t]] THEN stale
                ELSE [stale EXCEPT ![t] = More(@)]
    /\ sock' = [sock EXCEPT ![t] = None]
    /\ DownBut /\ UNCHANGED <<audioTrack, playing, crash, late>>

(* What is in the buffer by now, in the length of the datagram d that came: the bytes
   of d, or of whatever came later. *)
Bytes(t, d) == {[e EXCEPT !.len = d.len] : e \in IF t \in torn THEN Frame ELSE {d}}

(* getNetPacketType uses the packet without looking whether there is one; sound is
   decoded and written to the track of the field. *)
Play(t, bytes) ==
    /\ Listening(t, "play")
    /\ IF NativeParses(bytes)
       THEN /\ Turn(t, "while")
            /\ torn' = torn \ {t}
            /\ late' = IF IsSound(bytes) /\ ~keepWorking[of[t]]
                       THEN [late EXCEPT ![<<"down", t>>] = More(@)] ELSE late
            /\ UNCHANGED crash
       ELSE Throw("native") /\ UNCHANGED <<down, torn, late>>
    /\ DownBut /\ UNCHANGED <<audioTrack, sock, playing, stale>>

ReceiveFails_Stop(t) == /\ Listening(t, "blocked")
                        /\ Turn(t, "ended")
                        /\ playing' = playing \ {audioTrack[of[t]]}
                        /\ sock' = [sock EXCEPT ![t] = None]
                        /\ Forget("down", t) /\ stale' = [stale EXCEPT ![t] = 0]
                        /\ DownOnly /\ UNCHANGED audioTrack

(* The catch is outside the loop: the thread ends and its track is left as it is. *)
ReceiveFails(t) == /\ Listening(t, "blocked")
                   /\ Turn(t, "ended")
                   /\ sock' = [sock EXCEPT ![t] = None]
                   /\ Forget("down", t) /\ stale' = [stale EXCEPT ![t] = 0]
                   /\ DownOnly /\ UNCHANGED <<audioTrack, playing>>

(* The track of the field, which may be that of the next call. *)
StopTrack(t) == /\ Listening(t, "stop")
                /\ Turn(t, "ended")
                /\ playing' = playing \ {audioTrack[of[t]]}
                /\ Forget("down", t) /\ stale' = [stale EXCEPT ![t] = 0]
                /\ DownOnly /\ UNCHANGED <<audioTrack, sock>>

Downlink(t) == \/ NewTrack(t) \/ DownWhile(t) \/ Receive(t) \/ Datagram(t)
               \/ (\E d \in Frame : \E bytes \in Bytes(t, d) : Play(t, bytes))
               \/ ReceiveFails(t) \/ StopTrack(t)

Next == \/ OnStart \/ ClickCall \/ ClickInvalid \/ ClickHangUp
        \/ \E t \in Threads : Uplink(t) \/ Downlink(t)

Spec == Init /\ [][Next]_vars

(* AudioRecord.read returns every few milliseconds and nothing else makes run() wait;
   that a datagram ever comes is not assumed. *)
FairSpec == Spec /\ \A t \in Threads : WF_vars(Uplink(t))
-------------------------------------------------------------------------------
(* Properties. *)

(* What an ended call leaves behind fades away.  A stopped thread goes round its loop
   at most once more: one read of the microphone, one packet played, also when a
   second hang-up meets threads of several calls; and a listener that a new call has
   revived takes at most one packet of the old call's socket, because it reads the
   field again for each receive. *)
OneRoundLeft == /\ \A x \in DOMAIN late : late[x] <= 1
                /\ \A t \in Threads : stale[t] <= 1

(* A call that has its Worker to itself does not end the app, as long as there is a
   socket and the network brings whole packets.  The uplink runs off an array only
   when a call was started before the thread of the last had ended on the same Worker,
   and lacks a socket only when none was ever made; the native code finds no packet
   only when another thread of the Worker received over it. *)
CrashIsExplained ==
    /\ crash = "buffer" => shared # {}
    /\ crash = "socket" => \E w \in Workers : udpSocket[w] = None /\ Of(w) # {}
    /\ crash = "native" => \/ \E w \in Workers : Cardinality(Of(w)) > 1
                           \/ \E d \in Frame : ~NativeParses(d)

Newest(t) == \A x \in Of(of[t]) : x <= t
InLoop(t) == down[t] \in {"while", "receive", "blocked", "play"}

(* The track of the call that is on plays, whatever the threads of earlier calls do,
   unless one of them was just about to stop its own when the call was started. *)
TrackPlays ==
    \A t \in 1 .. started : Newest(t) /\ keepWorking[of[t]] /\ InLoop(t)
                              => t \in playing \/ t \in hurried

(* A Worker that is stopped for good falls silent: every uplink thread of it ends,
   those that an earlier call left to it included. *)
StoppedFallsSilent ==
    \A w \in Workers :
        <>[](~keepWorking[w] /\ Running) => <>[](\A t \in Of(w) : up[t] = "ended")
===============================================================================

--------------------------- MODULE AndroidWorkerProofs ---------------------------
(***************************************************************************)
(* Theorems about the Android client, for any number of calls and of Workers, *)
(* any lengths that the microphone delivers and any datagrams.              *)
(***************************************************************************)
EXTENDS AndroidWorker, FiniteSetTheorems, TLAPS

USE CallAssumption

-------------------------------------------------------------------------------
(* The inductive invariant. *)

(* A thread has begun when its call was started, and listens only then. *)
Started == \A t \in Threads : /\ up[t] = "none" <=> t > started
                              /\ down[t] # "none" => t <= started

(* Who has gone one round since the hang-up is not where a second one begins. *)
LateUp == \A t \in Threads :
    \/ late[<<"up", t>>] = 0
    \/ late[<<"up", t>>] = 1 /\ ~keepWorking[of[t]] /\ up[t] # "read"
LateDown == \A t \in Threads :
    \/ late[<<"down", t>>] = 0
    \/ /\ late[<<"down", t>>] = 1 /\ ~keepWorking[of[t]]
       /\ down[t] \notin {"receive", "blocked", "play"}

(* Who has taken a packet from the old socket waits on the new one from then on. *)
StaleOnce == \A t \in Threads :
    \/ stale[t] = 0
    \/ stale[t] = 1 /\ (down[t] = "blocked" => sock[t] = udpSocket[of[t]])

(* The track of a Worker is one of its calls', and no thread stops it in the middle of
   the call but one that was about to when the call was started. *)
OwnTrack == \A w \in Workers : audioTrack[w] # None => audioTrack[w] \in Of(w)
StopsOnlyHurried ==
    \A t \in Threads : \A x \in Threads :
       t <= started /\ x <= started /\ of[x] = of[t] /\ Newest(t) /\ keepWorking[of[t]]
          /\ down[x] = "stop" => t \in hurried

(* Runs that do not share their Worker with another are alone on it, and find the
   buffer as they left it. *)
Alone == \A t \in Threads : \A x \in Threads :
    of[t] = of[x] /\ of[t] \notin shared /\ up[t] \notin Gone /\ up[x] \notin Gone => t = x
Lengths == \A t \in Threads : of[t] \notin shared =>
    /\ up[t] = "append" => size[t] = pcmBuffer_mic[of[t]] + got[t]
    /\ up[t] \in {"send", "trim"} => pcmBuffer_mic[of[t]] >= Block
    /\ up[t] = "keep" => pcmBuffer_mic[of[t]] = Block + size[t]

(* A packet is torn by another thread of the Worker. *)
TornByOther == \A t \in torn : t \in Of(of[t]) /\ \E x \in Of(of[t]) : x # t

IInv == /\ TypeOK /\ Started /\ LateUp /\ LateDown /\ StaleOnce
        /\ OwnTrack /\ StopsOnlyHurried /\ Alone /\ Lengths /\ TornByOther
        /\ TrackPlays /\ CrashIsExplained

-------------------------------------------------------------------------------
(* Each thread's step, one of which every step of a thread is. *)

Step(t) == Uplink(t) \/ Downlink(t)
Main == OnStart \/ ClickCall \/ ClickInvalid \/ ClickHangUp

LEMMA Initially == Init => IInv
  <1> SUFFICES ASSUME Init PROVE IInv
    OBVIOUS
  <1> USE DEF Init
  <1>1. checked \in BOOLEAN /\ keepWorking \in [Workers -> BOOLEAN]
    OBVIOUS
  <1>2. TypeOK
    BY <1>1 DEF TypeOK, Workers, Threads, Up, Down, None
  <1>3. Started
    BY DEF Started, Threads
  <1>4. LateUp /\ LateDown /\ StaleOnce
    BY DEF LateUp, LateDown, StaleOnce
  <1>5. OwnTrack /\ StopsOnlyHurried
    BY DEF OwnTrack, StopsOnlyHurried
  <1>6. Alone /\ Lengths /\ TornByOther
    BY DEF Alone, Lengths, TornByOther, Gone
  <1>7. TrackPlays /\ CrashIsExplained
    BY DEF TrackPlays, CrashIsExplained, Threads
  <1>8. QED
    BY <1>2, <1>3, <1>4, <1>5, <1>6, <1>7 DEF IInv

LEMMA MainTypes ==
    ASSUME TypeOK, Main
    PROVE  TypeOK'
  <1>0. keepWorking \in [Workers -> BOOLEAN] /\ checked \in BOOLEAN /\ worker \in Workers
    BY DEF TypeOK
  <1>1. CASE OnStart
    BY <1>1 DEF OnStart, TypeOK, Workers, fields, upVars, downVars, history
  <1>2. CASE ClickCall
    <2> USE <1>2 DEF ClickCall, AsyncStart
    <2>1. checked' \in BOOLEAN /\ keepWorking' \in [Workers -> BOOLEAN]
      BY <1>0
    <2>2. started' \in Threads /\ started' \in 0 .. MaxStarts
      BY DEF TypeOK, Threads
    <2>3. of' \in [Threads -> Workers] /\ up' \in [Threads -> Up]
      BY <2>2 DEF TypeOK, Up
    <2>4. late' \in [{"up", "down"} \X Threads -> 0 .. 2]
      BY DEF TypeOK
    <2>5. shared' \subseteq Workers /\ hurried' \subseteq Threads
      BY <2>2 DEF TypeOK
    <2>6. QED
      BY <2>1, <2>2, <2>3, <2>4, <2>5 DEF TypeOK, downVars
  <1>3. CASE ClickInvalid \/ ClickHangUp
    <2> USE <1>3 DEF ClickInvalid, ClickHangUp, AsyncStop, activity
    <2>1. checked' \in BOOLEAN /\ keepWorking' \in [Workers -> BOOLEAN]
      BY <1>0
    <2>2. QED
      BY <2>1 DEF TypeOK, upVars, downVars, history
  <1>4. QED
    BY <1>1, <1>2, <1>3 DEF Main

LEMMA MoreType == \A n \in 0 .. 2 : More(n) \in 0 .. 2
  BY DEF More

LEMMA ForgetType ==
    ASSUME TypeOK, NEW half \in {"up", "down"}, NEW t \in Threads, Forget(half, t)
    PROVE  late' \in [{"up", "down"} \X Threads -> 0 .. 2]
  BY DEF TypeOK, Forget

LEMMA UplinkTypes ==
    ASSUME TypeOK, NEW t \in Threads, Uplink(t)
    PROVE  TypeOK'
  <1>0. keepWorking \in [Workers -> BOOLEAN] /\ checked \in BOOLEAN /\ of[t] \in Workers
    BY DEF TypeOK
  <1> USE DEF At, Goto, Throw, UpOnly, activity, downVars
  <1>1. CASE OpenSocket(t)
    <2> USE <1>1 DEF OpenSocket
    <2>1. stale' \in [Threads -> 0 .. 2] /\ up' \in [Threads -> Up]
      BY DEF TypeOK, Up
    <2>2. udpSocket' \in [Workers -> Threads \cup {None}]
      BY DEF TypeOK
    <2>3. QED
      BY <1>0, <2>1, <2>2 DEF TypeOK
  <1>2. CASE Login(t)
    <2> USE <1>2 DEF Login
    <2>1. up' \in [Threads -> Up] /\ down' \in [Threads -> Down]
      BY DEF TypeOK, Up, Down
    <2>2. QED
      BY <1>0, <2>1 DEF TypeOK, fields, history
  <1>3. CASE UpWhile(t)
    <2> USE <1>3 DEF UpWhile
    <2>1. up' \in [Threads -> Up]
      BY DEF TypeOK, Up
    <2>2. late' \in [{"up", "down"} \X Threads -> 0 .. 2]
      BY ForgetType DEF TypeOK
    <2>3. QED
      BY <1>0, <2>1, <2>2 DEF TypeOK, fields
  <1>4. CASE Read(t)
    <2> USE <1>4 DEF Read
    <2>1. up' \in [Threads -> Up] /\ got' \in [Threads -> Reads \cup {0}]
      BY DEF TypeOK, Up
    <2>2. size' \in [Threads -> 0 .. MaxPcm]
      BY <1>0 DEF TypeOK
    <2>3. late' \in [{"up", "down"} \X Threads -> 0 .. 2]
      BY MoreType DEF TypeOK
    <2>4. QED
      BY <1>0, <2>1, <2>2, <2>3 DEF TypeOK, fields
  <1>5. CASE Append(t)
    <2> USE <1>5 DEF Append, Store
    <2>1. up' \in [Threads -> Up] /\ got' \in [Threads -> Reads \cup {0}]
      BY DEF TypeOK, Up
    <2>2. size' \in [Threads -> 0 .. MaxPcm] /\ pcmBuffer_mic' \in [Workers -> 0 .. MaxPcm]
      BY DEF TypeOK
    <2>3. QED
      BY <1>0, <2>1, <2>2 DEF TypeOK
  <1>6. CASE Blocks(t)
    <2>1. up' \in [Threads -> Up]
      BY <1>6 DEF Blocks, TypeOK, Up
    <2>2. QED
      BY <1>0, <1>6, <2>1 DEF Blocks, TypeOK, fields
  <1>7. CASE Send(t)
    <2>1. up' \in [Threads -> Up] /\ crash' \in {"no", "buffer", "socket", "native"}
      BY <1>7 DEF Send, TypeOK, Up
    <2>2. QED
      BY <1>0, <1>7, <2>1 DEF Send, TypeOK, fields
  <1>8. CASE Trim(t)
    <2> USE <1>8 DEF Trim
    <2>1. up' \in [Threads -> Up]
      BY DEF TypeOK, Up
    <2>2. size' \in [Threads -> 0 .. MaxPcm]
      BY <1>0 DEF TypeOK
    <2>3. QED
      BY <1>0, <2>1, <2>2 DEF TypeOK, fields
  <1>9. CASE Keep(t)
    <2> USE <1>9 DEF Keep, Store
    <2>1. up' \in [Threads -> Up]
      BY DEF TypeOK, Up
    <2>2. size' \in [Threads -> 0 .. MaxPcm] /\ pcmBuffer_mic' \in [Workers -> 0 .. MaxPcm]
      BY DEF TypeOK
    <2>3. QED
      BY <1>0, <2>1, <2>2 DEF TypeOK
  <1>10. QED
    BY <1>1, <1>2, <1>3, <1>4, <1>5, <1>6, <1>7, <1>8, <1>9 DEF Uplink

LEMMA DownlinkTypes ==
    ASSUME TypeOK, NEW t \in Threads, Downlink(t)
    PROVE  TypeOK'
  <1>0. keepWorking \in [Workers -> BOOLEAN] /\ checked \in BOOLEAN /\ of[t] \in Workers
    BY DEF TypeOK
  <1> USE DEF Listening, Turn, Throw, DownOnly, DownBut, activity, upVars
  <1>1. CASE NewTrack(t)
    <2> USE <1>1 DEF NewTrack
    <2>1. down' \in [Threads -> Down] /\ audioTrack' \in [Workers -> Threads \cup {None}]
      BY DEF TypeOK, Down
    <2>2. QED
      BY <1>0, <2>1 DEF TypeOK
  <1>2. CASE DownWhile(t)
    <2>1. down' \in [Threads -> Down]
      BY <1>2 DEF DownWhile, TypeOK, Down
    <2>2. QED
      BY <1>0, <1>2, <2>1 DEF DownWhile, TypeOK
  <1>3. CASE Receive(t)
    <2> USE <1>3 DEF Receive
    <2>1. down' \in [Threads -> Down] /\ sock' \in [Threads -> Threads \cup {None}]
      BY <1>0 DEF TypeOK, Down
    <2>2. QED
      BY <1>0, <2>1 DEF TypeOK
  <1>4. CASE Datagram(t)
    <2> USE <1>4 DEF Datagram
    <2>1. down' \in [Threads -> Down] /\ sock' \in [Threads -> Threads \cup {None}]
      BY DEF TypeOK, Down
    <2>2. torn' \subseteq Threads
      BY DEF TypeOK, Of, Threads
    <2>3. stale' \in [Threads -> 0 .. 2]
      BY MoreType DEF TypeOK
    <2>4. QED
      BY <1>0, <2>1, <2>2, <2>3 DEF TypeOK
  <1>5. ASSUME NEW bytes, Play(t, bytes) PROVE TypeOK'
    <2> USE <1>5 DEF Play
    <2>1. down' \in [Threads -> Down] /\ crash' \in {"no", "buffer", "socket", "native"}
      BY DEF TypeOK, Down
    <2>2. torn' \subseteq Threads /\ late' \in [{"up", "down"} \X Threads -> 0 .. 2]
      BY MoreType DEF TypeOK
    <2>3. QED
      BY <1>0, <2>1, <2>2 DEF TypeOK
  <1>6. CASE ReceiveFails(t) \/ StopTrack(t)
    <2> USE <1>6 DEF ReceiveFails, StopTrack
    <2>1. down' \in [Threads -> Down] /\ sock' \in [Threads -> Threads \cup {None}]
      BY DEF TypeOK, Down
    <2>2. late' \in [{"up", "down"} \X Threads -> 0 .. 2] /\ stale' \in [Threads -> 0 .. 2]
      BY ForgetType DEF TypeOK
    <2>3. playing' \subseteq Threads
      BY DEF TypeOK
    <2>4. QED
      BY <1>0, <2>1, <2>2, <2>3 DEF TypeOK
  <1>7. QED
    BY <1>1, <1>2, <1>3, <1>4, <1>5, <1>6 DEF Downlink

-------------------------------------------------------------------------------
(* What the steps leave alone. *)

Kept == UNCHANGED <<activity, keepWorking, shared, hurried>>

LEMMA MainFrame ==
    ASSUME TypeOK, Main
    PROVE  /\ Running /\ UNCHANGED <<udpSocket, audioTrack, pcmBuffer_mic, size, got,
                                     downVars, crash, stale>>
           /\ \/ ClickCall
              \/ /\ UNCHANGED <<started, of, up, history>>
                 /\ \A w \in Workers : keepWorking'[w] => keepWorking[w]
  <1>1. CASE OnStart
    BY <1>1 DEF OnStart, fields, upVars, history
  <1>2. CASE ClickCall
    BY <1>2 DEF ClickCall
  <1>3. CASE ClickInvalid \/ ClickHangUp
    <2>1. keepWorking \in [Workers -> BOOLEAN] /\ worker \in Workers
      BY DEF TypeOK
    <2>2. keepWorking' = [keepWorking EXCEPT ![worker] = FALSE]
      BY <1>3 DEF ClickInvalid, ClickHangUp, AsyncStop
    <2>3. \A w \in Workers : keepWorking'[w] => keepWorking[w]
      BY <2>1, <2>2
    <2>4. QED
      BY <1>3, <2>3 DEF ClickInvalid, ClickHangUp, activity, upVars, history
  <1>4. QED
    BY <1>1, <1>2, <1>3 DEF Main

(* The new call is that of a thread that had not begun, and the newest of its Worker. *)
LEMMA NewCall ==
    ASSUME TypeOK, Started, ClickCall, NEW n, n = started + 1
    PROVE  /\ Running /\ started' = n /\ n \in Threads /\ started \in Nat
           /\ worker \in Workers
           /\ of' \in [Threads -> Workers] /\ of'[n] = worker
           /\ \A t \in Threads \ {n} : of'[t] = of[t] /\ up'[t] = up[t]
           /\ up'[n] = "begin" /\ up[n] = "none" /\ down[n] = "none"
           /\ keepWorking'[worker] = TRUE
           /\ \A w \in Workers \ {worker} : keepWorking'[w] = keepWorking[w]
  <1>1. /\ started' = n /\ n \in Threads /\ started \in Nat /\ worker \in Workers
        /\ of' = [of EXCEPT ![n] = worker] /\ up' = [up EXCEPT ![n] = "begin"]
        /\ keepWorking' = [keepWorking EXCEPT ![worker] = TRUE]
        /\ of \in [Threads -> Workers] /\ up \in [Threads -> Up]
    BY DEF ClickCall, AsyncStart, TypeOK, Threads
  <1>2. keepWorking \in [Workers -> BOOLEAN]
    BY DEF TypeOK
  <1>3. up[n] = "none" /\ down[n] = "none"
    BY <1>1 DEF Started
  <1>4. keepWorking'[worker] = TRUE
        /\ \A w \in Workers \ {worker} : keepWorking'[w] = keepWorking[w]
    BY <1>1, <1>2
  <1>5. /\ of' \in [Threads -> Workers] /\ of'[n] = worker /\ up'[n] = "begin"
        /\ \A t \in Threads \ {n} : of'[t] = of[t] /\ up'[t] = up[t]
    BY <1>1
  <1>6. QED
    BY <1>1, <1>3, <1>4, <1>5 DEF ClickCall

LEMMA UplinkFrame ==
    ASSUME TypeOK, NEW t \in Threads, Uplink(t)
    PROVE  /\ Running /\ Kept /\ UNCHANGED <<audioTrack, sock, playing, torn>>
           /\ up[t] # "none" /\ up'[t] # "none" /\ up[t] # "ended"
           /\ \A x \in Threads \ {t} :
                 /\ up'[x] = up[x] /\ down'[x] = down[x]
                 /\ size'[x] = size[x] /\ got'[x] = got[x]
           /\ down'[t] = down[t] \/ (down'[t] = "begin" /\ up[t] = "login")
           /\ \A w \in Workers \ {of[t]} : pcmBuffer_mic'[w] = pcmBuffer_mic[w]
  <1> USE DEF At, Goto, Throw, UpOnly, downVars, Kept, TypeOK, fields, history, Store
  <1>1. CASE OpenSocket(t)
    BY <1>1 DEF OpenSocket
  <1>2. CASE Login(t)
    BY <1>2 DEF Login
  <1>3. CASE UpWhile(t)
    BY <1>3 DEF UpWhile
  <1>4. CASE Read(t)
    BY <1>4 DEF Read
  <1>5. CASE Append(t)
    BY <1>5 DEF Append
  <1>6. CASE Blocks(t)
    BY <1>6 DEF Blocks
  <1>7. CASE Send(t)
    BY <1>7 DEF Send
  <1>8. CASE Trim(t)
    BY <1>8 DEF Trim
  <1>9. CASE Keep(t)
    BY <1>9 DEF Keep
  <1>10. QED
    BY <1>1, <1>2, <1>3, <1>4, <1>5, <1>6, <1>7, <1>8, <1>9 DEF Uplink

LEMMA DownlinkFrame ==
    ASSUME TypeOK, NEW t \in Threads, Downlink(t)
    PROVE  /\ Running /\ Kept /\ UNCHANGED <<udpSocket, pcmBuffer_mic, upVars>>
           /\ down[t] # "none"
           /\ \A x \in Threads \ {t} : down'[x] = down[x] /\ sock'[x] = sock[x]
  <1> USE DEF Listening, Turn, DownOnly, DownBut, Kept, TypeOK
  <1>1. CASE NewTrack(t)
    BY <1>1 DEF NewTrack
  <1>2. CASE DownWhile(t)
    BY <1>2 DEF DownWhile
  <1>3. CASE Receive(t)
    BY <1>3 DEF Receive
  <1>4. CASE Datagram(t)
    BY <1>4 DEF Datagram
  <1>5. ASSUME NEW bytes, Play(t, bytes)
        PROVE  /\ Running /\ Kept /\ UNCHANGED <<udpSocket, pcmBuffer_mic, upVars>>
               /\ down[t] # "none"
               /\ \A x \in Threads \ {t} : down'[x] = down[x] /\ sock'[x] = sock[x]
    BY <1>5 DEF Play
  <1>6. CASE ReceiveFails(t) \/ StopTrack(t)
    BY <1>6 DEF ReceiveFails, StopTrack
  <1>7. QED
    BY <1>1, <1>2, <1>3, <1>4, <1>5, <1>6 DEF Downlink

LEMMA StartedStep ==
    ASSUME IInv, Next
    PROVE  Started'
  <1> USE DEF IInv
  <1>1. CASE Main
    <2>1. CASE ClickCall
      <3> DEFINE n == started + 1
      <3>1. /\ started' = n /\ started \in Nat /\ n \in Threads
            /\ \A t \in Threads \ {n} : up'[t] = up[t]
            /\ up'[n] = "begin" /\ down[n] = "none" /\ down' = down
        BY <1>1, <2>1, NewCall, MainFrame DEF downVars
      <3> HIDE DEF n
      <3>2. ASSUME NEW t \in Threads
            PROVE  (up'[t] = "none" <=> t > n) /\ (down[t] # "none" => t <= n)
        <4>1. CASE t = n
          BY <3>1, <4>1 DEF Threads
        <4>2. CASE t # n
          <5>1. (up[t] = "none" <=> t > started) /\ (down[t] # "none" => t <= started)
            BY DEF Started
          <5>2. (t > n <=> t > started) /\ (t <= started => t <= n)
            BY <3>1, <4>2 DEF Threads, n
          <5>3. QED
            BY <3>1, <4>2, <5>1, <5>2
        <4>3. QED
          BY <4>1, <4>2
      <3>3. QED
        BY <3>1, <3>2 DEF Started
    <2>2. CASE ~ClickCall
      BY <1>1, <2>2, MainFrame DEF Started, downVars
    <2>3. QED
      BY <2>1, <2>2
  <1>2. ASSUME NEW t \in Threads, Uplink(t) PROVE Started'
    <2>1. t <= started
      <3>1. up[t] # "none"
        BY <1>2, UplinkFrame
      <3>2. started \in Nat /\ t \in Nat
        BY DEF TypeOK, Threads
      <3>3. QED
        BY <3>1, <3>2 DEF Started
    <2>2. QED
      BY <1>2, <2>1, UplinkFrame DEF Started, Kept, activity, TypeOK, Threads
  <1>3. ASSUME NEW t \in Threads, Downlink(t) PROVE Started'
    BY <1>3, DownlinkFrame DEF Started, Kept, activity, upVars
  <1>4. QED
    BY <1>1, <1>2, <1>3 DEF Next, Main

-------------------------------------------------------------------------------
(* Nobody goes a second round. *)

(* A call starts afresh with what is late of its Worker. *)
LEMMA NewCallForgets ==
    ASSUME TypeOK, ClickCall, NEW half \in {"up", "down"}, NEW t \in Threads
    PROVE  late'[<<half, t>>] = IF of'[t] = worker THEN 0 ELSE late[<<half, t>>]
  <1>1. late' = [x \in DOMAIN late |-> IF of'[x[2]] = worker THEN 0 ELSE late[x]]
    BY DEF ClickCall
  <1>2. <<half, t>> \in DOMAIN late
    BY DEF TypeOK
  <1>3. QED
    BY <1>1, <1>2

LEMMA LateUpStep == ASSUME IInv, Next PROVE LateUp'
  <1> USE DEF IInv
  <1>0. of \in [Threads -> Workers]
    BY DEF TypeOK
  <1>1. ASSUME ClickCall, NEW x \in Threads
        PROVE  \/ late'[<<"up", x>>] = 0
               \/ late'[<<"up", x>>] = 1 /\ ~keepWorking'[of'[x]] /\ up'[x] # "read"
    <2>1. CASE of'[x] = worker
      BY <1>1, <2>1, NewCallForgets
    <2>2. CASE of'[x] # worker
      <3>1. /\ x # started + 1 /\ of'[x] = of[x] /\ up'[x] = up[x]
            /\ keepWorking'[of[x]] = keepWorking[of[x]]
        BY <1>0, <1>1, <2>2, NewCall
      <3>2. late'[<<"up", x>>] = late[<<"up", x>>]
        BY <1>1, <2>2, NewCallForgets
      <3>3. QED
        BY <3>1, <3>2 DEF LateUp
    <2>3. QED
      BY <2>1, <2>2
  <1>2. CASE Main /\ ~ClickCall
    BY <1>0, <1>2, MainFrame DEF LateUp, history
  <1>3. ASSUME NEW t \in Threads, Uplink(t), NEW x \in Threads
        PROVE  \/ late'[<<"up", x>>] = 0
               \/ late'[<<"up", x>>] = 1 /\ ~keepWorking'[of'[x]] /\ up'[x] # "read"
    <2>0. UNCHANGED <<of, keepWorking>>
      BY <1>3, UplinkFrame DEF Kept, activity
    <2>1. CASE x # t
      <3>1. late'[<<"up", x>>] = late[<<"up", x>>]
        <4>1. CASE UpWhile(t) \/ Read(t)
          BY <2>1, <4>1 DEF UpWhile, Read, Forget, TypeOK
        <4>2. CASE ~UpWhile(t) /\ ~Read(t)
          BY <1>3, <4>2 DEF Uplink, OpenSocket, Login, Append, Blocks, Send, Trim, Keep,
                            history
        <4>3. QED
          BY <4>1, <4>2
      <3>2. up'[x] = up[x]
        BY <1>3, <2>1, UplinkFrame
      <3>3. QED
        BY <2>0, <3>1, <3>2 DEF LateUp
    <2>2. CASE x = t /\ UpWhile(t)
      <3>1. CASE keepWorking[of[t]]
        BY <2>0, <2>2, <3>1 DEF LateUp, UpWhile
      <3>2. CASE ~keepWorking[of[t]]
        BY <2>2, <3>2 DEF UpWhile, Forget, TypeOK
      <3>3. QED
        BY <3>1, <3>2
    <2>3. CASE x = t /\ Read(t)
      <3>1. up[t] = "read" /\ late[<<"up", t>>] = 0 /\ up'[t] \in {"while", "append"}
        BY <2>3 DEF LateUp, Read, At, Goto, TypeOK
      <3>2. late'[<<"up", t>>] = IF keepWorking[of[t]] THEN 0 ELSE 1
        BY <2>3, <3>1 DEF Read, TypeOK, More
      <3>3. QED
        BY <2>0, <2>3, <3>1, <3>2
    <2>4. CASE x = t /\ ~UpWhile(t) /\ ~Read(t)
      <3>1. late' = late
        BY <1>3, <2>4 DEF Uplink, OpenSocket, Login, Append, Blocks, Send, Trim, Keep,
                          history
      <3>2. up'[t] # "read"
        BY <1>3, <2>4 DEF Uplink, OpenSocket, Login, Append, Blocks, Send, Trim, Keep, At,
                          Goto, TypeOK
      <3>3. QED
        BY <2>0, <2>4, <3>1, <3>2 DEF LateUp
    <2>5. QED
      BY <2>1, <2>2, <2>3, <2>4
  <1>4. ASSUME NEW t \in Threads, Downlink(t), NEW x \in Threads
        PROVE  \/ late'[<<"up", x>>] = 0
               \/ late'[<<"up", x>>] = 1 /\ ~keepWorking'[of'[x]] /\ up'[x] # "read"
    <2>1. UNCHANGED <<of, keepWorking, up>>
      BY <1>4, DownlinkFrame DEF Kept, activity, upVars
    <2>2. late'[<<"up", x>>] = late[<<"up", x>>]
      BY <1>4 DEF Downlink, NewTrack, DownWhile, Receive, Datagram, Play, ReceiveFails,
                  StopTrack, Forget, TypeOK
    <2>3. QED
      BY <2>1, <2>2 DEF LateUp
  <1>5. QED
    BY <1>1, <1>2, <1>3, <1>4 DEF Next, Main, LateUp

LEMMA LateDownStep == ASSUME IInv, Next PROVE LateDown'
  <1> USE DEF IInv
  <1> DEFINE Waits(pc) == pc \in {"receive", "blocked", "play"}
  <1>0. of \in [Threads -> Workers]
    BY DEF TypeOK
  <1>1. ASSUME ClickCall, NEW x \in Threads
        PROVE  \/ late'[<<"down", x>>] = 0
               \/ late'[<<"down", x>>] = 1 /\ ~keepWorking'[of'[x]] /\ ~Waits(down'[x])
    <2>1. CASE of'[x] = worker
      BY <1>1, <2>1, NewCallForgets
    <2>2. CASE of'[x] # worker
      <3>1. /\ x # started + 1 /\ of'[x] = of[x] /\ down' = down
            /\ keepWorking'[of[x]] = keepWorking[of[x]]
        BY <1>0, <1>1, <2>2, NewCall, MainFrame DEF downVars, Main
      <3>2. late'[<<"down", x>>] = late[<<"down", x>>]
        BY <1>1, <2>2, NewCallForgets
      <3>3. QED
        BY <3>1, <3>2 DEF LateDown
    <2>3. QED
      BY <2>1, <2>2
  <1>2. CASE Main /\ ~ClickCall
    BY <1>0, <1>2, MainFrame DEF LateDown, history, downVars
  <1>3. ASSUME NEW t \in Threads, Uplink(t), NEW x \in Threads
        PROVE  \/ late'[<<"down", x>>] = 0
               \/ late'[<<"down", x>>] = 1 /\ ~keepWorking'[of'[x]] /\ ~Waits(down'[x])
    <2>1. UNCHANGED <<of, keepWorking>> /\ (down'[x] = down[x] \/ down'[x] = "begin")
      BY <1>3, UplinkFrame DEF Kept, activity
    <2>2. late'[<<"down", x>>] = late[<<"down", x>>]
      <3>1. CASE UpWhile(t) \/ Read(t)
        BY <3>1 DEF UpWhile, Read, Forget, TypeOK
      <3>2. CASE ~UpWhile(t) /\ ~Read(t)
        BY <1>3, <3>2 DEF Uplink, OpenSocket, Login, Append, Blocks, Send, Trim, Keep,
                          history
      <3>3. QED
        BY <3>1, <3>2
    <2>3. QED
      BY <2>1, <2>2 DEF LateDown
  <1>4. ASSUME NEW t \in Threads, Downlink(t), NEW x \in Threads
        PROVE  \/ late'[<<"down", x>>] = 0
               \/ late'[<<"down", x>>] = 1 /\ ~keepWorking'[of'[x]] /\ ~Waits(down'[x])
    <2>0. UNCHANGED <<of, keepWorking>>
      BY <1>4, DownlinkFrame DEF Kept, activity
    <2>1. CASE x # t
      <3>1. late'[<<"down", x>>] = late[<<"down", x>>]
        BY <1>4, <2>1 DEF Downlink, NewTrack, DownWhile, Receive, Datagram, Play,
                          ReceiveFails, StopTrack, Forget, TypeOK
      <3>2. down'[x] = down[x]
        BY <1>4, <2>1, DownlinkFrame
      <3>3. QED
        BY <2>0, <3>1, <3>2 DEF LateDown
    <2>2. CASE x = t /\ (NewTrack(t) \/ DownWhile(t))
      <3>1. late' = late
        BY <2>2 DEF NewTrack, DownWhile
      <3>2. ~Waits(down'[t]) \/ keepWorking[of[t]]
        BY <2>2 DEF NewTrack, DownWhile, Turn, TypeOK
      <3>3. QED
        BY <2>0, <2>2, <3>1, <3>2 DEF LateDown
    <2>3. CASE x = t /\ (Receive(t) \/ Datagram(t))
      <3>1. late' = late /\ Waits(down[t])
        BY <2>3 DEF Receive, Datagram, Listening
      <3>2. QED
        BY <2>3, <3>1 DEF LateDown
    <2>4. ASSUME x = t, NEW bytes, Play(t, bytes)
          PROVE  \/ late'[<<"down", x>>] = 0
                 \/ late'[<<"down", x>>] = 1 /\ ~keepWorking'[of'[x]] /\ ~Waits(down'[x])
      <3>1. Waits(down[t]) /\ late[<<"down", t>>] = 0
        BY <2>4 DEF Play, Listening, LateDown
      <3>2. CASE late' = late
        BY <2>4, <3>1, <3>2
      <3>3. CASE late' # late
        <4>1. /\ late' = [late EXCEPT ![<<"down", t>>] = More(@)]
              /\ ~keepWorking[of[t]] /\ down' = [down EXCEPT ![t] = "while"]
          BY <2>4, <3>3 DEF Play, Turn
        <4>2. late'[<<"down", t>>] = 1 /\ down'[t] = "while"
          BY <3>1, <4>1 DEF TypeOK, More
        <4>3. QED
          BY <2>0, <2>4, <4>1, <4>2
      <3>4. QED
        BY <3>2, <3>3
    <2>5. CASE x = t /\ (ReceiveFails(t) \/ StopTrack(t))
      BY <2>5 DEF ReceiveFails, StopTrack, Forget, TypeOK
    <2>6. QED
      BY <1>4, <2>1, <2>2, <2>3, <2>4, <2>5 DEF Downlink
  <1>5. QED
    BY <1>1, <1>2, <1>3, <1>4 DEF Next, Main, LateDown

LEMMA StaleOnceStep == ASSUME IInv, Next PROVE StaleOnce'
  <1> USE DEF IInv
  <1> DEFINE Once(x) == \/ stale[x] = 0
                        \/ /\ stale[x] = 1
                           /\ down[x] = "blocked" => sock[x] = udpSocket[of[x]]
  <1>0. of \in [Threads -> Workers]
    BY DEF TypeOK
  <1>1. ASSUME ClickCall, NEW x \in Threads PROVE Once(x)'
    <2>1. UNCHANGED <<stale, down, sock, udpSocket>>
      BY <1>1, MainFrame DEF Main, downVars
    <2>2. of'[x] = of[x] \/ down[x] = "none"
      BY <1>1, NewCall
    <2>3. QED
      BY <2>1, <2>2 DEF StaleOnce
  <1>2. CASE Main /\ ~ClickCall
    BY <1>2, MainFrame DEF StaleOnce, downVars
  <1>3. ASSUME NEW t \in Threads, Uplink(t), NEW x \in Threads PROVE Once(x)'
    <2>1. UNCHANGED <<of, sock>> /\ (down'[x] = down[x] \/ down'[x] = "begin")
      BY <1>3, UplinkFrame DEF Kept, activity
    <2>2. CASE UNCHANGED <<stale, udpSocket>>
      BY <2>1, <2>2 DEF StaleOnce
    <2>3. CASE OpenSocket(t) /\ ~UNCHANGED <<stale, udpSocket>>
      <3>1. /\ udpSocket' = [udpSocket EXCEPT ![of[t]] = t]
            /\ stale' = [y \in Threads |-> IF of[y] = of[t] THEN 0 ELSE stale[y]]
        BY <2>3 DEF OpenSocket
      <3>2. CASE of[x] = of[t]
        BY <3>1, <3>2
      <3>3. CASE of[x] # of[t]
        <4>1. stale'[x] = stale[x] /\ udpSocket'[of[x]] = udpSocket[of[x]]
          BY <1>0, <3>1, <3>3 DEF TypeOK
        <4>2. QED
          BY <2>1, <4>1 DEF StaleOnce
      <3>4. QED
        BY <3>2, <3>3
    <2>4. OpenSocket(t) \/ UNCHANGED <<stale, udpSocket>>
      BY <1>3 DEF Uplink, UpOnly, Login, UpWhile, Read, Append, Blocks, Send, Trim, Keep,
                  fields, history
    <2>5. QED
      BY <2>2, <2>3, <2>4
  <1>4. ASSUME NEW t \in Threads, Downlink(t), NEW x \in Threads PROVE Once(x)'
    <2>0. UNCHANGED <<of, udpSocket>>
      BY <1>4, DownlinkFrame DEF Kept, activity
    <2>1. CASE x # t
      <3>1. stale'[x] = stale[x]
        BY <1>4, <2>1 DEF Downlink, NewTrack, DownWhile, Receive, Datagram, Play,
                          ReceiveFails, StopTrack, TypeOK
      <3>2. down'[x] = down[x] /\ sock'[x] = sock[x]
        BY <1>4, <2>1, DownlinkFrame
      <3>3. QED
        BY <2>0, <3>1, <3>2 DEF StaleOnce
    <2>2. CASE x = t /\ (NewTrack(t) \/ DownWhile(t))
      <3>1. stale' = stale /\ down'[t] # "blocked"
        BY <2>2 DEF NewTrack, DownWhile, Turn, TypeOK
      <3>2. QED
        BY <2>2, <3>1 DEF StaleOnce
    <2>3. CASE x = t /\ Receive(t)
      <3>1. stale' = stale /\ sock'[t] = udpSocket[of[t]]
        BY <2>3 DEF Receive, TypeOK
      <3>2. QED
        BY <2>0, <2>3, <3>1 DEF StaleOnce
    <2>4. CASE x = t /\ Datagram(t)
      <3>1. /\ down[t] = "blocked" /\ down'[t] = "play"
            /\ stale'[t] = IF sock[t] = udpSocket[of[t]] THEN stale[t] ELSE More(stale[t])
        BY <2>4 DEF Datagram, Listening, Turn, TypeOK
      <3>2. sock[t] # udpSocket[of[t]] => stale[t] = 0
        BY <3>1 DEF StaleOnce
      <3>3. stale'[t] \in {0, 1}
        BY <3>1, <3>2 DEF StaleOnce, More
      <3>4. QED
        BY <2>4, <3>1, <3>3
    <2>5. ASSUME x = t, NEW bytes, Play(t, bytes) PROVE Once(x)'
      <3>1. stale' = stale /\ sock' = sock /\ (down'[t] = "while" \/ down' = down)
        BY <2>5 DEF Play, Turn, TypeOK
      <3>2. QED
        BY <2>0, <2>5, <3>1 DEF StaleOnce
    <2>6. CASE x = t /\ (ReceiveFails(t) \/ StopTrack(t))
      BY <2>6 DEF ReceiveFails, StopTrack, TypeOK
    <2>7. QED
      BY <1>4, <2>1, <2>2, <2>3, <2>4, <2>5, <2>6 DEF Downlink
  <1>5. QED
    BY <1>1, <1>2, <1>3, <1>4 DEF Next, Main, StaleOnce

-------------------------------------------------------------------------------
(* The threads of a Worker. *)

LEMMA OfKept ==
    ASSUME UNCHANGED <<started, of>>
    PROVE  /\ \A w : Of(w)' = Of(w)
           /\ \A t : Newest(t)' = Newest(t)
  BY DEF Of, Newest

LEMMA OfNewCall ==
    ASSUME TypeOK, Started, ClickCall, NEW n, n = started + 1
    PROVE  /\ \A w \in Workers : Of(w)' = IF w = worker THEN Of(w) \cup {n} ELSE Of(w)
           /\ n \notin Of(worker)
           /\ \A w \in Workers : Of(w) \subseteq Threads
           /\ \A t \in Threads : t <= started =>
                 (Newest(t)' <=> Newest(t) /\ of[t] # worker)
  <1>1. /\ started' = n /\ n \in Threads /\ started \in Nat /\ worker \in Workers
        /\ of'[n] = worker /\ \A t \in Threads \ {n} : of'[t] = of[t]
    BY NewCall
  <1>2. 1 .. started \subseteq Threads /\ of \in [Threads -> Workers]
    BY DEF TypeOK, Threads
  <1>3. 1 .. n = (1 .. started) \cup {n} /\ n \notin 1 .. started /\ 1 .. n \subseteq Threads
    BY <1>1, <1>2
  <1>4. \A w \in Workers : Of(w)' = IF w = worker THEN Of(w) \cup {n} ELSE Of(w)
    BY <1>1, <1>2, <1>3 DEF Of
  <1>5. n \notin Of(worker) /\ \A w \in Workers : Of(w) \subseteq Threads
    BY <1>2, <1>3 DEF Of
  <1>6. ASSUME NEW t \in Threads, t <= started
        PROVE  Newest(t)' <=> (Newest(t) /\ of[t] # worker)
    <2>1. of'[t] = of[t] /\ of[t] \in Workers /\ t < n
      BY <1>1, <1>2, <1>6 DEF Threads
    <2>2. CASE of[t] = worker
      <3>1. n \in Of(of[t])' /\ t \in Nat
        BY <1>1, <1>4, <2>1, <2>2 DEF Threads
      <3>2. ~(n <= t)
        BY <1>1, <2>1, <3>1
      <3>3. ~Newest(t)'
        BY <3>1, <3>2 DEF Newest
      <3>4. QED
        BY <2>2, <3>3
    <2>3. CASE of[t] # worker
      BY <1>4, <2>1, <2>3 DEF Newest
    <2>4. QED
      BY <2>2, <2>3
  <1>7. QED
    BY <1>4, <1>5, <1>6

LEMMA OwnTrackStep == ASSUME IInv, Next PROVE OwnTrack'
  <1> USE DEF IInv
  <1>1. CASE ClickCall
    <2>1. \A w \in Workers : Of(w) \subseteq Of(w)'
      BY <1>1, OfNewCall
    <2>2. audioTrack' = audioTrack
      BY <1>1 DEF ClickCall
    <2>3. QED
      BY <2>1, <2>2 DEF OwnTrack
  <1>2. CASE Main /\ ~ClickCall
    BY <1>2, MainFrame, OfKept DEF OwnTrack
  <1>3. ASSUME NEW t \in Threads, Uplink(t) PROVE OwnTrack'
    BY <1>3, UplinkFrame, OfKept DEF OwnTrack, Kept, activity
  <1>4. ASSUME NEW t \in Threads, Downlink(t) PROVE OwnTrack'
    <2>1. UNCHANGED <<of, started>> /\ down[t] # "none"
      BY <1>4, DownlinkFrame DEF Kept, activity
    <2>2. CASE audioTrack' = audioTrack
      BY <2>1, <2>2, OfKept DEF OwnTrack
    <2>3. CASE audioTrack' # audioTrack
      <3>1. audioTrack' = [audioTrack EXCEPT ![of[t]] = t]
        BY <1>4, <2>3 DEF Downlink, NewTrack, DownWhile, Receive, Datagram, Play,
                          ReceiveFails, StopTrack
      <3>2. t \in Of(of[t])
        BY <2>1 DEF Started, Of, Threads
      <3>3. QED
        BY <2>1, <3>1, <3>2, OfKept DEF OwnTrack, TypeOK
    <2>4. QED
      BY <2>2, <2>3
  <1>5. QED
    BY <1>1, <1>2, <1>3, <1>4 DEF Next, Main

(* A thread reaches the stop of its track in a call only if it stood there before. *)
LEMMA StopsOnlyHurriedStep == ASSUME IInv, Next PROVE StopsOnlyHurried'
  <1> USE DEF IInv
  <1> SUFFICES ASSUME NEW t \in Threads, NEW x \in Threads,
                      t <= started', x <= started', of'[x] = of'[t], Newest(t)',
                      keepWorking'[of'[t]], down'[x] = "stop"
               PROVE  t \in hurried'
    BY DEF StopsOnlyHurried
  <1>0. started \in Nat /\ of \in [Threads -> Workers] /\ t \in Nat /\ x \in Nat
    BY DEF TypeOK, Threads
  <1>1. CASE ClickCall
    <2> DEFINE n == started + 1
    <2>1. /\ started' = n /\ down' = down /\ worker \in Workers /\ of'[n] = worker
          /\ down[n] = "none" /\ \A y \in Threads \ {n} : of'[y] = of[y]
          /\ \A w \in Workers \ {worker} : keepWorking'[w] = keepWorking[w]
          /\ \A y \in Threads : y <= started => (Newest(y)' <=> Newest(y) /\ of[y] # worker)
      BY <1>1, NewCall, OfNewCall, MainFrame DEF Main, downVars
    <2>2. /\ hurried \subseteq hurried'
          /\ (\E y \in Of(worker) : down[y] = "stop") => n \in hurried'
      BY <1>1, <2>1 DEF ClickCall
    <2> HIDE DEF n
    <2>3. x # n /\ x <= started
      BY <1>0, <2>1 DEF n
    <2>4. CASE t = n
      <3>1. of[x] = worker
        BY <2>1, <2>3, <2>4
      <3>2. x \in Of(worker)
        BY <1>0, <2>3, <3>1 DEF Of, Threads
      <3>3. QED
        BY <2>1, <2>2, <2>4, <3>2
    <2>5. CASE t # n
      <3>1. t <= started
        BY <1>0, <2>1, <2>5 DEF n
      <3>2. Newest(t) /\ of[t] # worker /\ of'[t] = of[t] /\ of[x] = of[t]
        BY <2>1, <2>3, <2>5, <3>1
      <3>3. keepWorking[of[t]]
        BY <1>0, <2>1, <3>2
      <3>4. t \in hurried
        BY <2>1, <2>3, <3>1, <3>2, <3>3 DEF StopsOnlyHurried
      <3>5. QED
        BY <2>2, <3>4
    <2>6. QED
      BY <2>4, <2>5
  <1>2. CASE Main /\ ~ClickCall
    <2>1. /\ UNCHANGED <<started, of, hurried, down>> /\ Newest(t)' = Newest(t)
          /\ (keepWorking'[of[t]] => keepWorking[of[t]])
      BY <1>0, <1>2, MainFrame, OfKept DEF downVars, history
    <2>2. QED
      BY <2>1 DEF StopsOnlyHurried
  <1>3. ASSUME NEW u \in Threads, Uplink(u) PROVE t \in hurried'
    <2>1. /\ UNCHANGED <<started, of, hurried, keepWorking>> /\ Newest(t)' = Newest(t)
          /\ (down'[x] = down[x] \/ down'[x] = "begin")
      BY <1>3, UplinkFrame, OfKept DEF Kept, activity
    <2>2. QED
      BY <2>1 DEF StopsOnlyHurried
  <1>4. ASSUME NEW u \in Threads, Downlink(u) PROVE t \in hurried'
    <2>1. UNCHANGED <<started, of, hurried, keepWorking>> /\ Newest(t)' = Newest(t)
      BY <1>4, DownlinkFrame, OfKept DEF Kept, activity
    <2>2. down[x] = "stop"
      <3>1. CASE x # u
        BY <1>4, <3>1, DownlinkFrame
      <3>2. CASE x = u
        <4>1. CASE DownWhile(u)
          BY <2>1, <3>2, <4>1 DEF DownWhile, Turn, TypeOK
        <4>2. CASE ~DownWhile(u)
          BY <1>4, <3>2, <4>2 DEF Downlink, NewTrack, Receive, Datagram, Play,
             ReceiveFails, StopTrack, Turn, TypeOK
        <4>3. QED
          BY <4>1, <4>2
      <3>3. QED
        BY <3>1, <3>2
    <2>3. QED
      BY <2>1, <2>2 DEF StopsOnlyHurried
  <1>5. QED
    BY <1>1, <1>2, <1>3, <1>4 DEF Next, Main

LEMMA TrackPlaysStep == ASSUME IInv, Next PROVE TrackPlays'
  <1> USE DEF IInv
  <1> SUFFICES ASSUME NEW t \in (1 .. started)', Newest(t)', keepWorking'[of'[t]],
                      InLoop(t)'
               PROVE  t \in playing' \/ t \in hurried'
    BY DEF TrackPlays
  <1>0. /\ started \in 0 .. MaxStarts /\ of \in [Threads -> Workers] /\ t \in Nat
        /\ audioTrack \in [Workers -> Threads \cup {None}]
    BY DEF TypeOK
  <1>1. CASE ClickCall
    <2> DEFINE n == started + 1
    <2>1. /\ started' = n /\ down' = down /\ playing' = playing /\ worker \in Workers
          /\ down[n] = "none" /\ \A y \in Threads \ {n} : of'[y] = of[y]
          /\ \A w \in Workers \ {worker} : keepWorking'[w] = keepWorking[w]
          /\ \A y \in Threads : y <= started => (Newest(y)' <=> Newest(y) /\ of[y] # worker)
          /\ n \in Threads
      BY <1>1, NewCall, OfNewCall, MainFrame DEF Main, downVars
    <2>2. hurried \subseteq hurried'
      BY <1>1 DEF ClickCall
    <2>3. t # n
      BY <2>1 DEF InLoop
    <2>4. t \in 1 .. started /\ t \in Threads /\ t <= started
      BY <1>0, <2>1, <2>3 DEF Threads
    <2> HIDE DEF n
    <2>5. Newest(t) /\ of[t] # worker /\ of'[t] = of[t] /\ of[t] \in Workers
      <3>1. Newest(t)' <=> (Newest(t) /\ of[t] # worker)
        BY <2>1, <2>4
      <3>2. of'[t] = of[t] /\ of[t] \in Workers
        BY <1>0, <2>1, <2>3, <2>4
      <3>3. QED
        BY <3>1, <3>2
    <2>6. keepWorking[of[t]] /\ InLoop(t)
      BY <2>1, <2>5 DEF InLoop
    <2>7. QED
      BY <2>1, <2>2, <2>4, <2>5, <2>6 DEF TrackPlays
  <1>2. CASE Main /\ ~ClickCall
    <2>1. UNCHANGED <<started, of, hurried, down, playing>> /\ Newest(t)' = Newest(t)
      BY <1>2, MainFrame, OfKept DEF downVars, history
    <2>2. of[t] \in Workers
      BY <1>0, <2>1 DEF Threads
    <2>3. keepWorking[of[t]]
      BY <1>2, <2>1, <2>2, MainFrame
    <2>4. QED
      BY <2>1, <2>3 DEF TrackPlays, InLoop
  <1>3. ASSUME NEW u \in Threads, Uplink(u) PROVE t \in playing' \/ t \in hurried'
    <2>1. /\ UNCHANGED <<started, of, hurried, keepWorking, playing>>
          /\ Newest(t)' = Newest(t)
      BY <1>3, UplinkFrame, OfKept DEF Kept, activity
    <2>2. t \in Threads
      BY <2>1 DEF TypeOK, Threads
    <2>3. InLoop(t)
      BY <1>3, <2>2, UplinkFrame DEF InLoop
    <2>4. QED
      BY <2>1, <2>3 DEF TrackPlays
  <1>4. ASSUME NEW u \in Threads, Downlink(u) PROVE t \in playing' \/ t \in hurried'
    <2>1. /\ UNCHANGED <<started, of, hurried, keepWorking>> /\ Newest(t)' = Newest(t)
          /\ down[u] # "none"
      BY <1>4, DownlinkFrame, OfKept DEF Kept, activity
    <2>2. t \in Threads /\ t <= started /\ t \in 1 .. started
      BY <1>0, <2>1 DEF TypeOK, Threads
    <2>3. CASE NewTrack(u)
      <3>1. CASE u = t
        BY <2>3, <3>1 DEF NewTrack
      <3>2. CASE u # t
        <4>1. InLoop(t)
          BY <1>4, <2>2, <3>2, DownlinkFrame DEF InLoop
        <4>2. QED
          BY <2>1, <2>2, <2>3, <4>1 DEF TrackPlays, NewTrack
      <3>3. QED
        BY <3>1, <3>2
    <2>4. CASE StopTrack(u)
      <3>1. /\ down[u] = "stop" /\ playing' = playing \ {audioTrack[of[u]]}
            /\ down'[u] = "ended"
        BY <2>4 DEF StopTrack, Listening, Turn, TypeOK
      <3>2. u # t
        BY <3>1 DEF InLoop
      <3>3. InLoop(t)
        BY <1>4, <2>2, <3>2, DownlinkFrame DEF InLoop
      <3>4. CASE t = audioTrack[of[u]]
        <4>1. of[t] = of[u] /\ u <= started
          <5>1. of[u] \in Workers /\ audioTrack[of[u]] # None
            BY <1>0, <2>2, <3>4 DEF None
          <5>2. t \in Of(of[u])
            BY <3>4, <5>1 DEF OwnTrack
          <5>3. QED
            BY <2>1, <5>2 DEF Of, Started
        <4>2. QED
          BY <2>1, <2>2, <3>1, <4>1 DEF StopsOnlyHurried
      <3>5. CASE t # audioTrack[of[u]]
        BY <2>1, <2>2, <3>1, <3>3, <3>5 DEF TrackPlays
      <3>6. QED
        BY <3>4, <3>5
    <2>5. CASE ~NewTrack(u) /\ ~StopTrack(u)
      <3>1. playing' = playing
        BY <1>4, <2>5 DEF Downlink, DownWhile, Receive, Datagram, Play, ReceiveFails
      <3>2. InLoop(t)
        <4>1. CASE u # t
          BY <1>4, <2>2, <4>1, DownlinkFrame DEF InLoop
        <4>2. CASE u = t
          BY <1>4, <2>5, <4>2 DEF Downlink, DownWhile, Receive, Datagram, Play,
             ReceiveFails, Listening, Turn, TypeOK, InLoop
        <4>3. QED
          BY <4>1, <4>2
      <3>3. QED
        BY <2>1, <2>2, <3>1, <3>2 DEF TrackPlays
    <2>6. QED
      BY <2>3, <2>4, <2>5
  <1>5. QED
    BY <1>1, <1>2, <1>3, <1>4 DEF Next, Main

-------------------------------------------------------------------------------
(* The buffer of the microphone. *)

LEMMA AloneStep == ASSUME IInv, Next PROVE Alone'
  <1> USE DEF IInv
  <1> SUFFICES ASSUME NEW t \in Threads, NEW x \in Threads, of'[t] = of'[x],
                      of'[t] \notin shared', up'[t] \notin Gone, up'[x] \notin Gone
               PROVE  t = x
    BY DEF Alone, Gone
  <1>0. of \in [Threads -> Workers] /\ started \in 0 .. MaxStarts
    BY DEF TypeOK
  <1>1. CASE ClickCall
    <2> DEFINE n == started + 1
    <2>1. /\ of'[n] = worker /\ up[n] = "none"
          /\ \A y \in Threads \ {n} : of'[y] = of[y] /\ up'[y] = up[y]
      BY <1>1, NewCall
    <2>2. /\ shared \subseteq shared'
          /\ (\E y \in Of(worker) : up[y] \notin Gone) => worker \in shared'
      BY <1>1 DEF ClickCall
    <2> HIDE DEF n
    <2>3. ASSUME NEW y \in Threads, y # n, of[y] = worker, up[y] \notin Gone
          PROVE  worker \in shared'
      <3>1. up[y] # "none"
        BY <2>3 DEF Gone
      <3>2. y \in Of(worker)
        BY <1>0, <2>3, <3>1 DEF Started, Of, Threads
      <3>3. QED
        BY <2>2, <2>3, <3>2
    <2>4. CASE t = n /\ x # n
      BY <2>1, <2>3, <2>4
    <2>5. CASE t # n /\ x = n
      BY <2>1, <2>3, <2>5
    <2>6. CASE t # n /\ x # n
      BY <2>1, <2>2, <2>6 DEF Alone
    <2>7. QED
      BY <2>4, <2>5, <2>6
  <1>2. CASE Main /\ ~ClickCall
    BY <1>2, MainFrame DEF Alone, history
  <1>3. ASSUME NEW u \in Threads, Uplink(u) PROVE t = x
    <2>1. /\ UNCHANGED <<of, shared>> /\ up[u] \notin Gone
          /\ \A y \in Threads \ {u} : up'[y] = up[y]
      BY <1>3, UplinkFrame DEF Kept, activity, Gone
    <2>2. up[t] \notin Gone /\ up[x] \notin Gone
      BY <2>1
    <2>3. QED
      BY <2>1, <2>2 DEF Alone
  <1>4. ASSUME NEW u \in Threads, Downlink(u) PROVE t = x
    BY <1>4, DownlinkFrame DEF Alone, Kept, activity, upVars
  <1>5. QED
    BY <1>1, <1>2, <1>3, <1>4 DEF Next, Main

(* While a run has its Worker to itself, the length that it made room for is that of the
   buffer it copies. *)
Fits(t) == of[t] \notin shared =>
    /\ up[t] = "append" => size[t] = pcmBuffer_mic[of[t]] + got[t]
    /\ up[t] \in {"send", "trim"} => pcmBuffer_mic[of[t]] >= Block
    /\ up[t] = "keep" => pcmBuffer_mic[of[t]] = Block + size[t]

LEMMA OwnLengths ==
    ASSUME IInv, NEW t \in Threads, Uplink(t)
    PROVE  Fits(t)'
  <1> USE DEF IInv
  <1>0. /\ of \in [Threads -> Workers] /\ up \in [Threads -> Up]
        /\ pcmBuffer_mic \in [Workers -> 0 .. MaxPcm]
        /\ size \in [Threads -> 0 .. MaxPcm] /\ got \in [Threads -> Reads \cup {0}]
    BY DEF TypeOK
  <1>1. UNCHANGED <<of, shared>> /\ Fits(t)
    BY UplinkFrame DEF Kept, activity, Lengths, Fits
  <1> USE DEF At, Goto
  <1>2. CASE OpenSocket(t) \/ Login(t) \/ UpWhile(t)
    <2>1. up'[t] \notin {"append", "send", "trim", "keep"}
      BY <1>0, <1>2 DEF OpenSocket, Login, UpWhile
    <2>2. QED
      BY <2>1 DEF Fits
  <1>3. CASE Read(t)
    <2>1. CASE up'[t] = "while"
      BY <2>1 DEF Fits
    <2>2. CASE up'[t] # "while"
      <3>1. PICK k \in Reads : /\ size' = [size EXCEPT ![t] = pcmBuffer_mic[of[t]] + k]
                               /\ got' = [got EXCEPT ![t] = k]
                               /\ up' = [up EXCEPT ![t] = "append"]
        BY <1>0, <1>3, <2>2 DEF Read
      <3>2. pcmBuffer_mic' = pcmBuffer_mic
        BY <1>3 DEF Read, fields
      <3>3. QED
        BY <1>0, <1>1, <3>1, <3>2 DEF Fits
    <2>3. QED
      BY <2>1, <2>2
  <1>4. CASE Append(t) \/ Keep(t)
    <2>1. CASE up'[t] = "blocks"
      BY <2>1 DEF Fits
    <2>2. CASE up'[t] # "blocks"
      <3>1. up' = up /\ pcmBuffer_mic' = pcmBuffer_mic
        BY <1>0, <1>4, <2>2 DEF Append, Keep
      <3>2. of[t] \in shared
        <4>1. CASE Append(t)
          <5>1. up[t] = "append" /\ pcmBuffer_mic[of[t]] + got[t] > size[t]
            BY <1>0, <2>2, <4>1 DEF Append
          <5>2. pcmBuffer_mic[of[t]] \in Nat /\ got[t] \in Nat /\ size[t] \in Nat
            <6>1. Reads \cup {0} \subseteq Nat
              OBVIOUS
            <6>2. got[t] \in Reads \cup {0}
              BY <1>0
            <6>3. got[t] \in Nat
              BY <6>1, <6>2, Zenon
            <6>4. pcmBuffer_mic[of[t]] \in Nat /\ size[t] \in Nat
              BY <1>0
            <6>5. QED
              BY <6>3, <6>4
          <5>3. size[t] # pcmBuffer_mic[of[t]] + got[t]
            BY <5>1, <5>2
          <5>4. QED
            BY <1>1, <5>1, <5>3 DEF Fits
        <4>2. CASE Keep(t)
          <5>1. up[t] = "keep" /\ pcmBuffer_mic[of[t]] < Block + size[t]
            BY <1>0, <2>2, <4>2 DEF Keep
          <5>2. pcmBuffer_mic[of[t]] \in Nat /\ size[t] \in Nat /\ Block \in Nat
            BY <1>0
          <5>3. pcmBuffer_mic[of[t]] # Block + size[t]
            BY <5>1, <5>2
          <5>4. QED
            BY <1>1, <5>1, <5>3 DEF Fits
        <4>3. QED
          BY <1>4, <4>1, <4>2
      <3>3. QED
        BY <1>1, <3>2 DEF Fits
    <2>3. QED
      BY <2>1, <2>2
  <1>5. CASE Blocks(t)
    <2>1. /\ up'[t] = IF pcmBuffer_mic[of[t]] >= Block THEN "send" ELSE "while"
          /\ pcmBuffer_mic' = pcmBuffer_mic
      BY <1>0, <1>5 DEF Blocks, WholeBlock, fields
    <2>2. QED
      BY <1>1, <2>1 DEF Fits
  <1>6. CASE Send(t)
    <2>1. /\ up[t] = "send" /\ up'[t] \in {"send", "trim"}
          /\ pcmBuffer_mic' = pcmBuffer_mic
      BY <1>0, <1>6 DEF Send, fields
    <2>2. QED
      BY <1>1, <2>1 DEF Fits
  <1>7. CASE Trim(t)
    <2>1. up[t] = "trim" /\ pcmBuffer_mic' = pcmBuffer_mic
      BY <1>7 DEF Trim, fields
    <2>2. CASE up'[t] = "keep"
      <3>1. size'[t] = pcmBuffer_mic[of[t]] - Block
        BY <1>0, <1>7, <2>1, <2>2 DEF Trim
      <3>2. pcmBuffer_mic[of[t]] \in Nat /\ Block \in Nat
        BY <1>0
      <3>3. pcmBuffer_mic[of[t]] = Block + size'[t]
        BY <3>1, <3>2
      <3>4. QED
        BY <1>1, <2>1, <2>2, <3>3 DEF Fits
    <2>3. CASE up'[t] # "keep"
      <3>1. up' = up
        BY <1>0, <1>7, <2>3 DEF Trim
      <3>2. QED
        BY <1>1, <2>1, <3>1 DEF Fits
    <2>4. QED
      BY <2>2, <2>3
  <1>8. QED
    BY <1>2, <1>3, <1>4, <1>5, <1>6, <1>7 DEF Uplink

LEMMA LengthsStep == ASSUME IInv, Next PROVE Lengths'
  <1> USE DEF IInv
  <1> SUFFICES ASSUME NEW t \in Threads PROVE Fits(t)'
    BY DEF Lengths, Fits
  <1>0. of \in [Threads -> Workers] /\ Fits(t)
    BY DEF TypeOK, Lengths, Fits
  <1>1. CASE ClickCall
    <2> DEFINE n == started + 1
    <2>1. /\ \A y \in Threads \ {n} : of'[y] = of[y] /\ up'[y] = up[y]
          /\ up'[n] = "begin" /\ UNCHANGED <<pcmBuffer_mic, size, got>>
      BY <1>1, NewCall DEF ClickCall
    <2>2. shared \subseteq shared'
      BY <1>1 DEF ClickCall
    <2> HIDE DEF n
    <2>3. CASE t = n
      BY <2>1, <2>3 DEF Fits
    <2>4. CASE t # n
      BY <1>0, <2>1, <2>2, <2>4 DEF Fits
    <2>5. QED
      BY <2>3, <2>4
  <1>2. CASE Main /\ ~ClickCall
    BY <1>0, <1>2, MainFrame DEF Fits, history
  <1>3. ASSUME NEW u \in Threads, Uplink(u) PROVE Fits(t)'
    <2>1. CASE t = u
      BY <1>3, <2>1, OwnLengths
    <2>2. CASE t # u
      <3>1. /\ UNCHANGED <<of, shared>> /\ up'[t] = up[t] /\ size'[t] = size[t]
            /\ got'[t] = got[t] /\ up[u] \notin Gone
            /\ \A w \in Workers \ {of[u]} : pcmBuffer_mic'[w] = pcmBuffer_mic[w]
        BY <1>3, <2>2, UplinkFrame DEF Kept, activity, Gone
      <3>2. CASE of[t] = of[u]
        <4>1. of[t] \in shared \/ up[t] \in Gone
          BY <2>2, <3>1, <3>2 DEF Alone
        <4>2. QED
          BY <3>1, <4>1 DEF Fits, Gone
      <3>3. CASE of[t] # of[u]
        <4>1. pcmBuffer_mic'[of[t]] = pcmBuffer_mic[of[t]]
          BY <1>0, <3>1, <3>3
        <4>2. QED
          BY <1>0, <3>1, <4>1 DEF Fits
      <3>4. QED
        BY <3>2, <3>3
    <2>3. QED
      BY <2>1, <2>2
  <1>4. ASSUME NEW u \in Threads, Downlink(u) PROVE Fits(t)'
    BY <1>0, <1>4, DownlinkFrame DEF Fits, Kept, activity, upVars
  <1>5. QED
    BY <1>1, <1>2, <1>3, <1>4 DEF Next, Main

-------------------------------------------------------------------------------
(* The buffer that datagrams are received in. *)

LEMMA TornByOtherStep == ASSUME IInv, Next PROVE TornByOther'
  <1> USE DEF IInv
  <1>0. of \in [Threads -> Workers] /\ torn \subseteq Threads
    BY DEF TypeOK
  <1>1. CASE ClickCall
    <2> DEFINE n == started + 1
    <2>1. /\ \A w \in Workers : Of(w) \subseteq Of(w)'
          /\ \A y \in Threads \ {n} : of'[y] = of[y]
          /\ down[n] = "none" /\ started \in Nat /\ UNCHANGED torn
      BY <1>1, NewCall, OfNewCall, MainFrame DEF Main, downVars
    <2>2. \A t \in torn : t # n
      BY <2>1 DEF TornByOther, Of
    <2> HIDE DEF n
    <2>3. ASSUME NEW t \in torn
          PROVE  t \in Of(of[t])' /\ \E x \in Of(of[t])' : x # t
      <3>1. of'[t] = of[t] /\ of[t] \in Workers
        BY <1>0, <2>1, <2>2, <2>3
      <3>2. Of(of[t]) \subseteq Of(of[t])'
        BY <2>1, <3>1
      <3>3. t \in Of(of[t]) /\ \E x \in Of(of[t]) : x # t
        BY <2>3 DEF TornByOther
      <3>4. QED
        BY <3>2, <3>3
    <2>4. QED
      BY <2>1, <2>3 DEF TornByOther
  <1>2. CASE Main /\ ~ClickCall
    BY <1>2, MainFrame, OfKept DEF TornByOther, downVars
  <1>3. ASSUME NEW u \in Threads, Uplink(u) PROVE TornByOther'
    BY <1>3, UplinkFrame, OfKept DEF TornByOther, Kept, activity
  <1>4. ASSUME NEW u \in Threads, Downlink(u) PROVE TornByOther'
    <2>1. UNCHANGED <<of, started>> /\ down[u] # "none"
      BY <1>4, DownlinkFrame DEF Kept, activity
    <2>2. CASE torn' \subseteq torn
      BY <2>1, <2>2, OfKept DEF TornByOther
    <2>3. CASE Datagram(u)
      <3>1. u \in Of(of[u])
        BY <2>1 DEF Started, Of, Threads, TypeOK
      <3>2. torn' = (torn \ {u}) \cup {x \in Of(of[u]) \ {u} : down[x] = "play"}
        BY <2>3 DEF Datagram
      <3>3. ASSUME NEW t \in torn' PROVE t \in Of(of[t]) /\ \E x \in Of(of[t]) : x # t
        <4>1. CASE t \in torn
          BY <4>1 DEF TornByOther
        <4>2. CASE t \in Of(of[u]) \ {u}
          BY <3>1, <4>2 DEF Of
        <4>3. QED
          BY <3>2, <3>3, <4>1, <4>2
      <3>4. QED
        BY <2>1, <3>3, OfKept DEF TornByOther
    <2>4. Datagram(u) \/ torn' \subseteq torn
      BY <1>4 DEF Downlink, DownOnly, NewTrack, DownWhile, Receive, Play, ReceiveFails,
                  StopTrack
    <2>5. QED
      BY <2>2, <2>3, <2>4
  <1>5. QED
    BY <1>1, <1>2, <1>3, <1>4 DEF Next, Main

-------------------------------------------------------------------------------
(* What ends the process. *)

LEMMA TwoThreads ==
    ASSUME TypeOK, NEW w \in Workers, NEW t \in Of(w), NEW x \in Of(w), t # x
    PROVE  Cardinality(Of(w)) > 1
  <1>1. started \in Int /\ 1 \in Int
    BY DEF TypeOK
  <1>2. IsFiniteSet(1 .. started)
    BY <1>1, FS_Interval
  <1>3. Of(w) \in SUBSET (1 .. started)
    BY DEF Of
  <1>4. IsFiniteSet(Of(w))
    BY <1>2, <1>3, FS_Subset
  <1>5. IsFiniteSet({t}) /\ Cardinality({t}) = 1
    BY FS_Singleton
  <1>6. Cardinality({t} \cup {x}) = Cardinality({t}) + 1
    BY <1>5, FS_AddElement
  <1>7. ({t} \cup {x}) \in SUBSET Of(w)
    OBVIOUS
  <1>8. Cardinality({t} \cup {x}) <= Cardinality(Of(w))
    BY <1>4, <1>7, FS_Subset
  <1>9. Cardinality(Of(w)) \in Nat
    BY <1>4, FS_CardinalityType
  <1>10. QED
    BY <1>5, <1>6, <1>8, <1>9

(* Nothing happens after a crash, so that what explains it stays. *)
LEMMA CrashSteps == ASSUME TypeOK, Next PROVE crash = "no"
  <1>1. Main => Running
    BY MainFrame
  <1>2. \A t \in Threads : Uplink(t) => Running
    BY UplinkFrame
  <1>3. \A t \in Threads : Downlink(t) => Running
    BY DownlinkFrame
  <1>4. QED
    BY <1>1, <1>2, <1>3 DEF Next, Main, Running

(* An uplink runs off its array only on a Worker that it shares, and lacks a socket only
   when its Worker does. *)
LEMMA UplinkCrash ==
    ASSUME IInv, NEW t \in Threads, Uplink(t)
    PROVE  /\ crash' = "buffer" => shared # {}
           /\ crash' = "socket" => udpSocket'[of[t]] = None
           /\ crash' # "native"
  <1> USE DEF IInv
  <1>0. /\ of \in [Threads -> Workers] /\ crash = "no" /\ Fits(t)
        /\ pcmBuffer_mic \in [Workers -> 0 .. MaxPcm] /\ Block \in Nat
        /\ size \in [Threads -> 0 .. MaxPcm] /\ got \in [Threads -> Reads \cup {0}]
    BY UplinkFrame DEF TypeOK, Running, Lengths, Fits
  <1>1. pcmBuffer_mic[of[t]] \in Nat /\ size[t] \in Nat
    BY <1>0
  <1>2. got[t] \in Nat
    <2>1. Reads \cup {0} \subseteq Nat
      OBVIOUS
    <2>2. got[t] \in Reads \cup {0}
      BY <1>0
    <2>3. QED
      BY <2>1, <2>2, Zenon
  <1> USE DEF At, Throw
  <1>3. CASE OpenSocket(t) \/ Login(t) \/ UpWhile(t) \/ Read(t) \/ Blocks(t)
    BY <1>0, <1>3 DEF OpenSocket, Login, UpWhile, Read, Blocks
  <1>4. CASE Append(t)
    <2>1. CASE crash' = crash
      BY <1>0, <2>1
    <2>2. CASE crash' # crash
      <3>1. /\ up[t] = "append" /\ pcmBuffer_mic[of[t]] + got[t] > size[t]
            /\ crash' = "buffer"
        BY <1>4, <2>2 DEF Append
      <3>2. size[t] # pcmBuffer_mic[of[t]] + got[t]
        BY <1>1, <1>2, <3>1
      <3>3. QED
        BY <1>0, <3>1, <3>2 DEF Fits
    <2>3. QED
      BY <2>1, <2>2
  <1>5. CASE Send(t)
    <2>1. CASE crash' = crash
      BY <1>0, <2>1
    <2>2. CASE crash' # crash
      <3>1. up[t] = "send" /\ udpSocket' = udpSocket
        BY <1>5 DEF Send, fields
      <3>2. CASE pcmBuffer_mic[of[t]] < Block
        <4>1. crash' = "buffer"
          BY <1>0, <1>1, <1>5, <3>2 DEF Send
        <4>2. ~(pcmBuffer_mic[of[t]] >= Block)
          BY <1>0, <1>1, <3>2
        <4>3. QED
          BY <1>0, <3>1, <4>1, <4>2 DEF Fits
      <3>3. CASE ~(pcmBuffer_mic[of[t]] < Block)
        <4>1. pcmBuffer_mic[of[t]] >= Block
          BY <1>0, <1>1, <3>3
        <4>2. crash' = "socket" /\ udpSocket[of[t]] = None
          BY <1>5, <2>2, <3>3, <4>1 DEF Send
        <4>3. QED
          BY <3>1, <4>2
      <3>4. QED
        BY <3>2, <3>3
    <2>3. QED
      BY <2>1, <2>2
  <1>6. CASE Trim(t)
    <2>1. CASE crash' = crash
      BY <1>0, <2>1
    <2>2. CASE crash' # crash
      <3>1. up[t] = "trim" /\ crash' = "buffer" /\ pcmBuffer_mic[of[t]] < Block
        BY <1>6, <2>2 DEF Trim
      <3>2. ~(pcmBuffer_mic[of[t]] >= Block)
        BY <1>0, <1>1, <3>1
      <3>3. QED
        BY <1>0, <3>1, <3>2 DEF Fits
    <2>3. QED
      BY <2>1, <2>2
  <1>7. CASE Keep(t)
    <2>1. CASE crash' = crash
      BY <1>0, <2>1
    <2>2. CASE crash' # crash
      <3>1. up[t] = "keep" /\ crash' = "buffer" /\ pcmBuffer_mic[of[t]] < Block + size[t]
        BY <1>7, <2>2 DEF Keep
      <3>2. pcmBuffer_mic[of[t]] # Block + size[t]
        BY <1>0, <1>1, <3>1
      <3>3. QED
        BY <1>0, <3>1, <3>2 DEF Fits
    <2>3. QED
      BY <2>1, <2>2
  <1>8. QED
    BY <1>3, <1>4, <1>5, <1>6, <1>7 DEF Uplink

(* The native code gets no packet only of a datagram that has none, or of one that was
   received over. *)
LEMMA NativeCrash ==
    ASSUME IInv, NEW t \in Threads, NEW d \in Frame, NEW bytes \in Bytes(t, d),
           ~NativeParses(bytes)
    PROVE  \/ \E w \in Workers : Cardinality(Of(w)) > 1
           \/ \E e \in Frame : ~NativeParses(e)
  <1> USE DEF IInv
  <1>1. CASE t \in torn
    <2>1. PICK x \in Of(of[t]) : x # t
      BY <1>1 DEF TornByOther
    <2>2. t \in Of(of[t]) /\ of[t] \in Workers
      BY <1>1 DEF TornByOther, TypeOK
    <2>3. QED
      BY <2>1, <2>2, TwoThreads
  <1>2. CASE t \notin torn
    <2>1. bytes = [d EXCEPT !.len = d.len]
      BY <1>2 DEF Bytes
    <2>2. [d EXCEPT !.len = d.len] = d
      BY FrameAssumption
    <2>3. QED
      BY <2>1, <2>2
  <1>3. QED
    BY <1>1, <1>2

LEMMA CrashIsExplainedStep == ASSUME IInv, Next PROVE CrashIsExplained'
  <1> USE DEF IInv
  <1>0. crash = "no"
    BY CrashSteps
  <1>1. CASE Main
    BY <1>0, <1>1, MainFrame DEF CrashIsExplained
  <1>2. ASSUME NEW t \in Threads, Uplink(t) PROVE CrashIsExplained'
    <2>1. /\ UNCHANGED <<of, started, shared>> /\ up[t] # "none"
      BY <1>2, UplinkFrame DEF Kept, activity
    <2>2. of[t] \in Workers /\ t \in Of(of[t])
      <3>1. started \in Nat /\ t \in Nat /\ t >= 1
        BY DEF TypeOK, Threads
      <3>2. t \in 1 .. started
        BY <2>1, <3>1 DEF Started
      <3>3. QED
        BY <3>2 DEF TypeOK, Of
    <2>3. /\ crash' = "buffer" => shared # {}
          /\ crash' = "socket" => udpSocket'[of[t]] = None
          /\ crash' # "native"
      BY <1>2, UplinkCrash
    <2>4. Of(of[t])' = Of(of[t]) /\ Of(of[t]) # {}
      BY <2>1, <2>2, OfKept
    <2>5. crash' = "socket" => \E w \in Workers : udpSocket'[w] = None /\ Of(w)' # {}
      BY <2>1, <2>2, <2>3, OfKept
    <2>6. QED
      BY <2>1, <2>3, <2>5 DEF CrashIsExplained
  <1>3. ASSUME NEW t \in Threads, Downlink(t) PROVE CrashIsExplained'
    <2>1. CASE crash' = crash
      BY <1>0, <2>1 DEF CrashIsExplained
    <2>2. CASE crash' # crash
      <3>1. PICK d \in Frame : \E bytes \in Bytes(t, d) : Play(t, bytes)
        BY <1>3, <2>2 DEF Downlink, NewTrack, DownWhile, Receive, Datagram, ReceiveFails,
                          StopTrack, DownOnly
      <3>2. PICK bytes \in Bytes(t, d) : Play(t, bytes)
        BY <3>1
      <3>3. ~NativeParses(bytes) /\ crash' = "native"
        BY <2>2, <3>2 DEF Play, Throw
      <3>4. UNCHANGED <<of, started>>
        BY <1>3, DownlinkFrame DEF Kept, activity
      <3>5. \/ \E w \in Workers : Cardinality(Of(w)) > 1
            \/ \E e \in Frame : ~NativeParses(e)
        BY <3>3, NativeCrash
      <3>6. \/ \E w \in Workers : Cardinality(Of(w)') > 1
            \/ \E e \in Frame : ~NativeParses(e)
        BY <3>4, <3>5, OfKept
      <3>7. QED
        BY <3>3, <3>6 DEF CrashIsExplained
    <2>3. QED
      BY <2>1, <2>2
  <1>4. QED
    BY <1>1, <1>2, <1>3 DEF Next, Main

-------------------------------------------------------------------------------
(* The theorems. *)

LEMMA TypeStep == ASSUME IInv, Next PROVE TypeOK'
  BY MainTypes, UplinkTypes, DownlinkTypes DEF IInv, Next, Main

LEMMA Stutters == ASSUME IInv, UNCHANGED vars PROVE IInv'
  <1> USE DEF vars, activity, fields, upVars, downVars, history
  <1>1. TypeOK' /\ Started' /\ LateUp' /\ LateDown' /\ StaleOnce'
    BY DEF IInv, TypeOK, Started, LateUp, LateDown, StaleOnce
  <1>2. OwnTrack' /\ StopsOnlyHurried' /\ TrackPlays'
    BY OfKept DEF IInv, OwnTrack, StopsOnlyHurried, TrackPlays, InLoop
  <1>3. Alone' /\ Lengths' /\ TornByOther' /\ CrashIsExplained'
    BY OfKept DEF IInv, Alone, Lengths, TornByOther, CrashIsExplained
  <1>4. QED
    BY <1>1, <1>2, <1>3 DEF IInv

THEOREM Invariant == Spec => []IInv
  <1>1. IInv /\ Next => IInv'
    BY TypeStep, StartedStep, LateUpStep, LateDownStep, StaleOnceStep, OwnTrackStep,
       StopsOnlyHurriedStep, AloneStep, LengthsStep, TornByOtherStep, TrackPlaysStep,
       CrashIsExplainedStep DEF IInv
  <1>2. IInv /\ UNCHANGED vars => IInv'
    BY Stutters
  <1>3. QED
    BY <1>1, <1>2, Initially, PTL DEF Spec

(* Every field and every local of the threads keeps its type. *)
THEOREM TypeCorrect == Spec => []TypeOK
  <1>1. IInv => TypeOK
    BY DEF IInv
  <1>2. QED
    BY <1>1, Invariant, PTL

(* A thread that was stopped goes round its loop at most once more, and takes at most one
   packet from a socket that has been replaced, however many calls follow each other. *)
THEOREM StopsAfterOneRound == Spec => []OneRoundLeft
  <1>1. IInv => OneRoundLeft
    <2> SUFFICES ASSUME IInv PROVE OneRoundLeft
      OBVIOUS
    <2>1. ASSUME NEW t \in Threads
          PROVE  late[<<"up", t>>] <= 1 /\ late[<<"down", t>>] <= 1 /\ stale[t] <= 1
      BY DEF IInv, LateUp, LateDown, StaleOnce
    <2>2. DOMAIN late = {"up", "down"} \X Threads
      BY DEF IInv, TypeOK
    <2>3. ASSUME NEW x \in DOMAIN late PROVE late[x] <= 1
      <3>1. PICK t \in Threads : x = <<"up", t>> \/ x = <<"down", t>>
        BY <2>2
      <3>2. QED
        BY <2>1, <3>1
    <2>4. QED
      BY <2>1, <2>3 DEF OneRoundLeft
  <1>2. QED
    BY <1>1, Invariant, PTL

(* A call that is alone on its Worker, has a socket and hears whole packets never ends the
   app. *)
THEOREM CrashesAreExplained == Spec => []CrashIsExplained
  <1>1. IInv => CrashIsExplained
    BY DEF IInv
  <1>2. QED
    BY <1>1, Invariant, PTL

(* The track of the newest call of a Worker plays while its listener runs, whatever the
   listeners of earlier calls stop, unless one was about to when the call was started. *)
THEOREM NewestTrackPlays == Spec => []TrackPlays
  <1>1. IInv => TrackPlays
    BY DEF IInv
  <1>2. QED
    BY <1>1, Invariant, PTL

===============================================================================

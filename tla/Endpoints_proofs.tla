--------------------------- MODULE Endpoints_proofs ---------------------------
(* Proofs about the two ends of a connection: the client's transport, the     *)
(* host of the Hub, and the frame buffer at either.                           *)
EXTENDS ClientTransport, HubHost, WireFrames, WellFoundedInduction, TLAPS

-----------------------------------------------------------------------------
(* One client's connection, for any bounds on attempts, frames and faults:    *)
(* the Hub never gets a message before the REGISTER of the same connection,   *)
(* unless start() failed.  The frames are followed from the caller (whose     *)
(* start, when it succeeds, leaves a registration behind) over the submitted  *)
(* tasks to the socket (which begins with a REGISTER once there was one).     *)

Occurs(frame, frames) == \E i \in 1 .. Len(frames) : frames[i] = frame

FrameTypes == tasks \in Seq(Frames) /\ up \in Seq(Frames) /\ down \in Seq({"registered", "not_registered"})

\* Messages wait only where the client registered at least once.
SenderRegistered ==
    /\ caller \in {"started", "stopped"} => once
    /\ Occurs("message", tasks) => once \/ caller = "failed"

\* The flag is set while a connection is read and cleared when it ends.
FlagIsCurrent ==
    /\ registered => thread \in {"read", "stop"}
    /\ caller = "new" => thread = "none"

\* The answer to a REGISTER belongs to the connection.
AnswerIsCurrent == Occurs("registered", down) => greeted

\* A client that registered once begins every connection with a REGISTER.
Announced ==
    sock = "open" /\ (once \/ registered) => greeted \/ Occurs("register", up)

\* On the socket a REGISTER goes before every message.
MessagesBehind ==
    \A i \in 1 .. Len(up) : up[i] = "message" =>
        greeted \/ \E j \in 1 .. i - 1 : up[j] = "register"

RegisterAhead == caller # "failed" => MessagesBehind

TInv ==
    /\ FrameTypes /\ SenderRegistered /\ FlagIsCurrent /\ AnswerIsCurrent
    /\ Announced /\ RegisterAhead /\ RegisterFirst

LEMMA ShortSequences ==
    ASSUME NEW S, NEW frame \in S
    PROVE  <<>> \in Seq(S) /\ <<frame>> \in Seq(S)
OBVIOUS

LEMMA FrameKinds == /\ "register" \in Frames /\ "heartbeat" \in Frames
                    /\ "groups" \in Frames /\ "message" \in Frames
BY DEF Frames

LEMMA AppendOccurs ==
    ASSUME NEW S, NEW frames \in Seq(S), NEW frame \in S, NEW other
    PROVE  /\ Append(frames, frame) \in Seq(S)
           /\ Occurs(other, Append(frames, frame)) <=> Occurs(other, frames) \/ other = frame
BY DEF Occurs

LEMMA TailOccurs ==
    ASSUME NEW S, NEW frames \in Seq(S), frames # <<>>, NEW other
    PROVE  /\ Tail(frames) \in Seq(S)
           /\ Occurs(other, frames) <=> Occurs(other, Tail(frames)) \/ other = Head(frames)
<1>1. Tail(frames) \in Seq(S) /\ Len(Tail(frames)) = Len(frames) - 1 /\ Len(frames) \in Nat \ {0}
  OBVIOUS
<1>2. \A i \in 1 .. Len(frames) - 1 : Tail(frames)[i] = frames[i + 1]
  OBVIOUS
<1>3. ASSUME Occurs(other, Tail(frames)) PROVE Occurs(other, frames)
  <2>1. PICK i \in 1 .. Len(frames) - 1 : frames[i + 1] = other
    BY <1>1, <1>2, <1>3 DEF Occurs
  <2>2. i + 1 \in 1 .. Len(frames)
    BY <1>1
  <2> QED BY <2>1, <2>2 DEF Occurs
<1>4. ASSUME Occurs(other, frames), other # frames[1] PROVE Occurs(other, Tail(frames))
  <2>1. PICK i \in 1 .. Len(frames) : frames[i] = other
    BY <1>4 DEF Occurs
  <2>2. i - 1 \in 1 .. Len(frames) - 1
    BY <1>1, <1>4, <2>1
  <2>3. Tail(frames)[i - 1] = other
    BY <1>2, <2>1, <2>2
  <2> QED BY <1>1, <2>2, <2>3 DEF Occurs
<1>5. Head(frames) = frames[1] /\ 1 \in 1 .. Len(frames)
  BY <1>1
<1> QED BY <1>1, <1>3, <1>4, <1>5 DEF Occurs

\* A frame behind a REGISTER, or one that is no message, keeps the order.
LEMMA AppendAhead ==
    ASSUME FrameTypes, MessagesBehind, NEW frame \in Frames,
           up' = Append(up, frame), greeted' = greeted,
           frame = "message" => greeted \/ Occurs("register", up)
    PROVE  MessagesBehind'
<1> SUFFICES ASSUME NEW i \in 1 .. Len(up'), up'[i] = "message", ~greeted
             PROVE  \E j \in 1 .. i - 1 : up'[j] = "register"
  BY DEF MessagesBehind
<1>1. Len(up') = Len(up) + 1 /\ up'[Len(up) + 1] = frame /\ Len(up) \in Nat
      /\ \A j \in 1 .. Len(up) : up'[j] = up[j]
  BY DEF FrameTypes
<1>2. CASE i \in 1 .. Len(up)
  <2>1. PICK j \in 1 .. i - 1 : up[j] = "register"
    BY <1>1, <1>2 DEF MessagesBehind
  <2> QED BY <1>1, <1>2, <2>1
<1>3. CASE i = Len(up) + 1
  <2>1. PICK j \in 1 .. Len(up) : up[j] = "register"
    BY <1>1, <1>3 DEF Occurs
  <2> QED BY <1>1, <1>3, <2>1
<1> QED BY <1>1, <1>2, <1>3

LEMMA TailAhead ==
    ASSUME FrameTypes, MessagesBehind, up # <<>>, up' = Tail(up),
           greeted' = (greeted \/ Head(up) = "register")
    PROVE  MessagesBehind'
<1>0. Head(up) = up[1]
  BY DEF FrameTypes
<1> SUFFICES ASSUME NEW i \in 1 .. Len(up'), up'[i] = "message", ~greeted'
             PROVE  \E j \in 1 .. i - 1 : up'[j] = "register"
  BY DEF MessagesBehind
<1>1. Len(up') = Len(up) - 1 /\ Len(up) \in Nat \ {0}
      /\ \A j \in 1 .. Len(up) - 1 : up'[j] = up[j + 1]
  BY DEF FrameTypes
<1>2. i + 1 \in 1 .. Len(up) /\ up[i + 1] = "message"
  BY <1>1
<1>3. ~greeted /\ up[1] # "register"
  BY <1>0
<1>4. PICK j \in 1 .. (i + 1) - 1 : up[j] = "register"
  BY <1>2, <1>3 DEF MessagesBehind
<1>5. j - 1 \in 1 .. i - 1 /\ j - 1 \in 1 .. Len(up) - 1 /\ j = (j - 1) + 1
  BY <1>1, <1>3, <1>4
<1>6. up'[j - 1] = "register"
  BY <1>1, <1>4, <1>5
<1> QED BY <1>5, <1>6

LEMMA TransportStart == TransportInit => TInv
BY DEF TransportInit, TInv, FrameTypes, SenderRegistered, FlagIsCurrent, AnswerIsCurrent,
   Announced, RegisterAhead, MessagesBehind, RegisterFirst, Occurs

\* Frames submitted from other threads: no message unless registered once.
LEMMA SubmitOccurs ==
    ASSUME FrameTypes, NEW frame \in Frames, Submit(frame)
    PROVE  /\ tasks' \in Seq(Frames)
           /\ Occurs("message", tasks') => Occurs("message", tasks) \/ frame = "message"
BY AppendOccurs DEF FrameTypes, Submit

-----------------------------------------------------------------------------
LEMMA CallerKeeps ==
    ASSUME TInv,
           Start \/ ConnectResult \/ SubmitRegister \/ RegisterResult \/ Stop
           \/ Send \/ NewGroup \/ Rename
    PROVE  TInv'
<1> USE DEF SyncGroups
<1>1. UNCHANGED <<up, down, greeted, unannounced>>
  BY DEF Start, ConnectResult, SubmitRegister, RegisterResult, Stop, Send, NewGroup, Rename,
     wire, hubSide
<1>2. caller' # "failed" => caller # "failed"
  BY DEF Start, ConnectResult, SubmitRegister, RegisterResult, Stop, Send, NewGroup, Rename
<1>3. once => once'
  BY DEF Start, ConnectResult, SubmitRegister, RegisterResult, Stop, Send, NewGroup, Rename, flags
<1>4. once' => once \/ registered
  BY DEF Start, ConnectResult, SubmitRegister, RegisterResult, Stop, Send, NewGroup, Rename, flags
<1>5. caller' \in {"started", "stopped"} => once'
  BY DEF Start, ConnectResult, SubmitRegister, RegisterResult, Stop, Send, NewGroup, Rename,
     flags, TInv, SenderRegistered
<1>6. registered' => registered
  BY DEF Start, ConnectResult, SubmitRegister, RegisterResult, Stop, Send, NewGroup, Rename,
     flags, Disconnect, ClearFlags
<1>7. registered' => thread' = thread
  BY DEF Start, ConnectResult, SubmitRegister, RegisterResult, Stop, Send, NewGroup, Rename,
     flags, TInv, FlagIsCurrent
<1>8. sock' = "open" => sock = "open"
  BY DEF Start, ConnectResult, SubmitRegister, RegisterResult, Stop, Send, NewGroup, Rename,
     wire, Disconnect
<1>9. FrameTypes' /\ SenderRegistered'
  <2>1. tasks' = tasks \/ Submit("register") \/ Submit("groups") \/ (Send /\ Submit("message"))
    BY DEF Start, ConnectResult, SubmitRegister, RegisterResult, Stop, Send, NewGroup, Rename
  <2>2. tasks' \in Seq(Frames) /\ (Occurs("message", tasks') => Occurs("message", tasks) \/ Send)
    <3>1. CASE tasks' = tasks
      BY <3>1 DEF TInv, FrameTypes
    <3>2. ASSUME NEW frame \in {"register", "groups"}, Submit(frame)
          PROVE  tasks' \in Seq(Frames) /\ (Occurs("message", tasks') => Occurs("message", tasks))
      BY <3>2, SubmitOccurs DEF TInv, Frames
    <3>3. CASE Send /\ Submit("message")
      BY <3>3, SubmitOccurs, FrameKinds DEF TInv
    <3> QED BY <2>1, <3>1, <3>2, <3>3
  <2>3. Send => once \/ caller = "failed"
    BY DEF Send, Returned, TInv, SenderRegistered
  <2>4. Occurs("message", tasks') => once \/ caller = "failed"
    BY <2>2, <2>3 DEF TInv, SenderRegistered
  <2>5. SenderRegistered'
    BY <1>2, <1>3, <1>5, <2>4 DEF SenderRegistered
  <2> QED BY <1>1, <2>2, <2>5 DEF TInv, FrameTypes
<1>10. FlagIsCurrent'
  <2>1. caller' = "new" => caller = "new" /\ thread' = thread
    BY DEF Start, ConnectResult, SubmitRegister, RegisterResult, Stop, Send, NewGroup, Rename, Returned
  <2> QED BY <1>6, <1>7, <2>1 DEF TInv, FlagIsCurrent
<1>11. AnswerIsCurrent' /\ RegisterAhead' /\ RegisterFirst'
  BY <1>1, <1>2 DEF TInv, AnswerIsCurrent, RegisterAhead, MessagesBehind, RegisterFirst
<1>12. Announced'
  BY <1>1, <1>4, <1>6, <1>8 DEF TInv, Announced
<1> QED BY <1>9, <1>10, <1>11, <1>12 DEF TInv

LEMMA ThreadKeeps ==
    ASSUME TInv, ThreadStep
    PROVE  TInv'
<1>1. CASE ThreadConnect
  <2>1. /\ thread = "connect" /\ UNCHANGED <<registered, once, tasks, caller, unannounced>>
        /\ thread' \in {"read", "stop"}
    BY <1>1 DEF ThreadConnect
  <2>2. ~registered
    BY <2>1 DEF TInv, FlagIsCurrent
  <2>3. CASE hub = "up"
    <3>1. up' = Greeting /\ down' = <<>>
      BY <1>1, <2>3 DEF ThreadConnect
    <3>2. up' = IF once THEN <<"register">> ELSE <<>>
      BY <2>2, <3>1 DEF Greeting
    <3>3. FrameTypes'
      <4>1. up' \in Seq(Frames)
        BY <3>2, ShortSequences, FrameKinds
      <4>2. down' \in Seq({"registered", "not_registered"})
        BY <3>1, ShortSequences
      <4> QED BY <2>1, <4>1, <4>2 DEF TInv, FrameTypes
    <3>4. RegisterAhead' /\ (once => Occurs("register", up'))
      BY <3>2 DEF RegisterAhead, MessagesBehind, Occurs
    <3>5. ~Occurs("registered", down')
      BY <3>1 DEF Occurs
    <3> QED
      BY <2>1, <2>2, <3>3, <3>4, <3>5 DEF TInv, SenderRegistered, FlagIsCurrent,
         AnswerIsCurrent, Announced, RegisterFirst, Occurs
  <2>4. CASE hub # "up"
    <3>1. UNCHANGED <<sock, up, down, greeted>>
      BY <1>1, <2>4 DEF ThreadConnect, wire
    <3> QED
      BY <2>1, <2>2, <3>1 DEF TInv, FrameTypes, SenderRegistered, FlagIsCurrent,
         AnswerIsCurrent, Announced, RegisterAhead, MessagesBehind, RegisterFirst, Occurs
  <2> QED BY <2>3, <2>4
<1>2. CASE ThreadRead
  <2>1. /\ thread = "read" /\ down # <<>> /\ down' = Tail(down)
        /\ UNCHANGED <<once, thread, caller, sock, greeted, unannounced>>
        /\ tasks' = tasks \/ Submit("groups")
    BY <1>2 DEF ThreadRead, AfterRegister, SyncGroups, hubSide
  <2>2. down' \in Seq({"registered", "not_registered"})
        /\ (Occurs("registered", down') => Occurs("registered", down))
        /\ (Head(down) = "registered" => Occurs("registered", down))
    BY <2>1, TailOccurs DEF TInv, FrameTypes
  <2>3. registered' => registered \/ greeted
    BY <1>2, <2>2 DEF ThreadRead, TInv, AnswerIsCurrent
  <2>4. up' = up \/ up' = Append(up, "groups")
    BY <1>2 DEF ThreadRead, AfterRegister, Write
  <2>5. up' \in Seq(Frames) /\ (Occurs("register", up) => Occurs("register", up'))
    <3>1. up \in Seq(Frames)
      BY DEF TInv, FrameTypes
    <3>2. Append(up, "groups") \in Seq(Frames)
          /\ (Occurs("register", up) => Occurs("register", Append(up, "groups")))
      BY <3>1, AppendOccurs, FrameKinds
    <3> QED BY <2>4, <3>1, <3>2
  <2>6. RegisterAhead'
    <3>1. CASE up' = up
      BY <2>1, <3>1 DEF TInv, RegisterAhead, MessagesBehind
    <3>2. CASE up' = Append(up, "groups")
      BY <2>1, <3>2, AppendAhead DEF TInv, Frames, RegisterAhead
    <3> QED BY <2>4, <3>1, <3>2
  <2>7. tasks' \in Seq(Frames) /\ (Occurs("message", tasks') => Occurs("message", tasks))
    <3>1. CASE tasks' = tasks
      BY <3>1 DEF TInv, FrameTypes
    <3>2. CASE Submit("groups")
      BY <3>2, SubmitOccurs DEF TInv, Frames
    <3> QED BY <2>1, <3>1, <3>2
  <2>8. FrameTypes' /\ AnswerIsCurrent' /\ Announced'
    BY <2>1, <2>2, <2>3, <2>5, <2>7 DEF TInv, FrameTypes, AnswerIsCurrent, Announced
  <2> QED
    BY <2>1, <2>6, <2>7, <2>8 DEF TInv, SenderRegistered, FlagIsCurrent, RegisterFirst
<1>3. CASE ThreadEof
  <2>1. thread = "read" /\ thread' = "stop"
        /\ UNCHANGED <<registered, once, tasks, caller, sock, up, down, greeted, unannounced>>
    BY <1>3 DEF ThreadEof, flags, wire, hubSide
  <2> QED
    BY <2>1 DEF TInv, FrameTypes, SenderRegistered, FlagIsCurrent, AnswerIsCurrent,
       Announced, RegisterAhead, MessagesBehind, RegisterFirst, Occurs
<1>4. CASE ThreadStop
  <2>1. /\ ~registered' /\ sock' = "none" /\ up' = <<>> /\ down' = <<>>
        /\ tasks' \in {tasks, <<>>} /\ thread # "none"
        /\ UNCHANGED <<once, caller, greeted, unannounced>>
    BY <1>4 DEF ThreadStop, ClearFlags
  <2>2. FrameTypes'
    BY <2>1, ShortSequences, FrameKinds DEF TInv, FrameTypes
  <2>3. SenderRegistered'
    BY <2>1 DEF TInv, SenderRegistered, Occurs
  <2> QED
    BY <2>1, <2>2, <2>3 DEF TInv, FlagIsCurrent, AnswerIsCurrent, Announced, RegisterAhead,
       MessagesBehind, RegisterFirst, Occurs
<1>5. CASE ThreadWake
  <2>1. /\ thread = "sleep" /\ tasks' \in {tasks, <<>>}
        /\ UNCHANGED <<registered, once, caller, sock, up, down, greeted, unannounced>>
    BY <1>5 DEF ThreadWake, flags, wire, hubSide
  <2>2. FrameTypes' /\ ~registered
    BY <2>1, ShortSequences, FrameKinds DEF TInv, FrameTypes, FlagIsCurrent
  <2>3. SenderRegistered'
    BY <2>1 DEF TInv, SenderRegistered, Occurs
  <2> QED
    BY <2>1, <2>2, <2>3 DEF TInv, FlagIsCurrent, AnswerIsCurrent, Announced, RegisterAhead,
       MessagesBehind, RegisterFirst, Occurs
<1> QED BY <1>1, <1>2, <1>3, <1>4, <1>5 DEF ThreadStep

LEMMA WriteKeeps ==
    ASSUME TInv, RunTask \/ Heartbeat
    PROVE  TInv'
<1>1. UNCHANGED <<registered, once, thread, caller, sock, down, greeted, unannounced>>
  BY DEF RunTask, Heartbeat, flags, hubSide
<1>2. /\ tasks' \in Seq(Frames)
      /\ Occurs("message", tasks') => Occurs("message", tasks)
  BY TailOccurs DEF RunTask, Heartbeat, TInv, FrameTypes
<1>3. ASSUME NEW frame \in Frames, up' = Write(frame),
             frame = "message" => once \/ caller = "failed"
      PROVE  TInv'
  <2>1. CASE sock # "open"
    <3>1. up' = up
      BY <1>3, <2>1 DEF Write
    <3>2. FrameTypes' /\ SenderRegistered' /\ Announced'
      BY <1>1, <1>2, <3>1 DEF TInv, FrameTypes, SenderRegistered, Announced
    <3> QED
      BY <1>1, <3>1, <3>2 DEF TInv, FlagIsCurrent, AnswerIsCurrent, RegisterAhead, MessagesBehind,
         RegisterFirst
  <2>2. CASE sock = "open"
    <3>1. up' = Append(up, frame)
      BY <1>3, <2>2 DEF Write
    <3>2. up' \in Seq(Frames) /\ (Occurs("register", up) => Occurs("register", up'))
      BY <3>1, AppendOccurs DEF TInv, FrameTypes, Frames
    <3>3. frame = "message" /\ caller # "failed" => greeted \/ Occurs("register", up)
      BY <1>3, <2>2 DEF TInv, Announced
    <3>4. RegisterAhead'
      BY <1>1, <1>3, <3>1, <3>3, AppendAhead DEF TInv, RegisterAhead
    <3>5. FrameTypes' /\ SenderRegistered' /\ Announced'
      BY <1>1, <1>2, <3>2 DEF TInv, FrameTypes, SenderRegistered, Announced
    <3> QED
      BY <1>1, <3>4, <3>5 DEF TInv, FlagIsCurrent, AnswerIsCurrent, RegisterFirst
  <2> QED BY <2>1, <2>2
<1>4. CASE RunTask
  <2>1. Head(tasks) \in Frames /\ (Head(tasks) = "message" => once \/ caller = "failed")
    BY <1>4, TailOccurs DEF RunTask, TInv, FrameTypes, SenderRegistered
  <2> QED BY <1>3, <1>4, <2>1 DEF RunTask
<1>5. CASE Heartbeat
  BY <1>3, <1>5 DEF Heartbeat, Frames
<1> QED BY <1>4, <1>5

LEMMA HubKeeps ==
    ASSUME TInv, HubHandle
    PROVE  TInv'
<1> DEFINE frame == Head(up)
<1>1. /\ up # <<>> /\ up' = Tail(up) /\ greeted' = (greeted \/ frame = "register")
      /\ unannounced' = (unannounced \/ (frame = "message" /\ ~greeted))
      /\ UNCHANGED <<registered, once, thread, tasks, caller, sock>>
  BY DEF HubHandle, flags
<1>2. up' \in Seq(Frames)
      /\ (Occurs("register", up) <=> Occurs("register", up') \/ frame = "register")
  BY <1>1, TailOccurs DEF TInv, FrameTypes
<1>3. \/ down' = down
      \/ down' = Append(down, "not_registered")
      \/ frame = "register" /\ down' = Append(down, "registered")
  BY DEF HubHandle
<1>4. down' \in Seq({"registered", "not_registered"})
      /\ (Occurs("registered", down') => Occurs("registered", down) \/ frame = "register")
  <2>1. CASE down' = down
    BY <2>1 DEF TInv, FrameTypes
  <2>2. CASE down' = Append(down, "not_registered")
    BY <2>2, AppendOccurs DEF TInv, FrameTypes
  <2>3. CASE frame = "register" /\ down' = Append(down, "registered")
    BY <2>3, AppendOccurs DEF TInv, FrameTypes
  <2> QED BY <1>3, <2>1, <2>2, <2>3
<1>5. FrameTypes' /\ AnswerIsCurrent' /\ Announced'
  BY <1>1, <1>2, <1>4 DEF TInv, FrameTypes, AnswerIsCurrent, Announced
<1>6. RegisterAhead'
  BY <1>1, TailAhead DEF TInv, RegisterAhead
<1>7. RegisterFirst'
  <2>1. Head(up) = up[1] /\ 1 \in 1 .. Len(up)
    BY <1>1 DEF TInv, FrameTypes
  <2>2. frame = "message" /\ caller # "failed" => greeted
    BY <2>1 DEF TInv, RegisterAhead, MessagesBehind
  <2> QED BY <1>1, <2>2 DEF TInv, RegisterFirst
<1> QED
  BY <1>1, <1>5, <1>6, <1>7 DEF TInv, SenderRegistered, FlagIsCurrent, Occurs

LEMMA FaultKeeps ==
    ASSUME TInv, HubDrops \/ Break \/ HubStops \/ HubStarts
    PROVE  TInv'
<1>1. UNCHANGED <<registered, once, thread, tasks, caller, up, down, greeted, unannounced>>
      /\ (sock' = "open" => sock = "open")
  BY DEF HubDrops, Break, HubStops, HubStarts, flags, wire
<1> QED
  BY <1>1 DEF TInv, FrameTypes, SenderRegistered, FlagIsCurrent, AnswerIsCurrent,
     Announced, RegisterAhead, MessagesBehind, RegisterFirst, Occurs

LEMMA TransportStep == TInv /\ [TransportNext]_transportVars => TInv'
<1> SUFFICES ASSUME TInv, [TransportNext]_transportVars PROVE TInv'
  OBVIOUS
<1>1. CASE UNCHANGED transportVars
  BY <1>1 DEF transportVars, flags, wire, hubSide, TInv, FrameTypes, SenderRegistered,
     FlagIsCurrent, AnswerIsCurrent, Announced, RegisterAhead, MessagesBehind, RegisterFirst, Occurs
<1> QED
  BY <1>1, CallerKeeps, ThreadKeeps, WriteKeeps, HubKeeps, FaultKeeps DEF TransportNext

\* RegistersFirst: the Hub handles no message of a client whose start() did not
\* fail on a connection before its REGISTER, for any number of reconnections, stops of the Hub and frames.
THEOREM RegistersFirst == TransportSpec => []RegisterFirst
<1>1. TInv => RegisterFirst
  BY DEF TInv
<1> QED BY <1>1, TransportStart, TransportStep, PTL DEF TransportSpec

\* The attempts are counted up to the one that ends the thread.
AttemptsBounded ==
    /\ caller = "new" => thread = "none"
    /\ attempts \in 0 .. MaxAttempts + 1
    /\ thread # "ended" => attempts <= MaxAttempts

FlagTypes ==
    /\ connected \in BOOLEAN /\ connecting \in BOOLEAN /\ registered \in BOOLEAN
    /\ running \in BOOLEAN /\ once \in BOOLEAN /\ joined \in BOOLEAN /\ snapshot \in BOOLEAN
    /\ entry \in BOOLEAN /\ greeted \in BOOLEAN /\ routed \in BOOLEAN

StageTypes ==
    /\ thread \in {"none", "connect", "read", "stop", "sleep", "ended"}
    /\ caller \in {"new", "connect", "submit", "register", "failed", "started", "stopped"}
    /\ sock \in {"none", "open", "closed"} /\ hub \in {"up", "down"}

LEMMA AttemptsStep == AttemptsBounded /\ [TransportNext]_transportVars => AttemptsBounded'
<1> SUFFICES ASSUME AttemptsBounded, [TransportNext]_transportVars PROVE AttemptsBounded'
  OBVIOUS
<1> USE ClientTransportAssumption DEF ClientTransportAssumption, AttemptsBounded
<1>1. CASE UNCHANGED <<caller, thread, attempts>>
  BY <1>1
<1>2. CASE Start
  BY <1>2 DEF Start
<1>3. CASE ConnectResult \/ SubmitRegister \/ RegisterResult \/ Stop
  BY <1>3 DEF ConnectResult, SubmitRegister, RegisterResult, Stop
<1>4. CASE Send \/ NewGroup \/ Rename \/ RunTask \/ Heartbeat \/ HubHandle \/ HubDrops \/ Break
           \/ HubStops \/ HubStarts
  BY <1>1, <1>4 DEF Send, NewGroup, Rename, RunTask, Heartbeat, HubHandle, HubDrops, Break, HubStops,
     HubStarts
<1>5. CASE ThreadConnect \/ ThreadRead \/ ThreadEof \/ ThreadWake
  BY <1>5 DEF ThreadConnect, ThreadRead, ThreadEof, ThreadWake
<1>6. CASE ThreadStop
  BY <1>6 DEF ThreadStop, GivesUp
<1>7. CASE UNCHANGED transportVars
  BY <1>1, <1>7 DEF transportVars
<1> QED BY <1>2, <1>3, <1>4, <1>5, <1>6, <1>7 DEF TransportNext, ThreadStep

LEMMA StageStep == StageTypes /\ [TransportNext]_transportVars => StageTypes'
<1> SUFFICES ASSUME StageTypes, [TransportNext]_transportVars PROVE StageTypes'
  OBVIOUS
<1> USE DEF StageTypes
<1>1. CASE UNCHANGED <<thread, caller, sock, hub>>
  BY <1>1
<1>2. CASE Start \/ ConnectResult \/ SubmitRegister \/ RegisterResult \/ Stop
  BY <1>2 DEF Start, ConnectResult, SubmitRegister, RegisterResult, Stop, Disconnect, wire, hubSide
<1>3. CASE Send \/ NewGroup \/ Rename \/ RunTask \/ Heartbeat \/ HubHandle
  BY <1>1, <1>3 DEF Send, NewGroup, Rename, RunTask, Heartbeat, HubHandle, wire, hubSide
<1>4. CASE HubDrops \/ Break \/ HubStops \/ HubStarts
  BY <1>4 DEF HubDrops, Break, HubStops, HubStarts, wire
<1>5. CASE ThreadConnect \/ ThreadRead \/ ThreadEof \/ ThreadStop \/ ThreadWake
  BY <1>5 DEF ThreadConnect, ThreadRead, ThreadEof, ThreadStop, ThreadWake, wire, hubSide
<1>6. CASE UNCHANGED transportVars
  BY <1>1, <1>6 DEF transportVars, wire, hubSide
<1> QED BY <1>2, <1>3, <1>4, <1>5, <1>6 DEF TransportNext, ThreadStep

LEMMA FlagsStep == FlagTypes /\ [TransportNext]_transportVars => FlagTypes'
<1> SUFFICES ASSUME FlagTypes, [TransportNext]_transportVars PROVE FlagTypes'
  OBVIOUS
<1> DEFINE Connection == /\ connected' \in BOOLEAN /\ connecting' \in BOOLEAN /\ registered' \in BOOLEAN
                         /\ running' \in BOOLEAN /\ once' \in BOOLEAN
           Listing == joined' \in BOOLEAN /\ snapshot' \in BOOLEAN
           Hub == entry' \in BOOLEAN /\ greeted' \in BOOLEAN /\ routed' \in BOOLEAN
<1>1. UNCHANGED flags => Connection
  BY DEF flags, FlagTypes
<1>2. UNCHANGED lists => Listing
  BY DEF lists, FlagTypes
<1>3. UNCHANGED <<entry, greeted, routed>> => Hub
  BY DEF FlagTypes
<1>4. \A has \in BOOLEAN : \A possible : SyncGroups(has, possible) => Listing
  BY DEF SyncGroups
<1>5. joined \in BOOLEAN
  BY DEF FlagTypes
<1>6. CASE Start \/ ConnectResult \/ SubmitRegister \/ RegisterResult \/ Stop
  <2>1. Connection
    BY <1>6 DEF Start, ConnectResult, SubmitRegister, RegisterResult, Stop, Disconnect, ClearFlags,
       FlagTypes
  <2>2. Listing
    BY <1>2, <1>4, <1>5, <1>6 DEF Start, ConnectResult, SubmitRegister, RegisterResult, Stop
  <2>3. Hub
    BY <1>3, <1>6 DEF Start, ConnectResult, SubmitRegister, RegisterResult, Stop, hubSide
  <2> QED BY <2>1, <2>2, <2>3 DEF FlagTypes
<1>7. CASE Send \/ Rename \/ NewGroup \/ RunTask \/ Heartbeat
  <2>1. UNCHANGED <<flags, hubSide>> /\ (UNCHANGED lists \/ \E possible : SyncGroups(TRUE, possible))
    BY <1>7 DEF Send, Rename, NewGroup, RunTask, Heartbeat
  <2>2. UNCHANGED <<entry, greeted, routed>>
    BY <2>1 DEF hubSide
  <2> QED BY <1>1, <1>2, <1>3, <1>4, <2>1, <2>2 DEF FlagTypes
<1>8. CASE HubHandle \/ Break \/ HubDrops \/ HubStops \/ HubStarts
  <2>1. UNCHANGED <<flags, lists>>
    BY <1>8 DEF HubHandle, Break, HubDrops, HubStops, HubStarts
  <2>2. HubHandle => Hub
    BY Zenon DEF HubHandle, FlagTypes
  <2>3. Hub
    BY <1>8, <2>2 DEF HubHandle, Break, HubDrops, HubStops, HubStarts, FlagTypes
  <2> QED BY <1>1, <1>2, <2>1, <2>3 DEF FlagTypes
<1>9. CASE ThreadConnect \/ ThreadRead \/ ThreadEof \/ ThreadStop \/ ThreadWake
  <2>1. Connection
    BY <1>9 DEF ThreadConnect, ThreadRead, ThreadEof, ThreadStop, ThreadWake, ClearFlags, flags,
       FlagTypes
  <2>2. Listing
    BY <1>2, <1>4, <1>5, <1>9 DEF ThreadConnect, ThreadRead, AfterRegister, ThreadEof, ThreadStop,
       ThreadWake
  <2>3. Hub
    BY <1>9 DEF ThreadConnect, ThreadRead, ThreadEof, ThreadStop, ThreadWake, hubSide, FlagTypes
  <2> QED BY <2>1, <2>2, <2>3 DEF FlagTypes
<1>10. CASE UNCHANGED transportVars
  BY <1>1, <1>2, <1>3, <1>10 DEF transportVars, hubSide, FlagTypes
<1> QED BY <1>6, <1>7, <1>8, <1>9, <1>10 DEF TransportNext, ThreadStep

\* The transport's state has its types, and its thread never makes more than
\* one attempt beyond those configured before it ends.
THEOREM TransportTypeCorrect == TransportSpec => []TransportTypeOK
<1>1. TransportInit => AttemptsBounded /\ StageTypes /\ FlagTypes
  <2> SUFFICES ASSUME TransportInit PROVE AttemptsBounded /\ StageTypes /\ FlagTypes
    OBVIOUS
  <2>1. AttemptsBounded
    BY ClientTransportAssumption DEF ClientTransportAssumption, TransportInit, AttemptsBounded
  <2>2. StageTypes /\ FlagTypes
    BY DEF TransportInit, StageTypes, FlagTypes
  <2> QED BY <2>1, <2>2
<1>2. TransportSpec => [](AttemptsBounded /\ StageTypes /\ FlagTypes)
  BY <1>1, AttemptsStep, StageStep, FlagsStep, PTL DEF TransportSpec
<1>3. TransportSpec => []TInv
  BY TransportStart, TransportStep, PTL DEF TransportSpec
<1>4. AttemptsBounded /\ StageTypes /\ FlagTypes /\ TInv => TransportTypeOK
  BY DEF AttemptsBounded, StageTypes, FlagTypes, TInv, FrameTypes, TransportTypeOK
<1> QED BY <1>2, <1>3, <1>4, PTL

-----------------------------------------------------------------------------
(* The host of a Hub, for any number of Hub processes and files: the runtime  *)
(* marker tells the admin commands the truth, and a temporary file can be     *)
(* fetched from the moment its notice goes out.                               *)

MarkerTypes ==
    /\ proc \in [Hubs -> {"new", "starting", "on", "stopping", "gone"}]
    /\ marker = NoMarker \/ marker \in [hub : Hubs, machine : Machines, status : {"running", "stopped"}]
    /\ machine \in Machines /\ host \in [Hubs -> Machines \cup {NoMarker}]
    /\ overlap \in BOOLEAN

Alive(h) == proc[h] \in {"starting", "on", "stopping"}

\* Until two Hubs have met on the directory at most one runs.
OneRuns == ~overlap => \A h, k \in Hubs : Alive(h) /\ Alive(k) => h = k

\* Only a Hub that came to listen writes the marker.
WriterListened == marker # NoMarker => proc[marker.hub] \in {"on", "stopping", "gone"}

\* The Hub that serves is the one the marker names.
ServingIsMarked ==
    ~overlap => \A h \in Hubs : Serving(h) =>
        /\ marker = [hub |-> h, machine |-> host[h], status |-> "running"]
        /\ host[h] \in Machines

MarkerInv == MarkerTypes /\ OneRuns /\ WriterListened /\ ServingIsMarked

LEMMA MarkerInit == HubHostInit => MarkerInv
BY HubHostAssumption DEF HubHostInit, MarkerInv, MarkerTypes, OneRuns, WriterListened,
   ServingIsMarked, Alive, Serving

LEMMA StartKeepsMarker ==
    ASSUME MarkerInv, NEW h \in Hubs, StartHub(h)
    PROVE  MarkerInv'
<1>1. /\ proc[h] = "new" /\ proc' = [proc EXCEPT ![h] = "starting"] /\ UNCHANGED <<marker, ids>>
      /\ overlap' = (overlap \/ \E k \in Hubs : Alive(k))
  BY DEF StartHub, Alive
<1>2. MarkerTypes'
  BY <1>1 DEF MarkerInv, MarkerTypes, ids
<1>3. OneRuns'
  BY <1>1 DEF MarkerInv, MarkerTypes, OneRuns, Alive
<1>4. WriterListened'
  BY <1>1, HubHostAssumption DEF MarkerInv, MarkerTypes, WriterListened
<1>5. ServingIsMarked'
  BY <1>1 DEF MarkerInv, MarkerTypes, ServingIsMarked, Serving, ids
<1> QED BY <1>2, <1>3, <1>4, <1>5 DEF MarkerInv

LEMMA StartResultKeepsMarker ==
    ASSUME MarkerInv, NEW h \in Hubs, StartResult(h)
    PROVE  MarkerInv'
<1>1. proc[h] = "starting" /\ overlap' = overlap /\ machine' = machine
  BY DEF StartResult
<1>2. CASE proc' = [proc EXCEPT ![h] = "on"] /\ WriteMarker(h)
  <2>1. MarkerTypes'
    BY <1>1, <1>2 DEF MarkerInv, MarkerTypes, WriteMarker
  <2>2. OneRuns'
    BY <1>1, <1>2 DEF MarkerInv, MarkerTypes, OneRuns, Alive
  <2>3. WriterListened'
    BY <1>1, <1>2 DEF MarkerInv, MarkerTypes, WriterListened, WriteMarker
  <2>4. ServingIsMarked'
    BY <1>1, <1>2 DEF MarkerInv, MarkerTypes, OneRuns, ServingIsMarked, WriteMarker,
       Serving, Alive
  <2> QED BY <2>1, <2>2, <2>3, <2>4 DEF MarkerInv
<1>3. CASE proc' = [proc EXCEPT ![h] = "gone"] /\ UNCHANGED <<marker, host>>
  BY <1>1, <1>3 DEF MarkerInv, MarkerTypes, OneRuns, WriterListened, ServingIsMarked,
     Serving, Alive
<1> QED BY <1>2, <1>3 DEF StartResult

LEMMA EndKeepsMarker ==
    ASSUME MarkerInv, NEW h \in Hubs, StopHub(h) \/ StopResult(h) \/ KillHub(h)
    PROVE  MarkerInv'
<1>1. overlap' = overlap /\ machine' = machine
  BY DEF StopHub, StopResult, KillHub, ids
<1>2. CASE StopHub(h)
  <2>1. /\ proc[h] = "on" /\ proc' = [proc EXCEPT ![h] = "stopping"]
        /\ marker' = marker /\ host' = host
    BY <1>2 DEF StopHub, ids
  <2> QED
    BY <1>1, <2>1 DEF MarkerInv, MarkerTypes, OneRuns, WriterListened, ServingIsMarked,
       Serving, Alive
<1>3. CASE KillHub(h)
  <2>1. /\ Alive(h) /\ proc' = [proc EXCEPT ![h] = "gone"]
        /\ marker' = marker /\ host' = [host EXCEPT ![h] = NoMarker]
    BY <1>3 DEF KillHub, Alive
  <2> QED
    BY <1>1, <2>1 DEF MarkerInv, MarkerTypes, OneRuns, WriterListened, ServingIsMarked,
       Serving, Alive
<1>4. CASE StopResult(h)
  <2>1. /\ proc[h] = "stopping" /\ proc' = [proc EXCEPT ![h] = "gone"] /\ MarkStopped
        /\ host' = [host EXCEPT ![h] = NoMarker]
    BY <1>4 DEF StopResult
  <2>2. MarkerTypes'
    BY <1>1, <2>1 DEF MarkerInv, MarkerTypes, MarkStopped
  <2>3. OneRuns'
    BY <1>1, <2>1 DEF MarkerInv, MarkerTypes, OneRuns, Alive
  <2>4. WriterListened'
    BY <2>1 DEF MarkerInv, MarkerTypes, WriterListened, MarkStopped
  <2>5. ServingIsMarked'
    BY <1>1, <2>1 DEF MarkerInv, MarkerTypes, OneRuns, ServingIsMarked, Serving, Alive
  <2> QED BY <2>2, <2>3, <2>4, <2>5 DEF MarkerInv
<1> QED BY <1>2, <1>3, <1>4

LEMMA MarkerStep == MarkerInv /\ [HubHostNext]_hubHostVars => MarkerInv'
<1> SUFFICES ASSUME MarkerInv, [HubHostNext]_hubHostVars PROVE MarkerInv'
  OBVIOUS
<1>1. CASE UNCHANGED <<proc, marker, ids, overlap>>
  BY <1>1 DEF MarkerInv, MarkerTypes, OneRuns, WriterListened, ServingIsMarked, Serving, Alive, ids
<1>2. ASSUME NEW h \in Hubs, Recycle(h) \/ UploadStep(h) \/ UploadAnswer(h) \/ Cleanup(h)
      PROVE  UNCHANGED <<proc, marker, ids, overlap>>
  BY <1>2 DEF Recycle, UploadStep, UploadAnswer, Cleanup
<1>3. ASSUME NEW h \in Hubs, NEW f \in Temps, UploadPart(h, f) \/ ReadStale(h, f)
      PROVE  UNCHANGED <<proc, marker, ids, overlap>>
  BY <1>3 DEF UploadPart, ReadStale
<1>4. ASSUME NEW x, IssueToken(x) \/ Destroy(x)
      PROVE  UNCHANGED <<proc, marker, ids, overlap>>
  BY <1>4 DEF IssueToken, Destroy
<1>5. ASSUME NEW f \in Temps, Prepare(f) \/ UploadFails(f) \/ SendNotice(f) \/ ExpireFile(f)
      PROVE  UNCHANGED <<proc, marker, ids, overlap>>
  BY <1>5 DEF Prepare, UploadFails, SendNotice, ExpireFile
<1>6. CASE UNCHANGED hubHostVars
  BY <1>1, <1>6 DEF hubHostVars
<1>7. ASSUME NEW id \in Machines, RenameMachine(id) PROVE MarkerInv'
  <2>1. machine' = id /\ UNCHANGED <<proc, marker, host, overlap>>
    BY <1>7 DEF RenameMachine
  <2> QED BY <2>1 DEF MarkerInv, MarkerTypes, OneRuns, WriterListened, ServingIsMarked, Serving, Alive
<1> QED
  BY <1>1, <1>2, <1>3, <1>4, <1>5, <1>6, <1>7, StartKeepsMarker, StartResultKeepsMarker,
     EndKeepsMarker DEF HubHostNext

LEMMA MarkerHolds == MarkerInv => MarkerHonest
<1> SUFFICES ASSUME MarkerInv, ~overlap, recycled = {}
             PROVE  LocalHubRunning <=> \E h \in Hubs : Serving(h) /\ host[h] = machine
  BY DEF MarkerHonest
<1>1. ASSUME LocalHubRunning PROVE \E h \in Hubs : Serving(h) /\ host[h] = machine
  <2>1. marker.hub \in Hubs /\ Serving(marker.hub) /\ marker.machine = machine
    BY <1>1 DEF LocalHubRunning, PidAlive, MarkerInv, MarkerTypes, WriterListened, Serving
  <2>2. marker.machine = host[marker.hub]
    BY <2>1 DEF MarkerInv, ServingIsMarked
  <2> QED BY <2>1, <2>2
<1>2. ASSUME NEW h \in Hubs, Serving(h), host[h] = machine PROVE LocalHubRunning
  <2>1. marker = [hub |-> h, machine |-> machine, status |-> "running"] /\ machine \in Machines
    BY <1>2 DEF MarkerInv, ServingIsMarked, MarkerTypes
  <2>2. marker # NoMarker
    BY <2>1, HubHostAssumption
  <2> QED BY <1>2, <2>1, <2>2 DEF LocalHubRunning, PidAlive, Serving
<1> QED BY <1>1, <1>2

\* MarkerIsHonest: the admin commands take a Hub to be running exactly when one
\* is that knew the machine by its present id, for any number of Hub processes
\* and machine ids and whatever else happens on the host.
THEOREM MarkerIsHonest == HostSpec => []MarkerHonest
<1> QED BY MarkerInit, MarkerStep, MarkerHolds, PTL DEF HostSpec
-----------------------------------------------------------------------------
(* Temporary files. *)

UploadSteps == {"part", "bin", "torn", "answer"}
Uploads == [file : Temps, step : UploadSteps] \cup {NoUpload}

FileTypes ==
    /\ bin \subseteq Temps /\ part \subseteq Temps
    /\ manifest \in [Temps -> {"none", "torn", "ok"}]
    /\ sender \in [Temps -> {"none", "prepared", "uploading", "uploaded", "failed", "sent"}]
    /\ upload \in [Hubs -> Uploads]
    /\ destroyed \in BOOLEAN

Calm == ~overlap /\ ~destroyed

\* Only a Hub that serves holds the lock of the store.
LockServed == \A h \in Hubs : upload[h] # NoUpload => Serving(h)

\* What an upload has on the disk after each of its steps.
Progress(h) ==
    LET f == upload[h].file IN
    /\ upload[h].step = "part" => manifest[f] = "none"
    /\ upload[h].step = "bin" => f \in bin /\ manifest[f] = "none"
    /\ upload[h].step = "torn" => f \in bin /\ manifest[f] = "torn"
    /\ upload[h].step = "answer" => f \in old \/ Served(f)

Uploaded(f) == sender[f] \in {"uploaded", "sent"} => f \in old \/ Served(f)

FileInv ==
    /\ MarkerInv /\ FileTypes /\ LockServed
    /\ Calm => \A h \in Hubs : Progress(h)
    /\ Calm => \A f \in Temps : Uploaded(f)

LEMMA FileInit == HubHostInit => FileInv
<1> SUFFICES ASSUME HubHostInit PROVE FileInv
  OBVIOUS
<1>1. MarkerInv
  BY MarkerInit
<1>2. FileTypes /\ LockServed
  BY DEF HubHostInit, FileTypes, LockServed, Uploads
<1>3. \A h \in Hubs : Progress(h)
  BY DEF HubHostInit, Progress, NoUpload
<1>4. \A f \in Temps : Uploaded(f)
  BY DEF HubHostInit, Uploaded
<1> QED BY <1>1, <1>2, <1>3, <1>4 DEF FileInv

\* A file that is served or expired stays so through a cleanup.
LEMMA CleanKeepsServed ==
    ASSUME FileTypes, Clean, UNCHANGED old, NEW f \in Temps, f \in old \/ Served(f)
    PROVE  (f \in old \/ Served(f))'
BY DEF FileTypes, Clean, Stale, Served

\* A cleanup under a free lock, or while the only Hub starts.
LEMMA CleaningKeepsFiles ==
    ASSUME FileInv, Clean, MarkerInv',
           UNCHANGED <<old, upload, sender, destroyed>>,
           Calm' => Calm /\ \A h \in Hubs : upload[h] = NoUpload,
           \A h \in Hubs : Serving(h) => Serving(h)'
    PROVE  FileInv'
<1>1. FileTypes'
  <2>1. bin' \subseteq Temps /\ part' \subseteq Temps
    BY DEF FileInv, FileTypes, Clean
  <2>2. manifest' \in [Temps -> {"none", "torn", "ok"}]
    BY DEF FileInv, FileTypes, Clean
  <2> QED BY <2>1, <2>2 DEF FileInv, FileTypes
<1>2. LockServed'
  BY DEF FileInv, LockServed
<1>3. Calm' => \A h \in Hubs : Progress(h)'
  BY DEF Progress, NoUpload
<1>4. Calm' => \A f \in Temps : Uploaded(f)'
  BY CleanKeepsServed DEF FileInv, Uploaded
<1> QED BY <1>1, <1>2, <1>3, <1>4 DEF FileInv

\* The store is in use by one Hub at a time.
LEMMA OneLock ==
    ASSUME FileInv, ~overlap, NEW h \in Hubs, NEW k \in Hubs, Alive(h), upload[k] # NoUpload
    PROVE  k = h
BY DEF FileInv, MarkerInv, OneRuns, LockServed, Alive, Serving

LEMMA CleanStepsKeepFiles ==
    ASSUME FileInv, MarkerInv', NEW h \in Hubs, StartResult(h) \/ Cleanup(h)
    PROVE  FileInv'
<1>1. Clean /\ UNCHANGED <<old, upload, sender, overlap, destroyed>>
  BY DEF StartResult, Cleanup
<1>2. Alive(h) /\ upload[h] = NoUpload
  <2>1. CASE StartResult(h)
    BY <2>1 DEF StartResult, FileInv, LockServed, Alive, Serving
  <2>2. CASE Cleanup(h)
    BY <2>2 DEF Cleanup, LockFree, Alive, Serving
  <2> QED BY <2>1, <2>2
<1>3. Calm' => Calm /\ \A k \in Hubs : upload[k] = NoUpload
  BY <1>1, <1>2, OneLock DEF Calm
<1>4. ASSUME NEW k \in Hubs, Serving(k) PROVE Serving(k)'
  BY <1>4 DEF StartResult, Cleanup, temps, Serving, FileInv, MarkerInv, MarkerTypes
<1> QED BY <1>1, <1>3, <1>4, CleaningKeepsFiles

\* Steps of processes that leave the files alone.
LEMMA ProcessesKeepFiles ==
    ASSUME FileInv, MarkerInv', NEW h \in Hubs,
           StartHub(h) \/ StopHub(h) \/ StopResult(h) \/ KillHub(h)
    PROVE  FileInv'
<1>1. UNCHANGED <<part, bin, manifest, old, sender, destroyed>>
  BY DEF StartHub, StopHub, StopResult, KillHub, temps
<1>2. overlap => overlap'
  BY DEF StartHub, StopHub, StopResult, KillHub
<1>3. ASSUME NEW k \in Hubs PROVE upload'[k] \in {upload[k], NoUpload}
  BY <1>3 DEF StartHub, StopHub, StopResult, KillHub, FileInv, FileTypes
<1>4. upload' \in [Hubs -> Uploads]
  BY DEF StartHub, StopHub, StopResult, KillHub, FileInv, FileTypes, Uploads
<1>5. LockServed'
  <2>1. CASE StartHub(h) \/ StopHub(h)
    BY <2>1 DEF StartHub, StopHub, FileInv, LockServed, Serving, MarkerInv, MarkerTypes
  <2>2. CASE StopResult(h) \/ KillHub(h)
    BY <2>2 DEF StopResult, KillHub, FileInv, FileTypes, LockServed, Serving, MarkerInv,
       MarkerTypes
  <2> QED BY <2>1, <2>2
<1>6. FileTypes'
  BY <1>1, <1>4 DEF FileInv, FileTypes
<1>7. Calm' => \A k \in Hubs : Progress(k)'
  <2> SUFFICES ASSUME Calm', NEW k \in Hubs PROVE Progress(k)'
    OBVIOUS
  <2>1. Progress(k)
    BY <1>1, <1>2 DEF FileInv, Calm
  <2>2. CASE upload'[k] = upload[k]
    BY <1>1, <2>1, <2>2 DEF Progress, Served
  <2>3. CASE upload'[k] = NoUpload
    BY <2>3 DEF Progress, NoUpload
  <2> QED BY <1>3, <2>2, <2>3
<1>8. Calm' => \A f \in Temps : Uploaded(f)'
  BY <1>1, <1>2 DEF FileInv, Calm, Uploaded, Served
<1> QED BY <1>5, <1>6, <1>7, <1>8 DEF FileInv

\* Steps of the clients, and of the admin.
LEMMA ClientsKeepFiles ==
    ASSUME FileInv, MarkerInv', NEW f \in Temps,
           Prepare(f) \/ UploadFails(f) \/ SendNotice(f) \/ ExpireFile(f)
    PROVE  FileInv'
<1>1. UNCHANGED <<proc, part, bin, manifest, upload, overlap, destroyed>> /\ old \subseteq old'
  BY DEF Prepare, UploadFails, SendNotice, ExpireFile, temps
<1>2. FileTypes'
  BY <1>1 DEF FileInv, FileTypes, Prepare, UploadFails, SendNotice, ExpireFile
<1>3. LockServed'
  BY <1>1 DEF FileInv, LockServed, Serving
<1>4. Calm' => \A h \in Hubs : Progress(h)'
  BY <1>1 DEF FileInv, Calm, Progress, Served
<1>5. ASSUME NEW g \in Temps, sender'[g] \in {"uploaded", "sent"}
      PROVE  sender[g] \in {"uploaded", "sent"}
  BY <1>5 DEF Prepare, UploadFails, SendNotice, ExpireFile, FileInv, FileTypes
<1>6. Calm' => \A g \in Temps : Uploaded(g)'
  BY <1>1, <1>5 DEF FileInv, Calm, Uploaded, Served
<1> QED BY <1>2, <1>3, <1>4, <1>6 DEF FileInv

LEMMA AdminKeepsFiles ==
    ASSUME FileInv, MarkerInv', NEW x, IssueToken(x) \/ Destroy(x)
    PROVE  FileInv'
<1>1. CASE IssueToken(x)
  <2>1. UNCHANGED <<proc, part, bin, manifest, old, upload, sender, overlap, destroyed>>
    BY <1>1 DEF IssueToken, temps
  <2> QED
    BY <2>1 DEF FileInv, FileTypes, LockServed, Serving, Calm, Progress, Uploaded, Served
<1>2. CASE Destroy(x)
  <2>1. UNCHANGED <<proc, upload, sender>> /\ destroyed' = TRUE
    BY <1>2 DEF Destroy
  <2>2. FileTypes'
    BY <1>2, <2>1 DEF Destroy, DestroyHub, FileInv, FileTypes
  <2>3. LockServed'
    BY <2>1 DEF FileInv, LockServed, Serving
  <2> QED BY <2>1, <2>2, <2>3 DEF FileInv, Calm
<1> QED BY <1>1, <1>2

LEMMA PartKeepsFiles ==
    ASSUME FileInv, MarkerInv', NEW h \in Hubs, NEW f \in Temps, UploadPart(h, f)
    PROVE  FileInv'
<1>1. /\ Serving(h) /\ sender[f] = "prepared"
      /\ UNCHANGED <<proc, bin, manifest, old, overlap, destroyed>>
  BY DEF UploadPart
<1>2. /\ \/ /\ manifest[f] = "none" /\ part' = part \cup {f}
            /\ upload' = [upload EXCEPT ![h] = [file |-> f, step |-> "part"]]
         \/ UNCHANGED <<part, upload>>
      /\ \E result \in {"uploading", "failed"} : sender' = [sender EXCEPT ![f] = result]
  BY DEF UploadPart
<1>3. FileTypes'
  <2>1. upload' \in [Hubs -> Uploads]
    <3>1. [file |-> f, step |-> "part"] \in Uploads
      BY DEF Uploads, UploadSteps
    <3> QED BY <1>2, <3>1 DEF FileInv, FileTypes
  <2> QED BY <1>1, <1>2, <2>1 DEF FileInv, FileTypes
<1>4. LockServed'
  BY <1>1, <1>2 DEF FileInv, FileTypes, LockServed, Serving
<1>5. Calm' => \A k \in Hubs : Progress(k)'
  BY <1>1, <1>2 DEF FileInv, FileTypes, Calm, Progress, Served
<1>6. Calm' => \A g \in Temps : Uploaded(g)'
  BY <1>1, <1>2 DEF FileInv, FileTypes, Calm, Uploaded, Served
<1> QED BY <1>3, <1>4, <1>5, <1>6 DEF FileInv

LEMMA UploadStepKeepsFiles ==
    ASSUME FileInv, MarkerInv', NEW h \in Hubs, UploadStep(h)
    PROVE  FileInv'
<1> DEFINE f == upload[h].file
<1>1. Serving(h) /\ UNCHANGED <<proc, old, sender, overlap, destroyed>>
  BY DEF UploadStep
<1>2. upload[h].step \in {"part", "bin", "torn"}
  BY DEF UploadStep
<1>3. upload[h] \in [file : Temps, step : UploadSteps] /\ upload[h] # NoUpload /\ f \in Temps
  BY <1>2 DEF FileInv, FileTypes, Uploads, NoUpload
<1>4. FileTypes' /\ \A k \in Hubs \ {h} : upload'[k] = upload[k]
  <2>1. \A s \in UploadSteps : [upload[h] EXCEPT !.step = s] \in Uploads
    BY <1>3 DEF Uploads
  <2>2. \E r \in Uploads : upload' = [upload EXCEPT ![h] = r]
    BY <2>1 DEF UploadStep, UploadSteps, Uploads, FileInv, FileTypes
  <2>3. upload' \in [Hubs -> Uploads] /\ \A k \in Hubs \ {h} : upload'[k] = upload[k]
    BY <2>2 DEF FileInv, FileTypes
  <2>4. bin' \subseteq Temps /\ part' \subseteq Temps
    BY <1>3 DEF UploadStep, FileInv, FileTypes
  <2>5. manifest' \in [Temps -> {"none", "torn", "ok"}]
    BY <1>3 DEF UploadStep, FileInv, FileTypes
  <2> QED BY <1>1, <2>3, <2>4, <2>5 DEF FileInv, FileTypes
<1>5. LockServed'
  BY <1>1, <1>4 DEF FileInv, LockServed, Serving
<1>6. bin \subseteq bin' /\ \A g \in Temps \ {f} : manifest'[g] = manifest[g]
  BY <1>3 DEF UploadStep, FileInv, FileTypes
<1>7. ASSUME Calm PROVE manifest[f] = "ok" => manifest'[f] = "ok"
  BY <1>3, <1>7 DEF UploadStep, FileInv, FileTypes, Progress
<1>8. ASSUME Calm' PROVE \A k \in Hubs : Progress(k)'
  <2>1. \A k \in Hubs \ {h} : upload[k] = NoUpload
    BY <1>1, <1>8, OneLock DEF Calm, Alive, Serving
  <2>2. Progress(h) /\ manifest \in [Temps -> {"none", "torn", "ok"}]
        /\ upload \in [Hubs -> Uploads]
    BY <1>1, <1>8 DEF FileInv, FileTypes, Calm
  <2>3. Progress(h)'
    <3>1. CASE upload[h].step = "part"
      <4>1. CASE f \in part
        BY <1>3, <2>2, <3>1, <4>1 DEF UploadStep, Progress, NoUpload
      <4>2. CASE f \notin part
        <5>1. upload'[h] = NoUpload
          BY <1>3, <2>2, <3>1, <4>2 DEF UploadStep
        <5> QED BY <5>1 DEF Progress, NoUpload
      <4> QED BY <4>1, <4>2
    <3>2. CASE upload[h].step = "bin"
      BY <1>3, <2>2, <3>2 DEF UploadStep, Progress, NoUpload
    <3>3. CASE upload[h].step = "torn"
      BY <1>3, <2>2, <3>3 DEF UploadStep, Progress, Served
    <3> QED BY <1>2, <3>1, <3>2, <3>3
  <2>4. ASSUME NEW k \in Hubs \ {h} PROVE Progress(k)'
    BY <1>4, <2>1 DEF Progress, NoUpload
  <2> QED BY <2>3, <2>4
<1>9. Calm' => \A g \in Temps : Uploaded(g)'
  BY <1>1, <1>6, <1>7 DEF FileInv, Calm, Uploaded, Served
<1> QED BY <1>4, <1>5, <1>8, <1>9 DEF FileInv

\* An answer comes when the file is served, or has expired already.
LEMMA AnswerKeepsFiles ==
    ASSUME FileInv, MarkerInv', NEW h \in Hubs, UploadAnswer(h)
    PROVE  FileInv'
<1> DEFINE f == upload[h].file
<1>1. /\ Serving(h) /\ upload[h].step = "answer"
      /\ UNCHANGED <<proc, part, bin, manifest, old, overlap, destroyed>>
      /\ upload' = [upload EXCEPT ![h] = NoUpload]
      /\ sender' = [sender EXCEPT ![f] = IF @ = "uploading" THEN "uploaded" ELSE @]
  BY DEF UploadAnswer, temps
<1>2. f \in Temps
  BY <1>1 DEF FileInv, FileTypes, Uploads, NoUpload
<1>3. FileTypes'
  BY <1>1 DEF FileInv, FileTypes, Uploads
<1>4. LockServed'
  BY <1>1 DEF FileInv, FileTypes, LockServed, Serving
<1>5. ASSUME Calm', NEW k \in Hubs PROVE Progress(k)'
  <2>1. Progress(k)
    BY <1>1, <1>5 DEF FileInv, Calm
  <2>2. upload'[k] \in {upload[k], NoUpload}
    BY <1>1 DEF FileInv, FileTypes
  <2> QED BY <1>1, <2>1, <2>2 DEF Progress, NoUpload, Served
<1>6. ASSUME Calm', NEW g \in Temps PROVE Uploaded(g)'
  <2>1. Progress(h) /\ Uploaded(g)
    BY <1>1, <1>6 DEF FileInv, Calm
  <2>2. CASE g = f
    BY <1>1, <2>1, <2>2 DEF Progress, Uploaded, Served
  <2>3. CASE g # f
    BY <1>1, <1>2, <2>1, <2>3 DEF FileInv, FileTypes, Uploaded, Served
  <2> QED BY <2>2, <2>3
<1> QED BY <1>3, <1>4, <1>5, <1>6 DEF FileInv

LEMMA ReadKeepsFiles ==
    ASSUME FileInv, MarkerInv', NEW h \in Hubs, NEW f \in Temps, ReadStale(h, f)
    PROVE  FileInv'
<1>1. /\ Serving(h) /\ upload[h] = NoUpload /\ Stale(f)
      /\ bin' = bin \ {f} /\ part' = part \ {f} /\ manifest' = [manifest EXCEPT ![f] = "none"]
      /\ UNCHANGED <<proc, old, upload, sender, overlap, destroyed>>
  BY DEF ReadStale, LockFree
<1>2. FileTypes' /\ LockServed'
  BY <1>1 DEF FileInv, FileTypes, LockServed, Serving
<1>3. Calm' => \A k \in Hubs : upload[k] = NoUpload
  BY <1>1, OneLock DEF Calm, Alive, Serving
<1>4. Calm' => \A k \in Hubs : Progress(k)'
  BY <1>1, <1>3 DEF Progress, NoUpload
<1>5. Calm' => \A g \in Temps : Uploaded(g)'
  BY <1>1 DEF FileInv, FileTypes, Calm, Uploaded, Served, Stale
<1> QED BY <1>2, <1>4, <1>5 DEF FileInv

LEMMA FileStep == FileInv /\ [HubHostNext]_hubHostVars => FileInv'
<1> SUFFICES ASSUME FileInv, [HubHostNext]_hubHostVars PROVE FileInv'
  OBVIOUS
<1>1. MarkerInv'
  BY MarkerStep DEF FileInv
<1>2. ASSUME UNCHANGED <<proc, part, bin, manifest, old, upload, sender, overlap, destroyed>>
      PROVE  FileInv'
  BY <1>1, <1>2 DEF FileInv, FileTypes, LockServed, Serving, Calm, Progress, Uploaded, Served
<1>3. ASSUME NEW h \in Hubs, Recycle(h) PROVE FileInv'
  BY <1>2, <1>3 DEF Recycle, temps
<1>4. CASE UNCHANGED hubHostVars
  BY <1>2, <1>4 DEF hubHostVars, temps
<1>5. ASSUME NEW id \in Machines, RenameMachine(id) PROVE FileInv'
  BY <1>2, <1>5 DEF RenameMachine, temps
<1> QED
  BY <1>1, <1>3, <1>4, <1>5, ProcessesKeepFiles, CleanStepsKeepFiles, ClientsKeepFiles,
     AdminKeepsFiles, PartKeepsFiles, UploadStepKeepsFiles, AnswerKeepsFiles,
     ReadKeepsFiles DEF HubHostNext

LEMMA FileAlways == HostSpec => []FileInv
BY FileInit, FileStep, PTL DEF HostSpec

\* What neither the marker nor the files depend on.
LoginTypes == recycled \subseteq Hubs /\ old \subseteq Temps /\ token \in 0 .. MaxLogins

LEMMA LoginTypesStep == LoginTypes /\ [HubHostNext]_hubHostVars => LoginTypes'
<1> SUFFICES ASSUME LoginTypes, [HubHostNext]_hubHostVars PROVE LoginTypes'
  OBVIOUS
<1>1. CASE UNCHANGED <<recycled, old, token>>
  BY <1>1 DEF LoginTypes
<1>2. ASSUME NEW h \in Hubs,
             \/ StartHub(h) \/ StartResult(h) \/ StopHub(h) \/ StopResult(h) \/ KillHub(h)
             \/ UploadStep(h) \/ UploadAnswer(h) \/ Cleanup(h)
             \/ \E f \in Temps : UploadPart(h, f) \/ ReadStale(h, f)
      PROVE  UNCHANGED <<recycled, old, token>>
  BY <1>2 DEF StartHub, StartResult, StopHub, StopResult, KillHub, UploadStep, UploadAnswer, Cleanup,
     UploadPart, ReadStale, temps
<1>3. ASSUME NEW h \in Hubs, Recycle(h) PROVE LoginTypes'
  BY <1>3 DEF LoginTypes, Recycle, temps
<1>4. ASSUME NEW first \in BOOLEAN, IssueToken(first) PROVE LoginTypes'
  BY <1>4, HubHostAssumption DEF LoginTypes, IssueToken, NewToken, HubHostAssumption, temps
<1>5. ASSUME NEW given \in 0 .. MaxLogins, Destroy(given) PROVE LoginTypes'
  BY <1>5, HubHostAssumption DEF LoginTypes, Destroy, DestroyHub, HubHostAssumption
<1>6. ASSUME NEW f \in Temps, Prepare(f) \/ UploadFails(f) \/ SendNotice(f) PROVE UNCHANGED <<recycled, old, token>>
  BY <1>6 DEF Prepare, UploadFails, SendNotice, temps
<1>7. ASSUME NEW f \in Temps, ExpireFile(f) PROVE LoginTypes'
  BY <1>7 DEF LoginTypes, ExpireFile
<1>8. CASE UNCHANGED hubHostVars
  BY <1>1, <1>8 DEF hubHostVars, temps
<1>9. ASSUME NEW id \in Machines, RenameMachine(id) PROVE UNCHANGED <<recycled, old, token>>
  BY <1>9 DEF RenameMachine, temps
<1> QED BY <1>1, <1>2, <1>3, <1>4, <1>5, <1>6, <1>7, <1>8, <1>9 DEF HubHostNext

\* The host's state has its types, and no more tokens are issued than logins
\* succeed, for any number of processes, files and logins.
THEOREM HostTypeCorrect == HostSpec => []HubHostTypeOK
<1>1. HubHostInit => LoginTypes
  BY HubHostAssumption DEF HubHostInit, LoginTypes, HubHostAssumption
<1>2. HostSpec => []LoginTypes
  BY <1>1, LoginTypesStep, PTL DEF HostSpec
<1>3. FileInv /\ LoginTypes => HubHostTypeOK
  BY DEF FileInv, FileTypes, MarkerInv, MarkerTypes, LoginTypes, HubHostTypeOK
<1> QED BY <1>2, <1>3, FileAlways, PTL

\* NoticeIsReadable: a file whose notice was sent can be fetched until it
\* expires, for any number of Hub processes one after the other and of files.
THEOREM NoticeIsReadable == HostSpec => []SentIsReadable
<1>1. FileInv => SentIsReadable
  BY DEF FileInv, SentIsReadable, Calm, Uploaded
<1> QED BY <1>1, FileAlways, PTL

-----------------------------------------------------------------------------
(* The frame buffer, for any number and sizes of frames, any reads and any    *)
(* buffer: as long as the last error fell on the end of a frame, the buffer   *)
(* begins at the end of a frame (or one byte before, at its delimiter), and   *)
(* all frames that are complete by then were handed over.                     *)

\* Least elements, and with them induction, for sets of natural numbers.
LEMMA LeastNumber == ASSUME NEW T, T \subseteq Nat, T # {} PROVE \E x \in T : \A y \in T : x <= y
<1>1. PICK R : R = OpToRel(<, Nat)
  OBVIOUS
<1>2. IsWellFoundedOn(R, Nat)
  BY <1>1, NatLessThanWellFounded
<1>3. \A x, y \in Nat : x < y => <<x, y>> \in R
  BY <1>1 DEF OpToRel
<1>4. PICK x \in T : \A y \in T : ~ (<<y, x>> \in R)
  BY <1>2, WFMin
<1>5. ASSUME NEW y \in T PROVE x <= y
  <2>1. x \in Nat /\ y \in Nat /\ ~(y < x)
    BY <1>3, <1>4
  <2> QED BY <2>1
<1> QED BY <1>5

\* The frames lie one after the other, each of at least two bytes.
Layout ==
    /\ ends \in [0 .. Last -> Nat] /\ ends[0] = 0
    /\ \A f, g \in 0 .. Last : f < g => ends[f] + 2 <= ends[g]

FrameStateTypes ==
    /\ Layout
    /\ start \in Nat /\ read \in Nat /\ base \in Nat
    /\ base <= start /\ start <= read /\ read <= ends[Last]
    /\ reader \in {"read", "pop", "closed"} /\ side \in {"hub", "client"}
    /\ got \in Seq(Sent)

AtBoundary(n) == \E f \in 0 .. Last : n \in {ends[f], ends[f] - 1}

InOrder == \A i, j \in 1 .. Len(got) : i < j => got[i] < got[j]
\* What was handed over lies before the buffer, but for its delimiter.
TakenLiesBehind == \A i \in 1 .. Len(got) : ends[got[i]] <= start + 1

\* What came since the last error and lies before the buffer was handed over.
NoneLost == \A f \in Sent : base <= ends[f - 1] /\ ends[f] <= start + 1 => f \in Handed

\* Before a read the buffer is empty or holds a part of one frame, more than
\* its delimiter short of it.
PartWaits == start = read \/ \E f \in Sent : ends[f - 1] = start /\ read + 2 <= ends[f]

BufferInv ==
    /\ FrameStateTypes /\ InOrder /\ TakenLiesBehind
    /\ AtBoundary(base) => AtBoundary(start) /\ NoneLost /\ (reader = "read" => PartWaits)
    /\ RoomForReads => base = 0

LEMMA LayoutStart == FramesInit => Layout
<1> SUFFICES ASSUME FramesInit PROVE Layout
  OBVIOUS
<1>1. Last \in Nat /\ Sizes \subseteq Nat \ {0, 1}
  BY WireFramesAssumption DEF WireFramesAssumption
<1>2. /\ ends \in [0 .. Last -> Nat] /\ ends[0] = 0
      /\ \A f \in 1 .. Last : ends[f] - ends[f - 1] \in Sizes
  BY DEF FramesInit
<1>3. \A f \in 1 .. Last : ends[f - 1] \in Nat /\ ends[f] \in Nat /\ ends[f - 1] + 2 <= ends[f]
  BY <1>1, <1>2
<1>4. ASSUME NEW f \in 0 .. Last PROVE \A g \in 0 .. Last : f < g => ends[f] + 2 <= ends[g]
  <2> DEFINE Bad == {g \in 0 .. Last : f < g /\ ~(ends[f] + 2 <= ends[g])}
  <2>1. SUFFICES ASSUME Bad # {} PROVE FALSE
    OBVIOUS
  <2>2. Bad \subseteq Nat
    BY <1>1
  <2>3. PICK g \in Bad : \A h \in Bad : g <= h
    BY <2>1, <2>2, LeastNumber
  <2>4. g \in 1 .. Last /\ f < g /\ ~(ends[f] + 2 <= ends[g])
    BY <1>1, <2>3
  <2>5. ends[g - 1] + 2 <= ends[g] /\ ends[g - 1] \in Nat /\ ends[g] \in Nat /\ ends[f] \in Nat
    BY <1>2, <1>3, <2>4
  <2>6. f # g - 1
    BY <2>4, <2>5
  <2>7. f < g - 1 /\ g - 1 \in 0 .. Last
    BY <1>1, <2>4, <2>6
  <2>8. ends[f] + 2 <= ends[g - 1]
    <3>1. g - 1 \notin Bad
      BY <1>1, <2>3, <2>4
    <3> QED BY <2>7, <3>1
  <2> QED BY <2>4, <2>5, <2>8
<1> QED BY <1>2, <1>4 DEF Layout

LEMMA BufferStart == FramesInit => BufferInv
<1> SUFFICES ASSUME FramesInit PROVE BufferInv
  OBVIOUS
<1>1. Layout /\ Last \in Nat
  BY LayoutStart, WireFramesAssumption DEF WireFramesAssumption
<1>2. start = 0 /\ read = 0 /\ base = 0 /\ reader = "read" /\ got = <<>> /\ side \in {"hub", "client"}
  BY DEF FramesInit
<1>3. 0 \in 0 .. Last /\ Last \in 0 .. Last /\ ends[0] = 0 /\ 0 <= ends[Last]
  BY <1>1 DEF Layout
<1>4. FrameStateTypes
  BY <1>1, <1>2, <1>3 DEF FrameStateTypes
<1>5. InOrder /\ TakenLiesBehind
  BY <1>2 DEF InOrder, TakenLiesBehind
<1>6. AtBoundary(start)
  BY <1>2, <1>3 DEF AtBoundary
<1>7. NoneLost
  <2>1. ASSUME NEW f \in Sent PROVE ~(ends[f] <= 1)
    <3>1. f \in 0 .. Last /\ 0 < f /\ ends[f] \in Nat
      BY <1>1 DEF Sent, Layout
    <3> QED BY <1>1, <1>3, <3>1 DEF Layout
  <2> QED BY <1>2, <2>1 DEF NoneLost
<1> QED BY <1>2, <1>4, <1>5, <1>6, <1>7 DEF BufferInv, PartWaits

\* The ends of the frames, compared.
LEMMA EndsFacts ==
    ASSUME FrameStateTypes
    PROVE  /\ Last \in Nat /\ \A f \in 0 .. Last : ends[f] \in Nat /\ ends[f] <= ends[Last]
           /\ \A f, g \in 0 .. Last : /\ f < g => ends[f] + 2 <= ends[g]
                                      /\ ends[f] <= ends[g] + 1 => f <= g
                                      /\ ends[f] = ends[g] => f = g
           /\ \A f \in Sent : /\ f \in 0 .. Last /\ f - 1 \in 0 .. Last /\ f \in Nat
                              /\ ends[f - 1] + 2 <= ends[f] /\ ends[f - 1] \in Nat
<1>1. /\ Last \in Nat /\ \A f \in 0 .. Last : ends[f] \in Nat
      /\ \A f, g \in 0 .. Last : f < g => ends[f] + 2 <= ends[g]
  BY WireFramesAssumption DEF WireFramesAssumption, FrameStateTypes, Layout
<1>2. ASSUME NEW f \in 0 .. Last, NEW g \in 0 .. Last, ends[f] <= ends[g] + 1 PROVE f <= g
  <2>1. f \in Nat /\ g \in Nat /\ ends[f] \in Nat /\ ends[g] \in Nat
    BY <1>1
  <2>2. g < f => ends[g] + 2 <= ends[f]
    BY <1>1
  <2> QED BY <1>2, <2>1, <2>2
<1>3. ASSUME NEW f \in 0 .. Last, NEW g \in 0 .. Last, ends[f] = ends[g] PROVE f = g
  <2>1. f <= g /\ g <= f
    BY <1>1, <1>2, <1>3
  <2> QED BY <2>1
<1>4. ASSUME NEW f \in 0 .. Last PROVE ends[f] <= ends[Last]
  <2>1. f = Last \/ f < Last
    BY <1>1
  <2> QED BY <1>1, <2>1
<1>5. ASSUME NEW f \in Sent
      PROVE  /\ f \in 0 .. Last /\ f - 1 \in 0 .. Last /\ f \in Nat
             /\ ends[f - 1] + 2 <= ends[f] /\ ends[f - 1] \in Nat
  <2>1. f \in 0 .. Last /\ f - 1 \in 0 .. Last /\ f \in Nat /\ f - 1 < f
    BY <1>1 DEF Sent
  <2> QED BY <1>1, <2>1
<1> QED BY <1>1, <1>2, <1>3, <1>4, <1>5

\* From a buffer that begins at a boundary the delimiter is stripped, if there
\* is one, and the next frame begins.
LEMMA StrippedFacts ==
    ASSUME FrameStateTypes
    PROVE  /\ Stripped \in Nat /\ start <= Stripped /\ Stripped <= read /\ Stripped <= start + 1
           /\ Stripped = start + 1 => \E f \in Sent : ends[f] = start + 1
           /\ start < read /\ (\E f \in Sent : ends[f] = start + 1) => Stripped = start + 1
           /\ AtBoundary(start) /\ Stripped < read => \E f \in Sent : Begins(f)
<1>1. start \in Nat /\ read \in Nat /\ start <= read
  BY DEF FrameStateTypes
<1>2. Stripped = start \/ (Stripped = start + 1 /\ start < read /\ \E f \in Sent : ends[f] = start + 1)
  BY DEF Stripped
<1>3. start < read /\ (\E f \in Sent : ends[f] = start + 1) => Stripped = start + 1
  BY DEF Stripped
<1>4. ASSUME AtBoundary(start), Stripped < read PROVE \E f \in Sent : Begins(f)
  <2>1. PICK f \in 0 .. Last : start \in {ends[f], ends[f] - 1}
    BY <1>4 DEF AtBoundary
  <2>2. ends[f] \in Nat /\ ends[f] <= ends[Last] /\ Last \in Nat
    BY EndsFacts
  <2>3. Stripped = ends[f]
    <3>1. CASE start = ends[f]
      <4>1. ASSUME NEW g \in Sent, ends[g] = start + 1 PROVE FALSE
        <5>1. g \in 0 .. Last /\ ends[g] = ends[f] + 1
          BY <3>1, <4>1, EndsFacts
        <5>2. g <= f /\ g # f
          BY <5>1, <2>2, EndsFacts
        <5>3. g < f
          BY <5>1, <5>2
        <5>4. ends[g] + 2 <= ends[f]
          BY <5>1, <5>3, EndsFacts
        <5> QED BY <2>2, <5>1, <5>4
      <4> QED BY <1>2, <3>1, <4>1
    <3>2. CASE start = ends[f] - 1
      <4>1. ends[f] = start + 1 /\ ends[f] # 0
        BY <1>1, <2>2, <3>2
      <4>2. f # 0
        BY <4>1 DEF FrameStateTypes, Layout
      <4>3. f \in Sent
        BY <2>2, <4>2 DEF Sent
      <4> QED BY <1>1, <1>2, <1>3, <1>4, <4>1, <4>3
    <3> QED BY <2>1, <3>1, <3>2
  <2>4. f # Last
    <3>1. read <= ends[Last]
      BY DEF FrameStateTypes
    <3> QED BY <1>1, <1>4, <2>2, <2>3, <3>1
  <2>5. f + 1 \in Sent /\ (f + 1) - 1 = f
    BY <2>2, <2>4 DEF Sent
  <2> QED BY <2>3, <2>5 DEF Begins
<1> QED BY <1>1, <1>2, <1>3, <1>4

\* After an error the buffer is empty: no frame lies both behind and ahead.
LEMMA RejectKeeps ==
    ASSUME BufferInv, Rejects(read'), read' \in Nat, read <= read', read' <= ends[Last],
           UNCHANGED <<side, ends, got>>, ~(RoomForReads /\ AtBoundary(base))
    PROVE  BufferInv'
<1>1. start' = read' /\ base' = read' /\ reader' \in {"read", "closed"}
  BY DEF Rejects, HubRejects, ClientRejects
<1>2. start \in Nat /\ read \in Nat /\ start <= read'
  BY DEF BufferInv, FrameStateTypes
<1>3. FrameStateTypes'
  BY <1>1 DEF BufferInv, FrameStateTypes, Layout, Sent
<1>4. ASSUME NEW i \in 1 .. Len(got') PROVE ends'[got'[i]] <= start' + 1
  <2>1. got[i] \in Sent /\ ends[got[i]] <= start + 1
    BY DEF BufferInv, FrameStateTypes, TakenLiesBehind
  <2>2. ends[got[i]] \in Nat
    BY <2>1, EndsFacts DEF BufferInv
  <2> QED BY <1>1, <1>2, <2>1, <2>2
<1>5. TakenLiesBehind' /\ InOrder'
  BY <1>4 DEF BufferInv, TakenLiesBehind, InOrder
<1>6. ASSUME NEW f \in Sent PROVE ~(read' <= ends[f - 1] /\ ends[f] <= read' + 1)
  <2>1. ends[f - 1] + 2 <= ends[f] /\ ends[f - 1] \in Nat /\ ends[f] \in Nat
    BY EndsFacts DEF BufferInv
  <2> QED BY <2>1
<1>7. NoneLost'
  BY <1>1, <1>6 DEF NoneLost, Sent
<1>8. AtBoundary(base)' => AtBoundary(start)'
  BY <1>1 DEF AtBoundary
<1>9. ~RoomForReads'
  <2>1. RoomForReads => base = 0
    BY DEF BufferInv
  <2>2. base = 0 => AtBoundary(base)
    <3>1. 0 \in 0 .. Last /\ ends[0] = 0
      BY EndsFacts DEF BufferInv, FrameStateTypes, Layout
    <3> QED BY <3>1 DEF AtBoundary
  <2>3. RoomForReads' <=> RoomForReads
    BY DEF RoomForReads, Sent
  <2> QED BY <2>1, <2>2, <2>3
<1> QED BY <1>1, <1>3, <1>5, <1>7, <1>8, <1>9 DEF BufferInv, PartWaits

LEMMA ReadKeeps == ASSUME BufferInv, NEW n \in 1 .. MaxChunk, Read(n) PROVE BufferInv'
<1>1. /\ reader = "read" /\ read + n <= ends[Last] /\ read' = read + n
      /\ UNCHANGED <<side, ends, got>>
  BY DEF Read
<1>2. /\ start \in Nat /\ read \in Nat /\ base \in Nat /\ n \in Nat /\ 1 <= n /\ n <= MaxChunk
      /\ MaxChunk \in Nat /\ MaxBuffer \in Nat /\ start <= read
  BY WireFramesAssumption DEF BufferInv, FrameStateTypes, WireFramesAssumption
<1>3. read' \in Nat /\ read <= read' /\ read' <= ends[Last]
  BY <1>1, <1>2
<1>4. CASE Overflows(read' - start) /\ Rejects(read')
  <2>1. ~(RoomForReads /\ AtBoundary(base))
    <3>1. SUFFICES ASSUME RoomForReads, AtBoundary(base) PROVE FALSE
      OBVIOUS
    <3>2. PartWaits
      BY <1>1, <3>1 DEF BufferInv
    <3>3. read + n - start > MaxBuffer
      BY <1>1, <1>2, <1>4 DEF Overflows
    <3>4. CASE start = read
      <4>1. Last \in Nat /\ Last # 0
        <5>1. Last = 0 => ends[Last] = 0
          BY DEF BufferInv, FrameStateTypes, Layout
        <5> QED BY <1>1, <1>2, <5>1, EndsFacts DEF BufferInv
      <4>2. 1 \in Sent
        BY <4>1 DEF Sent
      <4>3. ends[1] - ends[1 - 1] + MaxChunk <= MaxBuffer + 2
        BY <3>1, <4>2 DEF RoomForReads
      <4>4. ends[1 - 1] + 2 <= ends[1] /\ ends[1 - 1] \in Nat /\ ends[1] \in Nat
        BY <4>2, EndsFacts DEF BufferInv
      <4> QED BY <1>2, <3>3, <3>4, <4>3, <4>4
    <3>5. ASSUME NEW f \in Sent, ends[f - 1] = start, read + 2 <= ends[f] PROVE FALSE
      <4>1. ends[f] - ends[f - 1] + MaxChunk <= MaxBuffer + 2
        BY <3>1 DEF RoomForReads
      <4>2. ends[f] \in Nat
        BY EndsFacts DEF BufferInv
      <4> QED BY <1>2, <3>3, <3>5, <4>1, <4>2
    <3> QED BY <3>2, <3>4, <3>5 DEF PartWaits
  <2> QED BY <1>1, <1>3, <1>4, <2>1, RejectKeeps
<1>5. CASE reader' = "pop" /\ UNCHANGED <<start, base>>
  <2>1. FrameStateTypes'
    BY <1>1, <1>2, <1>3, <1>5 DEF BufferInv, FrameStateTypes, Layout, Sent
  <2>2. InOrder' /\ TakenLiesBehind' /\ (NoneLost => NoneLost')
    BY <1>1, <1>5 DEF BufferInv, InOrder, TakenLiesBehind, NoneLost, Handed, Sent
  <2>3. (AtBoundary(base)' <=> AtBoundary(base)) /\ (AtBoundary(start)' <=> AtBoundary(start))
    BY <1>1, <1>5 DEF AtBoundary
  <2>4. RoomForReads' <=> RoomForReads
    BY <1>1 DEF RoomForReads, Sent
  <2> QED BY <1>5, <2>1, <2>2, <2>3, <2>4 DEF BufferInv
<1> QED BY <1>4, <1>5 DEF Read

\* Between a boundary and what can be taken from it there is one frame.
LEMMA CompleteBegins ==
    ASSUME BufferInv, AtBoundary(start), NEW f \in Sent, Complete(f)
    PROVE  Begins(f)
<1>1. Stripped < ends[f] /\ ends[f - 1] <= Stripped /\ (ends[f] <= read \/ Begins(f))
  BY DEF Complete
<1>2. CASE ends[f] <= read
  <2>1. Stripped \in Nat /\ read \in Nat /\ ends[f] \in Nat /\ ends[f - 1] \in Nat
    BY StrippedFacts, EndsFacts DEF BufferInv, FrameStateTypes
  <2>2. PICK g \in Sent : Begins(g)
    BY <1>1, <1>2, <2>1, StrippedFacts DEF BufferInv
  <2>3. /\ ends[g - 1] = Stripped /\ g \in Nat /\ f \in Nat /\ f - 1 \in 0 .. Last /\ f \in 0 .. Last
        /\ g - 1 \in 0 .. Last /\ ends[g - 1] \in Nat
    BY <2>2, EndsFacts DEF Begins, BufferInv
  <2>4. ends[f - 1] <= ends[g - 1] + 1
    BY <1>1, <2>1, <2>3
  <2>5. f - 1 <= g - 1
    BY <2>3, <2>4, EndsFacts DEF BufferInv
  <2>6. ~(f <= g - 1)
    <3>1. f = g - 1 => ends[f] = Stripped
      BY <2>3
    <3>2. f < g - 1 => ends[f] + 2 <= ends[g - 1]
      BY <2>3, EndsFacts DEF BufferInv
    <3>3. ends[f] # Stripped /\ ~(ends[f] + 2 <= Stripped)
      BY <1>1, <2>1
    <3> QED BY <2>3, <3>1, <3>2, <3>3
  <2> QED BY <2>2, <2>3, <2>5, <2>6
<1> QED BY <1>1, <1>2

\* What a frame ends behind, if it begins at the front of the buffer.
LEMMA TakenFacts ==
    ASSUME BufferInv, NEW f \in Sent, Complete(f), Begins(f)
    PROVE  /\ Taken(f) \in {ends[f], ends[f] - 1} /\ Taken(f) \in Nat
           /\ start <= Taken(f) /\ Taken(f) <= read /\ start < read
<1>1. /\ Stripped \in Nat /\ read \in Nat /\ start \in Nat /\ start <= Stripped /\ Stripped <= read
      /\ ends[f] \in Nat /\ ends[f - 1] \in Nat /\ ends[f - 1] + 2 <= ends[f] /\ ends[f - 1] = Stripped
  BY StrippedFacts, EndsFacts DEF BufferInv, FrameStateTypes, Begins
<1>2. ends[f] <= read \/ ends[f] = read + 1
  BY DEF Complete
<1>3. CASE ends[f] <= read
  BY <1>1, <1>3 DEF Taken
<1>4. CASE ends[f] = read + 1
  <2>1. Taken(f) = read
    BY <1>1, <1>4 DEF Taken
  <2> QED BY <1>1, <1>4, <2>1
<1> QED BY <1>2, <1>3, <1>4

\* A frame that begins behind the buffer's front was not handed over before.
LEMMA TakenIsNew ==
    ASSUME BufferInv, NEW f \in Sent, Begins(f), start < read, NEW i \in 1 .. Len(got)
    PROVE  got[i] \in Sent /\ got[i] < f
<1>1. got[i] \in Sent /\ ends[got[i]] <= start + 1
  BY DEF BufferInv, FrameStateTypes, TakenLiesBehind
<1>2. /\ got[i] \in 0 .. Last /\ f - 1 \in 0 .. Last /\ got[i] \in Nat /\ f \in Nat
      /\ ends[got[i]] \in Nat /\ start \in Nat /\ Stripped \in Nat /\ start <= Stripped
      /\ ends[f - 1] = Stripped
  BY <1>1, EndsFacts, StrippedFacts DEF BufferInv, FrameStateTypes, Begins
<1>3. ends[got[i]] <= ends[f - 1] + 1
  BY <1>1, <1>2
<1>4. got[i] <= f - 1
  BY <1>2, <1>3, EndsFacts DEF BufferInv
<1> QED BY <1>1, <1>2, <1>4

LEMMA PopKeeps == ASSUME BufferInv, NEW f \in Sent, Pop(f) PROVE BufferInv'
<1>1. reader = "pop" /\ Complete(f) /\ UNCHANGED <<side, ends, read>>
  BY DEF Pop
<1>2. start \in Nat /\ read \in Nat /\ base \in Nat /\ base <= start /\ start <= read /\ read <= ends[Last]
  BY DEF BufferInv, FrameStateTypes
<1>3. CASE ~Begins(f) /\ Rejects(read) /\ UNCHANGED got
  <2>1. ~(RoomForReads /\ AtBoundary(base))
    BY <1>1, <1>3, CompleteBegins DEF BufferInv
  <2>2. Rejects(read')
    BY <1>1, <1>3
  <2> QED BY <1>1, <1>2, <1>3, <2>1, <2>2, RejectKeeps
<1>4. CASE /\ Begins(f) /\ got' = Append(got, f) /\ start' = Taken(f) /\ UNCHANGED base
           /\ reader' \in {"pop", "closed"}
  <2>1. /\ start' \in {ends[f], ends[f] - 1} /\ start' \in Nat /\ start <= start' /\ start' <= read
        /\ start < read
    BY <1>1, <1>4, TakenFacts
  <2>2. /\ got \in Seq(Sent) /\ got' \in Seq(Sent) /\ Len(got') = Len(got) + 1 /\ Len(got) \in Nat
        /\ got'[Len(got) + 1] = f
        /\ \A i \in 1 .. Len(got) : got'[i] = got[i]
    BY <1>4 DEF BufferInv, FrameStateTypes
  <2>3. \A i \in 1 .. Len(got) : got[i] \in Sent /\ got[i] < f
    BY <1>4, <2>1, TakenIsNew
  <2>4. \A i \in 1 .. Len(got') : i \in 1 .. Len(got) \/ i = Len(got) + 1
    BY <2>2
  <2>5. InOrder'
    <3>1. ASSUME NEW i \in 1 .. Len(got'), NEW j \in 1 .. Len(got'), i < j PROVE got'[i] < got'[j]
      <4>1. i \in 1 .. Len(got)
        BY <2>2, <2>4, <3>1
      <4>2. CASE j \in 1 .. Len(got)
        BY <2>2, <3>1, <4>1, <4>2 DEF BufferInv, InOrder
      <4>3. CASE j = Len(got) + 1
        BY <2>2, <2>3, <4>1, <4>3
      <4> QED BY <2>4, <4>2, <4>3
    <3> QED BY <3>1 DEF InOrder
  <2>6. ends[f] \in Nat /\ ends[f] <= start' + 1
    BY <2>1, EndsFacts DEF BufferInv
  <2>7. ASSUME NEW i \in 1 .. Len(got') PROVE ends'[got'[i]] <= start' + 1
    <3>1. CASE i \in 1 .. Len(got)
      <4>1. got'[i] \in Sent /\ got'[i] = got[i] /\ ends[got[i]] <= start + 1
        BY <2>2, <2>3, <3>1 DEF BufferInv, TakenLiesBehind
      <4>2. ends[got[i]] \in Nat
        BY <4>1, EndsFacts DEF BufferInv
      <4> QED BY <1>1, <1>2, <2>1, <4>1, <4>2
    <3>2. CASE i = Len(got) + 1
      BY <1>1, <2>2, <2>6, <3>2
    <3> QED BY <2>4, <3>1, <3>2
  <2>8. FrameStateTypes'
    BY <1>1, <1>2, <1>4, <2>1, <2>2 DEF BufferInv, FrameStateTypes, Layout, Sent
  <2>9. AtBoundary(start)'
    BY <1>1, <2>1, EndsFacts DEF BufferInv, AtBoundary
  <2>10. Handed \subseteq Handed' /\ f \in Handed'
    <3>1. Len(got) + 1 \in 1 .. Len(got') /\ \A i \in 1 .. Len(got) : i \in 1 .. Len(got')
      BY <2>2
    <3> QED BY <2>2, <3>1 DEF Handed
  <2>11. ASSUME NoneLost, NEW g \in Sent, base <= ends[g - 1], ends[g] <= start' + 1
         PROVE  g \in Handed'
    <3>1. /\ g \in 0 .. Last /\ f \in 0 .. Last /\ f - 1 \in 0 .. Last /\ g \in Nat /\ f \in Nat
          /\ ends[g] \in Nat /\ ends[f - 1] \in Nat
      BY EndsFacts DEF BufferInv
    <3>2. ends[g] <= ends[f] + 1
      BY <2>1, <2>6, <2>11, <3>1
    <3>3. g <= f
      BY <3>1, <3>2, EndsFacts DEF BufferInv
    <3>4. CASE g = f
      BY <2>10, <3>4
    <3>5. CASE g # f
      <4>1. g <= f - 1
        BY <3>1, <3>3, <3>5
      <4>2. ends[g] <= ends[f - 1]
        BY <3>1, <4>1, EndsFacts DEF BufferInv
      <4>3. ends[f - 1] <= start + 1
        BY <1>2, <1>4, StrippedFacts DEF Begins, BufferInv
      <4>4. ends[g] <= start + 1
        BY <1>2, <3>1, <4>2, <4>3
      <4> QED BY <2>10, <2>11, <4>4 DEF NoneLost
    <3> QED BY <3>4, <3>5
  <2>12. NoneLost => NoneLost'
    <3>1. ASSUME NoneLost, NEW g \in Sent', base' <= ends'[g - 1], ends'[g] <= start' + 1
          PROVE  g \in Handed'
      BY <1>1, <1>4, <2>11, <3>1 DEF Sent
    <3> QED BY <3>1 DEF NoneLost
  <2>13. (AtBoundary(base)' <=> AtBoundary(base)) /\ (RoomForReads' <=> RoomForReads)
    BY <1>1, <1>4 DEF AtBoundary, RoomForReads, Sent
  <2> QED BY <1>4, <2>5, <2>7, <2>8, <2>9, <2>12, <2>13 DEF BufferInv, TakenLiesBehind
<1> QED BY <1>3, <1>4 DEF Pop

\* Nothing is complete: the buffer goes on with less than a frame.
LEMMA PopNoneKeeps == ASSUME BufferInv, PopNone PROVE BufferInv'
<1>1. /\ reader = "pop" /\ UNCHANGED <<side, ends, read, got>>
      /\ \A f \in Sent : ~Complete(f)
  BY DEF PopNone
<1>2. /\ start \in Nat /\ read \in Nat /\ base \in Nat /\ base <= start /\ start <= read
      /\ read <= ends[Last]
      /\ Stripped \in Nat /\ start <= Stripped /\ Stripped <= read /\ Stripped <= start + 1
  BY StrippedFacts DEF BufferInv, FrameStateTypes
<1>3. CASE Stripped < read /\ (\A f \in Sent : ~Begins(f)) /\ Rejects(read)
  <2>1. ~(RoomForReads /\ AtBoundary(base))
    BY <1>3, StrippedFacts DEF BufferInv
  <2>2. Rejects(read')
    BY <1>1, <1>3
  <2> QED BY <1>1, <1>2, <2>1, <2>2, RejectKeeps
<1>4. CASE reader' = "read" /\ start' = Stripped /\ UNCHANGED base
  <2>1. FrameStateTypes'
    BY <1>1, <1>2, <1>4 DEF BufferInv, FrameStateTypes, Layout, Sent
  <2>2. ASSUME NEW i \in 1 .. Len(got') PROVE ends'[got'[i]] <= start' + 1
    <3>1. got[i] \in Sent /\ ends[got[i]] <= start + 1
      BY <1>1 DEF BufferInv, FrameStateTypes, TakenLiesBehind
    <3>2. ends[got[i]] \in Nat
      BY <3>1, EndsFacts DEF BufferInv
    <3> QED BY <1>1, <1>2, <1>4, <3>1, <3>2
  <2>3. TakenLiesBehind' /\ InOrder'
    BY <1>1, <2>2 DEF BufferInv, TakenLiesBehind, InOrder
  <2>4. (AtBoundary(base)' <=> AtBoundary(base)) /\ (RoomForReads' <=> RoomForReads)
    BY <1>1, <1>4 DEF AtBoundary, RoomForReads, Sent
  <2>5. AtBoundary(start) => AtBoundary(start)'
    <3>1. CASE Stripped = start
      BY <1>1, <1>4, <3>1 DEF AtBoundary
    <3>2. CASE Stripped = start + 1
      <4>1. PICK f \in Sent : ends[f] = start + 1
        BY <3>2, StrippedFacts DEF BufferInv
      <4> QED BY <1>1, <1>4, <3>2, <4>1, EndsFacts DEF BufferInv, AtBoundary
    <3> QED BY <1>2, <3>1, <3>2
  <2>6. ASSUME NEW g \in Sent, ends[g] <= Stripped + 1 PROVE ends[g] <= start + 1
    <3>1. CASE Stripped = start
      BY <2>6, <3>1
    <3>2. CASE Stripped = start + 1
      <4>1. PICK f \in Sent : ends[f] = start + 1
        BY <3>2, StrippedFacts DEF BufferInv
      <4>2. /\ g \in 0 .. Last /\ f \in 0 .. Last /\ g \in Nat /\ f \in Nat
            /\ ends[g] \in Nat /\ ends[g] <= ends[f] + 1
        BY <1>2, <2>6, <3>2, <4>1, EndsFacts DEF BufferInv
      <4>3. g <= f
        BY <4>2, EndsFacts DEF BufferInv
      <4>4. CASE g = f
        BY <1>2, <4>1, <4>4
      <4>5. CASE g < f
        <5>1. ends[g] + 2 <= ends[f]
          BY <4>2, <4>5, EndsFacts DEF BufferInv
        <5> QED BY <1>2, <4>1, <4>2, <5>1
      <4> QED BY <4>2, <4>3, <4>4, <4>5
    <3> QED BY <1>2, <3>1, <3>2
  <2>7. NoneLost => NoneLost'
    <3>1. Handed' = Handed /\ Sent' = Sent
      BY <1>1 DEF Handed, Sent
    <3> QED BY <1>1, <1>4, <2>6, <3>1 DEF NoneLost
  <2>8. ASSUME AtBoundary(start), Stripped # read
        PROVE  \E f \in Sent : ends[f - 1] = Stripped /\ read + 2 <= ends[f]
    <3>1. Stripped < read
      BY <1>2, <2>8
    <3>2. PICK f \in Sent : Begins(f)
      BY <2>8, <3>1, StrippedFacts DEF BufferInv
    <3>3. ends[f - 1] = Stripped /\ ends[f] \in Nat /\ ends[f - 1] + 2 <= ends[f]
      BY <3>2, EndsFacts DEF Begins, BufferInv
    <3>4. ~(ends[f] <= read) /\ ends[f] # read + 1
      BY <1>1, <1>2, <3>2, <3>3 DEF Complete
    <3>5. read + 2 <= ends[f]
      BY <1>2, <3>3, <3>4
    <3> QED BY <3>3, <3>5
  <2>9. AtBoundary(start) => PartWaits'
    BY <1>1, <1>4, <2>8 DEF PartWaits, Sent
  <2> QED BY <1>4, <2>1, <2>3, <2>4, <2>5, <2>7, <2>9 DEF BufferInv
<1> QED BY <1>1, <1>3, <1>4 DEF PopNone

LEMMA BufferStep == ASSUME BufferInv, [FramesNext]_frameVars PROVE BufferInv'
<1>1. CASE UNCHANGED frameVars
  <2>1. UNCHANGED <<side, ends, start, read, reader, got, base>>
    BY <1>1 DEF frameVars
  <2>2. FrameStateTypes'
    BY <2>1 DEF BufferInv, FrameStateTypes, Layout, Sent
  <2>3. InOrder' /\ TakenLiesBehind' /\ (NoneLost => NoneLost') /\ (PartWaits => PartWaits')
    BY <2>1 DEF BufferInv, InOrder, TakenLiesBehind, NoneLost, Handed, PartWaits, Sent
  <2>4. /\ (AtBoundary(base)' <=> AtBoundary(base)) /\ (AtBoundary(start)' <=> AtBoundary(start))
        /\ (RoomForReads' <=> RoomForReads)
    BY <2>1 DEF AtBoundary, RoomForReads, Sent
  <2> QED BY <2>1, <2>2, <2>3, <2>4 DEF BufferInv
<1> QED BY <1>1, ReadKeeps, PopKeeps, PopNoneKeeps DEF FramesNext

LEMMA BufferAlways == FramesSpec => []BufferInv
<1>1. BufferInv /\ [FramesNext]_frameVars => BufferInv'
  BY BufferStep
<1> QED BY <1>1, BufferStart, PTL DEF FramesSpec

\* The buffer holds a part of the stream, for any stream and any reads.
THEOREM FramesTypeCorrect == FramesSpec => []FramesTypeOK
<1>1. BufferInv => FramesTypeOK
  BY DEF BufferInv, FrameStateTypes, FramesTypeOK
<1> QED BY <1>1, BufferAlways, PTL

\* Frames are handed over in the order they were sent and none twice, no read
\* meets an error if every frame leaves room for a read, and after an error that
\* fell on the end of a frame nothing that came since is lost (FrameBuffer.feed
\* and pop_message, with the readers of the Hub and of the client).
THEOREM FramesStayInStep == FramesSpec => []FramesInStep
<1>1. BufferInv => FramesInStep
  <2>1. SUFFICES ASSUME BufferInv PROVE FramesInStep
    OBVIOUS
  <2>2. ASSUME reader = "read", \E f \in 0 .. Last : base \in {ends[f], ends[f] - 1},
               NEW f \in Sent, base <= ends[f - 1], ends[f] <= read + 1
        PROVE  f \in Handed
    <3>1. NoneLost /\ PartWaits
      BY <2>1, <2>2 DEF BufferInv, AtBoundary
    <3>2. CASE start = read
      BY <2>2, <3>1, <3>2 DEF NoneLost
    <3>3. ASSUME NEW g \in Sent, ends[g - 1] = start, read + 2 <= ends[g] PROVE f \in Handed
      <4>1. /\ f \in 0 .. Last /\ g \in 0 .. Last /\ g - 1 \in 0 .. Last /\ f \in Nat /\ g \in Nat
            /\ ends[f] \in Nat /\ ends[g] \in Nat /\ start \in Nat /\ read \in Nat
        BY <2>1, EndsFacts DEF BufferInv, FrameStateTypes
      <4>2. f # g /\ ends[f] <= ends[g] + 1
        BY <2>2, <3>3, <4>1
      <4>3. f <= g
        BY <2>1, <4>1, <4>2, EndsFacts DEF BufferInv
      <4>4. f <= g - 1
        BY <4>1, <4>2, <4>3
      <4>5. f < g - 1 => ends[f] + 2 <= start
        BY <2>1, <3>3, <4>1, EndsFacts DEF BufferInv
      <4>6. ends[f] <= start + 1
        BY <3>3, <4>1, <4>4, <4>5
      <4> QED BY <2>2, <3>1, <4>6 DEF NoneLost
    <3> QED BY <3>1, <3>2, <3>3 DEF PartWaits
  <2> QED BY <2>1, <2>2 DEF BufferInv, InOrder, FramesInStep
<1> QED BY <1>1, BufferAlways, PTL

-----------------------------------------------------------------------------
(* The channel of frames.  As long as there was no error the frames handed    *)
(* over are the first ones, numbered as they were sent.                       *)

FirstOnes == base = 0 => \A i \in 1 .. Len(got) : got[i] = i

LEMMA NextArrives ==
    ASSUME BufferInv, FirstOnes, base = 0, NEW f \in Sent, Complete(f), Begins(f)
    PROVE  f = Len(got) + 1
<1>1. NoneLost
  <2>1. 0 \in 0 .. Last /\ ends[0] = 0
    BY EndsFacts DEF BufferInv, FrameStateTypes, Layout
  <2> QED BY <2>1 DEF BufferInv, AtBoundary
<1>2. /\ start \in Nat /\ read \in Nat /\ start < read /\ Len(got) \in Nat
      /\ Stripped \in Nat /\ Stripped <= start + 1 /\ ends[f - 1] = Stripped
      /\ f \in Nat /\ f - 1 \in 0 .. Last /\ f \in 1 .. Last /\ Last \in Nat
  BY TakenFacts, StrippedFacts, EndsFacts DEF BufferInv, FrameStateTypes, Begins, Sent
<1>3. \A i \in 1 .. Len(got) : got[i] = i /\ i < f
  BY <1>2, TakenIsNew DEF FirstOnes
<1>4. Len(got) < f
  <2>1. Len(got) = 0 \/ Len(got) \in 1 .. Len(got)
    BY <1>2
  <2> QED BY <1>2, <1>3, <2>1
<1>5. ASSUME f - 1 > Len(got) PROVE FALSE
  <2>1. f - 1 \in Sent
    BY <1>2, <1>5 DEF Sent
  <2>2. 0 <= ends[(f - 1) - 1] /\ ends[f - 1] <= start + 1
    BY <1>2, <2>1, EndsFacts DEF BufferInv
  <2>3. f - 1 \in Handed
    BY <1>1, <2>1, <2>2 DEF NoneLost
  <2>4. PICK i \in 1 .. Len(got) : got[i] = f - 1
    BY <2>3 DEF Handed
  <2> QED BY <1>2, <1>3, <1>5, <2>4
<1> QED BY <1>2, <1>4, <1>5

\* An error is a gap, and there is none if every frame leaves room for a read.
LEMMA RejectFallsOut ==
    ASSUME BufferInv, BufferInv', Rejects(read'), read' > 0, UNCHANGED <<ends, got>>
    PROVE  FirstOnes' /\ Channel!Next
<1>1. base' = read' /\ base' # 0
  BY DEF Rejects, HubRejects, ClientRejects
<1>2. (RoomForReads' <=> RoomForReads) /\ ~RoomForReads'
  BY <1>1 DEF BufferInv, RoomForReads, Sent
<1>3. Channel!FallOut
  BY <1>1, <1>2 DEF Channel!FallOut
<1> QED BY <1>1, <1>3 DEF FirstOnes, Channel!Next

LEMMA FrameArrives ==
    ASSUME BufferInv, BufferInv', FirstOnes, NEW f \in Sent, Pop(f)
    PROVE  FirstOnes' /\ Channel!Next
<1>1. Complete(f) /\ UNCHANGED <<ends, read>>
  BY DEF Pop
<1>2. CASE ~Begins(f)
  <2>1. Rejects(read') /\ UNCHANGED got
    BY <1>1, <1>2 DEF Pop
  <2>2. read \in Nat /\ ends[f] \in Nat /\ ends[f - 1] + 2 <= ends[f] /\ ends[f - 1] \in Nat
    BY EndsFacts DEF BufferInv, FrameStateTypes
  <2>3. ends[f] <= read
    BY <1>1, <1>2 DEF Complete
  <2> QED BY <1>1, <2>1, <2>2, <2>3, RejectFallsOut
<1>3. CASE Begins(f)
  <2>1. got' = Append(got, f) /\ UNCHANGED base
    BY <1>3 DEF Pop
  <2>2. \A i \in 1 .. Len(got) : got[i] < f
    BY <1>1, <1>3, TakenFacts, TakenIsNew
  <2>3. base = 0 => f = Len(got) + 1
    BY <1>1, <1>3, NextArrives
  <2>4. RoomForReads' <=> RoomForReads
    BY <1>1 DEF RoomForReads, Sent
  <2>5. Channel!Arrive(f)
    BY <2>1, <2>2, <2>3, <2>4 DEF Channel!Arrive
  <2>6. FirstOnes'
    <3>1. /\ got \in Seq(Sent) /\ Len(got') = Len(got) + 1 /\ Len(got) \in Nat
          /\ got'[Len(got) + 1] = f /\ \A i \in 1 .. Len(got) : got'[i] = got[i]
      BY <2>1 DEF BufferInv, FrameStateTypes
    <3>2. \A i \in 1 .. Len(got') : i \in 1 .. Len(got) \/ i = Len(got) + 1
      BY <3>1
    <3> QED BY <2>1, <2>3, <3>1, <3>2 DEF FirstOnes
  <2> QED BY <2>5, <2>6 DEF Channel!Next, Sent
<1> QED BY <1>2, <1>3

LEMMA ChannelStep ==
    ASSUME BufferInv, BufferInv', FirstOnes, [FramesNext]_frameVars
    PROVE  FirstOnes' /\ [Channel!Next]_(Channel!vars)
<1>1. ASSUME UNCHANGED <<ends, got, base>> PROVE FirstOnes' /\ UNCHANGED Channel!vars
  BY <1>1 DEF FirstOnes, Channel!vars, RoomForReads, Sent
<1>2. CASE UNCHANGED frameVars
  BY <1>1, <1>2 DEF frameVars
<1>3. ASSUME NEW n \in 1 .. MaxChunk, Read(n) PROVE FirstOnes' /\ [Channel!Next]_(Channel!vars)
  <2>1. read' = read + n /\ UNCHANGED <<ends, got>> /\ read \in Nat
    BY <1>3 DEF Read, BufferInv, FrameStateTypes
  <2>2. read' > 0
    BY <2>1, WireFramesAssumption
  <2> QED BY <1>1, <1>3, <2>1, <2>2, RejectFallsOut DEF Read
<1>4. CASE PopNone
  <2>1. UNCHANGED <<ends, got, read>>
    BY <1>4 DEF PopNone
  <2>2. CASE UNCHANGED base
    BY <1>1, <2>1, <2>2
  <2>3. CASE Stripped < read /\ Rejects(read)
    <3>1. Stripped \in Nat /\ read \in Nat
      BY StrippedFacts DEF BufferInv, FrameStateTypes
    <3> QED BY <2>1, <2>3, <3>1, RejectFallsOut
  <2> QED BY <1>4, <2>2, <2>3 DEF PopNone
<1> QED BY <1>2, <1>3, <1>4, FrameArrives DEF FramesNext

\* The line of bytes, cut anywhere by the reads, with the buffers of both ends is
\* a channel of frames: each arrives once and in its order, and none is left out
\* unless a frame is too large for a buffer and a read (protocol.py:219).
THEOREM FramesMakeAChannel == FramesSpec => ChannelSpec
<1>1. FramesInit => FirstOnes /\ Channel!Init
  BY DEF FramesInit, FirstOnes, Channel!Init
<1>2. BufferInv /\ BufferInv' /\ FirstOnes /\ [FramesNext]_frameVars
      => FirstOnes' /\ [Channel!Next]_(Channel!vars)
  BY ChannelStep
<1> QED BY <1>1, <1>2, BufferAlways, PTL DEF FramesSpec, ChannelSpec, Channel!Spec
=============================================================================

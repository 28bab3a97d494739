--------------------------- MODULE ClientTransport ---------------------------
(***************************************************************************)
(* The connection of one client to the Hub: the thread that starts the     *)
(* chat service and polls for results, the network thread with its event   *)
(* loop (connect, read, stop, back off), the coroutines other threads      *)
(* submit to it, and the Hub's end of the socket.  The flags are plain     *)
(* attributes that both threads read and write.                            *)
(***************************************************************************)
EXTENDS Naturals, Sequences

CONSTANTS
    MaxAttempts,    \* _max_reconnect_attempts (10 in the code)
    MaxFrames,      \* bound on what is submitted or on the socket at once
    MaxFaults       \* bound on broken connections, Hub stops, lost entries

ASSUME ClientTransportAssumption ==
    MaxAttempts \in Nat \ {0} /\ MaxFrames \in Nat \ {0} /\ MaxFaults \in Nat

VARIABLES
    connected, connecting, registered, running,
    once,       \* _has_registered_once
    attempts,   \* _reconnect_attempts
    thread,     \* where the network thread is
    tasks,      \* frames submitted to the event loop by other threads
    caller,     \* where ChatService.start is, and what became of it
    joined,     \* the service has groups
    snapshot,   \* _group_snapshots is not empty
    sock,       \* the connection as the client holds it
    up, down,   \* frames on it, to and from the Hub
    hub,        \* "up" or "down"
    entry,      \* the Hub lists the client under this connection
    greeted,    \* a REGISTER was handled on this connection
    routed,     \* the Hub has the client's groups in its routing table
    unannounced,\* history: a message was handled before any REGISTER
    faults

flags == <<connected, connecting, registered, running, once>>
lists == <<joined, snapshot>>
wire == <<sock, up, down>>
hubSide == <<hub, entry, greeted, routed, unannounced>>
transportVars == <<flags, attempts, thread, tasks, caller, lists, wire, hubSide, faults>>

TransportInit ==
    /\ connected = FALSE /\ connecting = FALSE /\ registered = FALSE
    /\ running = FALSE /\ once = FALSE
    /\ attempts = 0 /\ thread = "none" /\ tasks = <<>> /\ caller = "new"
    /\ joined \in BOOLEAN /\ snapshot = FALSE
    /\ sock = "none" /\ up = <<>> /\ down = <<>>
    /\ hub \in {"up", "down"} /\ entry = FALSE /\ greeted = FALSE
    /\ routed = FALSE /\ unannounced = FALSE /\ faults = 0

\* Mutant of ClearFlags: the registration outlives the connection.
ClearConnected == connected' = FALSE /\ connecting' = FALSE /\ UNCHANGED registered

\* What the end of a connection resets, whichever thread notices it.
ClearFlags == connected' = FALSE /\ connecting' = FALSE /\ registered' = FALSE

\* run_coroutine_threadsafe(_async_send_message(...)): the loop must be running.
Submit(frame) ==
    tasks' = IF thread \in {"none", "ended"} THEN tasks ELSE Append(tasks, frame)

\* sync_groups: the list is kept for later, and sent where that is possible.
SyncGroups(has, possible) ==
    /\ joined' = has /\ snapshot' = has
    /\ IF possible THEN Submit("groups") ELSE UNCHANGED tasks

-----------------------------------------------------------------------------
(* The thread that starts the service. *)

\* ChatService.start, connect: the network thread is started.
Start ==
    /\ caller = "new" /\ caller' = "connect"
    /\ connecting' = TRUE /\ running' = TRUE
    /\ thread' = "connect"
    /\ UNCHANGED <<connected, registered, once, attempts, tasks, lists, wire, hubSide, faults>>

\* The poll of five seconds: on a timeout only `connecting` is reset, the
\* thread keeps trying.
ConnectResult ==
    /\ caller = "connect"
    /\ \/ connected /\ caller' = "submit" /\ UNCHANGED connecting
       \/ ~connected /\ caller' = "failed" /\ connecting' = FALSE
    /\ UNCHANGED <<connected, registered, running, once, attempts, thread, tasks, lists,
                   wire, hubSide, faults>>

\* disconnect: nothing between two connections; the thread goes on then.
Disconnect ==
    IF ~connected /\ ~connecting
    THEN UNCHANGED <<connected, connecting, registered, running, sock>>
    ELSE /\ ClearFlags /\ running' = FALSE
         /\ sock' = IF sock = "open" THEN "closed" ELSE sock

\* register_user up to the poll; start() disconnects when it fails.
SubmitRegister ==
    /\ caller = "submit"
    /\ IF connected
       THEN /\ caller' = "register" /\ Submit("register")
            /\ UNCHANGED <<connected, connecting, registered, running, sock>>
       ELSE /\ caller' = "failed" /\ Disconnect /\ UNCHANGED tasks
    /\ UNCHANGED <<once, attempts, thread, lists, up, down, hubSide, faults>>

\* The poll of ten seconds.  Only an answer in time makes the client register
\* by itself after a reconnection.
RegisterResult ==
    /\ caller = "register"
    /\ \/ /\ registered /\ once' = TRUE /\ caller' = "started"
          /\ SyncGroups(joined, connected)
          /\ UNCHANGED <<connected, connecting, registered, running, sock>>
       \/ /\ ~registered /\ caller' = "failed" /\ Disconnect
          /\ UNCHANGED <<once, tasks, lists>>
    /\ UNCHANGED <<attempts, thread, up, down, hubSide, faults>>

\* The window stays when start() failed: the user goes on in either case.
Returned == {"started", "failed", "stopped"}

\* ChatService.stop
Stop ==
    /\ caller \in {"started", "failed"}
    /\ caller' = IF caller = "started" THEN "stopped" ELSE caller
    /\ Disconnect
    /\ UNCHANGED <<once, attempts, thread, tasks, lists, up, down, hubSide, faults>>

\* send_message, send_group_message: accepted once submitted.  A text asks for a
\* running service, a message, a file or a temporary file of a group only for
\* the two flags.
Send ==
    /\ caller \in Returned /\ connected /\ registered
    /\ Len(tasks) + Len(up) + Len(down) < MaxFrames
    /\ Submit("message")
    /\ UNCHANGED <<flags, attempts, thread, caller, lists, wire, hubSide, faults>>

\* The first group, made here or received.
NewGroup ==
    /\ ~joined
    /\ SyncGroups(TRUE, connected /\ registered)
    /\ UNCHANGED <<flags, attempts, thread, caller, wire, hubSide, faults>>

\* update_display_name: a REGISTER whether or not one succeeded before.
Rename ==
    /\ caller \in Returned /\ connected
    /\ Len(tasks) + Len(up) + Len(down) < MaxFrames
    /\ Submit("register")
    /\ UNCHANGED <<flags, attempts, thread, caller, lists, wire, hubSide, faults>>

-----------------------------------------------------------------------------
(* The network thread. *)

Write(frame) == IF sock = "open" THEN Append(up, frame) ELSE up

\* Mutant of Greeting: the client registers only while start() waits for it.
GreetingAtStart == IF caller = "register" THEN <<"register">> ELSE <<>>

\* _async_register_after_connect: what a new connection begins with.
Greeting == IF once /\ ~registered THEN <<"register">> ELSE <<>>

\* Mutant of AfterRegister: the groups go out with the first registration only.
AfterFirstRegister ==
    /\ up' = IF snapshot /\ ~once THEN Write("groups") ELSE up
    /\ SyncGroups(joined, connected /\ ~once)

\* After a successful REGISTER the groups are sent twice: from the list the
\* transport has (_async_send_group_sync), and by the service's callback.
AfterRegister ==
    /\ up' = IF snapshot THEN Write("groups") ELSE up
    /\ SyncGroups(joined, connected)

\* _async_connect
ThreadConnect ==
    /\ thread = "connect"
    /\ connecting' = FALSE
    /\ IF hub = "up"
       THEN /\ connected' = TRUE /\ sock' = "open"
            /\ up' = Greeting
            /\ down' = <<>> /\ entry' = FALSE /\ greeted' = FALSE
            /\ attempts' = 0 /\ thread' = "read"
       ELSE /\ connected' = FALSE /\ thread' = "stop"
            /\ UNCHANGED <<wire, entry, greeted, attempts>>
    /\ UNCHANGED <<registered, running, once, tasks, caller, lists, hub, routed,
                   unannounced, faults>>

\* _async_process_incoming: a success registers and sends the groups; being
\* told "not_registered" is only logged.
ThreadRead ==
    /\ thread = "read" /\ running /\ down # <<>>
    /\ down' = Tail(down)
    /\ IF Head(down) = "registered"
       THEN registered' = TRUE /\ AfterRegister
       ELSE UNCHANGED <<registered, up, tasks, lists>>
    /\ UNCHANGED <<connected, connecting, running, once, attempts, thread, caller,
                   sock, hubSide, faults>>

\* The loop of _async_main ends: end of stream, an error, or not running.
ThreadEof ==
    /\ thread = "read" /\ (~running \/ (sock = "closed" /\ down = <<>>))
    /\ thread' = "stop"
    /\ UNCHANGED <<flags, attempts, tasks, caller, lists, wire, hubSide, faults>>

\* Whether _async_main ends after so many attempts.
GivesUp(failed) == failed > MaxAttempts

\* _async_stop, and whether to try again.
ThreadStop ==
    /\ thread = "stop"
    /\ ClearFlags
    /\ sock' = "none" /\ up' = <<>> /\ down' = <<>> /\ entry' = FALSE
    /\ attempts' = IF running THEN attempts + 1 ELSE attempts
    /\ thread' = IF running /\ ~GivesUp(attempts') THEN "sleep" ELSE "ended"
    /\ tasks' = IF thread' = "ended" THEN <<>> ELSE tasks
    /\ UNCHANGED <<running, once, caller, lists, hub, greeted, routed, unannounced, faults>>

ThreadWake ==
    /\ thread = "sleep"
    /\ thread' = IF running THEN "connect" ELSE "ended"
    /\ tasks' = IF running THEN tasks ELSE <<>>
    /\ UNCHANGED <<flags, attempts, caller, lists, wire, hubSide, faults>>

\* A submitted coroutine runs while the loop waits; without a connection the
\* frame is dropped and nobody is told.
RunTask ==
    /\ thread \in {"connect", "read", "stop", "sleep"} /\ tasks # <<>>
    /\ tasks' = Tail(tasks)
    /\ up' = Write(Head(tasks))
    /\ UNCHANGED <<flags, attempts, thread, caller, lists, sock, down, hubSide, faults>>

\* _async_heartbeat
Heartbeat ==
    /\ thread = "read" /\ running /\ connected /\ registered
    /\ Len(tasks) + Len(up) + Len(down) < MaxFrames
    /\ up' = Write("heartbeat")
    /\ UNCHANGED <<flags, attempts, thread, tasks, caller, lists, sock, down, hubSide, faults>>

-----------------------------------------------------------------------------
(* The Hub (HubSessions and HubDelivery have the details) and the network. *)

HubHandle ==
    LET frame == Head(up) IN
    /\ hub = "up" /\ sock = "open" /\ up # <<>>
    /\ up' = Tail(up)
    /\ entry' = (entry \/ frame = "register")
    /\ greeted' = (greeted \/ frame = "register")
    /\ down' = CASE frame = "register" -> Append(down, "registered")
                 [] frame = "heartbeat" /\ ~entry -> Append(down, "not_registered")
                 [] OTHER -> down
    /\ routed' = (routed \/ (frame = "groups" /\ entry /\ snapshot))
    /\ unannounced' = (unannounced \/ (frame = "message" /\ ~greeted))
    /\ UNCHANGED <<flags, attempts, thread, tasks, caller, lists, sock, hub, faults>>

Fault == faults < MaxFaults /\ faults' = faults + 1

\* The periodic cleanup drops a late entry and leaves the connection open.
HubDrops ==
    /\ Fault /\ entry /\ entry' = FALSE
    /\ UNCHANGED <<flags, attempts, thread, tasks, caller, lists, wire, hub, greeted, routed,
                   unannounced>>

Break ==
    /\ Fault /\ sock = "open" /\ sock' = "closed" /\ entry' = FALSE
    /\ UNCHANGED <<flags, attempts, thread, tasks, caller, lists, up, down, hub, greeted,
                   routed, unannounced>>

HubStops ==
    /\ Fault /\ hub = "up" /\ hub' = "down"
    /\ entry' = FALSE /\ routed' = FALSE
    /\ sock' = IF sock = "open" THEN "closed" ELSE sock
    /\ UNCHANGED <<flags, attempts, thread, tasks, caller, lists, up, down, greeted, unannounced>>

HubStarts ==
    /\ hub = "down" /\ hub' = "up"
    /\ UNCHANGED <<flags, attempts, thread, tasks, caller, lists, wire, entry, greeted,
                   routed, unannounced, faults>>

ThreadStep == ThreadConnect \/ ThreadRead \/ ThreadEof \/ ThreadStop \/ ThreadWake

TransportNext ==
    \/ Start \/ ConnectResult \/ SubmitRegister \/ RegisterResult \/ Stop
    \/ Send \/ NewGroup \/ Rename
    \/ ThreadStep \/ RunTask \/ Heartbeat
    \/ HubHandle \/ HubDrops \/ Break \/ HubStops \/ HubStarts

TransportSpec == TransportInit /\ [][TransportNext]_transportVars

\* The event loop runs what is ready, and a Hub that is up handles frames; how
\* long the polls of the starting thread last is open.
TransportFairness ==
    /\ WF_transportVars(ThreadStep) /\ WF_transportVars(RunTask)
    /\ WF_transportVars(HubHandle)

-----------------------------------------------------------------------------
Frames == {"register", "heartbeat", "groups", "message"}

TransportTypeOK ==
    /\ {connected, connecting, registered, running, once, joined, snapshot, entry, greeted, routed}
          \subseteq BOOLEAN
    /\ attempts \in 0 .. MaxAttempts + 1
    /\ thread \in {"none", "connect", "read", "stop", "sleep", "ended"}
    /\ tasks \in Seq(Frames) /\ up \in Seq(Frames)
    /\ caller \in {"new", "connect", "submit", "register", "failed", "started", "stopped"}
    /\ sock \in {"none", "open", "closed"}
    /\ down \in Seq({"registered", "not_registered"})
    /\ hub \in {"up", "down"}

\* RegisterFirst: the Hub never gets a message on a connection on which the
\* client has not registered, whichever reconnection lies between the call of
\* send_message and the write.  Where start() failed it may: the window stays,
\* the thread goes on, and a registration by update_display_name lets group
\* messages through without making the client register after a reconnection
\* (_has_registered_once stays FALSE).
RegisterFirst == caller # "failed" => ~unannounced

\* Reregisters: a started client does not stay without its registration,
\* unless it gave up or the Hub stays down.
Reregisters ==
    []<>(caller = "started" => registered \/ thread = "ended" \/ hub = "down")

\* GroupsRestored: the Hub's routing table does not stay without the groups of
\* a registered client after a restart ("to restore the fanout",
\* chat_service.py:281), unless the Hub dropped its entry, which a client
\* never repairs.
GroupsRestored == []<>(snapshot /\ registered => routed \/ ~entry)
=============================================================================

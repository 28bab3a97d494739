----------------------------- MODULE HubSessions -----------------------------
(***************************************************************************)
(* The life of the Hub's client connections, network/hub.py: one handler   *)
(* coroutine per connection (handle_client), the periodic cleanup task,    *)
(* and the directory broadcasts all of them start, over the connection     *)
(* manager's critical sections (module ConnectionManager).  A task can be  *)
(* overtaken at every point where it waits for the manager's lock or for a *)
(* peer that does not read (a paused drain()).  Message delivery is left   *)
(* to HubDelivery.                                                         *)
(*                                                                         *)
(* What a client knows of the directory is abstracted to "fresh": was the  *)
(* directory last written to it taken after the last change?               *)
(***************************************************************************)
EXTENDS ConnectionManager, Sequences

CONSTANTS
    SentIds,    \* what clients send as device id: a subset of Devices \cup {None}
    Cleaner,    \* the periodic cleanup task
    Watched     \* connections whose knowledge of the directory is followed

ASSUME SessionAssumption ==
    /\ Watched \subseteq Conns
    /\ SentIds \subseteq Devices \cup {None}
    /\ Cleaner \notin Conns

Tasks == Conns \cup {Cleaner}

VARIABLES
    peer,       \* the client's end: [Conns -> {"unused", "reading", "stalled", "gone"}]
    pc,         \* where each task is: [Tasks -> STRING]
    ending,     \* connections whose handler left its loop
    leaving,    \* the user id cleanup_connection looked up: [Conns -> Users \cup {None}]
    fresh,      \* connections whose last written directory is the current one
    queue,      \* broadcasts waiting for the lock, in order: task and is-current
    current     \* is the snapshot being broadcast still the directory?

vars == <<cmVars, peer, pc, ending, leaving, fresh, queue, current>>

PC == {"none", "reading", "reply", "replied", "announce", "queued", "sending",
       "lookup", "unregister", "closed", "sleep"}

Init ==
    /\ CMInit
    /\ peer = [c \in Conns |-> "unused"]
    /\ pc = [t \in Tasks |-> IF t = Cleaner THEN "sleep" ELSE "none"]
    /\ ending = {}
    /\ leaving = [c \in Conns |-> None]
    /\ fresh = {}
    /\ queue = <<>>
    /\ current = TRUE

\* c is one of get_all_connections().
Listed(c) == \E k \in Registered : connections[k] = c

Goto(t, from, to) == pc[t] = from /\ pc' = [pc EXCEPT ![t] = to]

\* History, for the properties only (the Hub keeps nothing of the kind): the
\* directory changed, so nobody holds the current one, written or on its way.
Outdate ==
    /\ fresh' = {}
    /\ queue' = [i \in DOMAIN queue |-> [queue[i] EXCEPT !.current = (Watched = {})]]

\* Connection c is sent the directory, up to date or not.
Show(c, upToDate) ==
    fresh' = IF upToDate THEN fresh \cup ({c} \cap Watched) ELSE fresh \ {c}

KeepDirectory == UNCHANGED <<fresh, queue>>

-----------------------------------------------------------------------------
(* Clients. *)

\* A client connects: a handler starts reading, the heartbeat is now.
Connect(c) ==
    /\ peer[c] = "unused"
    /\ peer' = [peer EXCEPT ![c] = "reading"]
    /\ Goto(c, "none", "reading")
    /\ UNCHANGED <<cmVars, ending, leaving, fresh, queue, current>>

PeerMoves(c, from, to) ==
    /\ peer[c] \in from
    /\ peer' = [peer EXCEPT ![c] = to]
    /\ UNCHANGED <<cmVars, pc, ending, leaving, fresh, queue, current>>

Stall(c) == PeerMoves(c, {"reading"}, "stalled")
Resume(c) == PeerMoves(c, {"stalled"}, "reading")
Leave(c) == PeerMoves(c, {"reading", "stalled"}, "gone")

\* Time passes for a connection that is not heard from.
Silence(c) ==
    /\ Age(c)
    /\ pc[c] \notin {"none", "closed"} \/ Listed(c)
    /\ UNCHANGED <<peer, pc, ending, leaving, fresh, queue, current>>

-----------------------------------------------------------------------------
(* The handler's messages (process_message). *)

\* REGISTER: the manager's register, then get_user_device and upsert_device.
ReceiveRegister(c, u, d) ==
    /\ peer[c] # "gone"
    /\ Goto(c, "reading", "reply")
    /\ Register(c, u, d)
    /\ Outdate
    /\ UNCHANGED <<peer, ending, leaving, current>>

\* The reply carries the directory as it is now.
WriteReply(c) ==
    /\ ~locked
    /\ Goto(c, "reply", "replied")
    /\ Show(c, TRUE)
    /\ UNCHANGED <<cmVars, peer, ending, leaving, queue, current>>

\* upsert_device raised before the reply, or drain() raised after it: the
\* handler ends, though the entry is in the directory.
UpsertFails(c) ==
    /\ Goto(c, "reply", "lookup")
    /\ ending' = ending \cup {c}
    /\ UNCHANGED <<cmVars, peer, leaving, fresh, queue, current>>

ReplyLost(c) ==
    /\ peer[c] = "gone"
    /\ Goto(c, "replied", "lookup")
    /\ ending' = ending \cup {c}
    /\ UNCHANGED <<cmVars, peer, leaving, fresh, queue, current>>

\* drain() returns, and so do those of the stored messages (HubDelivery).
ReplyDrained(c) ==
    /\ peer[c] = "reading"
    /\ Goto(c, "replied", "announce")
    /\ UNCHANGED <<cmVars, peer, ending, leaving, fresh, queue, current>>

\* HEARTBEAT: by user and device, else by writer (the second section does
\* nothing when the first has found the entry, and the other way round).  A
\* reply that waits for a stalled peer, here and below, is not told apart
\* from the next message arriving later.
ReceiveHeartbeat(c) ==
    /\ peer[c] # "gone" /\ pc[c] = "reading"
    /\ identity[c] # None
    /\ LET u == identity[c][1]
           d == IF identity[c][2] \in Devices THEN identity[c][2] ELSE None
       IN  IF HeartbeatTargets(u, d) # {} THEN UpdateHeartbeat(u, d)
                                          ELSE UpdateHeartbeatByWriter(c)
    /\ UNCHANGED <<peer, pc, ending, leaving, fresh, queue, current>>

\* ONLINE_USERS: answered with the directory, to anyone connected.
ReceiveOnlineUsers(c) ==
    /\ peer[c] # "gone" /\ pc[c] = "reading"
    /\ ~locked
    /\ Show(c, TRUE)
    /\ UNCHANGED <<cmVars, peer, pc, ending, leaving, queue, current>>

\* read() returns no data, or raises.
EndOfStream(c) ==
    /\ peer[c] = "gone"
    /\ Goto(c, "reading", "lookup")
    /\ ending' = ending \cup {c}
    /\ UNCHANGED <<cmVars, peer, leaving, fresh, queue, current>>

-----------------------------------------------------------------------------
(* cleanup_connection: get_user_id and unregister are separate sections. *)

CloseWriter(c) == peer' = [peer EXCEPT ![c] = "gone"]

\* Mutant of Lookup: the key of the reverse index in place of the user id.
LookupKey(c) ==
    /\ ~locked
    /\ Goto(c, "lookup", "unregister")
    /\ leaving' = [leaving EXCEPT ![c] = writerToKey[c]]
    /\ UNCHANGED <<cmVars, peer, ending, fresh, queue, current>>

Lookup(c) ==
    /\ ~locked
    /\ Goto(c, "lookup", "unregister")
    /\ leaving' = [leaving EXCEPT ![c] = UserOf(c)]
    /\ UNCHANGED <<cmVars, peer, ending, fresh, queue, current>>

\* unregister(user_id) takes the first entry of the user.
UnregisterUser(c) ==
    /\ leaving[c] # None
    /\ Goto(c, "unregister", "announce")
    /\ Unregister(leaving[c])
    /\ IF FirstOf(leaving[c]) = {} THEN KeepDirectory ELSE Outdate
    /\ leaving' = [leaving EXCEPT ![c] = None]
    /\ UNCHANGED <<peer, ending, current>>

UnregisterUnknown(c) ==
    /\ leaving[c] = None
    /\ UnregisterByWriter(c)
    /\ IF UserOf(c) = None
       THEN Goto(c, "unregister", "closed") /\ KeepDirectory /\ CloseWriter(c)
       ELSE Goto(c, "unregister", "announce") /\ Outdate /\ UNCHANGED peer
    /\ UNCHANGED <<ending, leaving, current>>

\* Mutant of Sweep: the removal is not announced.
SweepSilently ==
    /\ Stale # {}
    /\ pc[Cleaner] = "sleep"
    /\ CleanupStale
    /\ Outdate
    /\ UNCHANGED <<peer, pc, ending, leaving, current>>

\* _periodic_cleanup wakes up and finds stale entries.
Sweep ==
    /\ Stale # {}
    /\ Goto(Cleaner, "sleep", "announce")
    /\ CleanupStale
    /\ Outdate
    /\ UNCHANGED <<peer, ending, leaving, current>>

-----------------------------------------------------------------------------
(* _broadcast_online_users: the directory is read in one section and sent in *)
(* another.  The task asks for the lock again without suspending in between  *)
(* and the lock is fair, so broadcasts run in the order of their snapshots.  *)

TakeSnapshot(t) ==
    /\ ~locked
    /\ Goto(t, "announce", "queued")
    /\ queue' = Append(queue, [task |-> t, current |-> TRUE])
    /\ UNCHANGED <<cmVars, peer, ending, leaving, fresh, current>>

StartBroadcast(t) ==
    /\ queue # <<>>
    /\ t = Head(queue).task
    /\ Goto(t, "queued", "sending")
    /\ BroadcastStart(None)
    /\ current' = Head(queue).current
    /\ queue' = Tail(queue)
    /\ UNCHANGED <<peer, ending, leaving, fresh>>

\* Mutant of Send: a lost receiver is waited for like a stalled one.
SendToReader(t, k) ==
    /\ pc[t] = "sending"
    /\ BroadcastWrite(k)
    /\ peer[connections[k]] = "reading"
    /\ Show(connections[k], current)
    /\ UNCHANGED <<peer, pc, ending, leaving, queue, current>>

\* One receiver: a stalled peer is waited for, a lost one only logged.
Send(t, k) ==
    /\ pc[t] = "sending"
    /\ BroadcastWrite(k)
    /\ peer[connections[k]] # "stalled"
    /\ Show(connections[k], current)
    /\ UNCHANGED <<peer, pc, ending, leaving, queue, current>>

\* Mutant of EndBroadcast: the cleanup task ends after one round.
EndBroadcastOnce(t) ==
    /\ BroadcastEnd
    /\ current' = TRUE
    /\ Goto(t, "sending", IF t = Cleaner \/ t \in ending THEN "closed" ELSE "reading")
    /\ IF t \in ending THEN CloseWriter(t) ELSE UNCHANGED peer
    /\ UNCHANGED <<ending, leaving, fresh, queue>>

EndBroadcast(t) ==
    /\ BroadcastEnd
    /\ current' = TRUE
    /\ \/ /\ t \notin ending
          /\ Goto(t, "sending", IF t = Cleaner THEN "sleep" ELSE "reading")
          /\ UNCHANGED peer
       \/ /\ t \in ending
          /\ Goto(t, "sending", "closed")
          /\ CloseWriter(t)
    /\ UNCHANGED <<ending, leaving, fresh, queue>>

Broadcasting(t) == TakeSnapshot(t) \/ StartBroadcast(t) \/ EndBroadcast(t)
                   \/ \E k \in Keys : Send(t, k)

\* Whatever a handler or the cleanup task does next by itself.
Handler(c) ==
    \/ WriteReply(c) \/ ReplyDrained(c) \/ ReplyLost(c)
    \/ EndOfStream(c) \/ Lookup(c) \/ UnregisterUser(c) \/ UnregisterUnknown(c)

Receive(c) ==
    \/ \E u \in Users, d \in SentIds : ReceiveRegister(c, u, d)
    \/ ReceiveHeartbeat(c)
    \/ ReceiveOnlineUsers(c)

Next ==
    \/ \E c \in Conns :
          \/ Connect(c) \/ Stall(c) \/ Resume(c) \/ Leave(c) \/ Silence(c)
          \/ Receive(c) \/ UpsertFails(c) \/ Handler(c)
    \/ Sweep
    \/ \E t \in Tasks : Broadcasting(t)

Spec == Init /\ [][Next]_vars

\* The event loop runs every task that can run, and the lock is granted in
\* request order, so a task that keeps finding it free is not overtaken for
\* ever: strong fairness for the tasks' own steps.  Clients owe nothing.
Fairness ==
    /\ \A c \in Conns : SF_vars(Handler(c) \/ Broadcasting(c))
    /\ SF_vars(Sweep \/ Broadcasting(Cleaner))

FairSpec == Spec /\ Fairness

\* The same, where a peer that stopped reading reads again or is lost.
FairReaderSpec == FairSpec /\ \A c \in Conns : WF_vars(Resume(c))

-----------------------------------------------------------------------------
(* Properties *)

TypeOK ==
    /\ CMTypeOK
    /\ peer \in [Conns -> {"unused", "reading", "stalled", "gone"}]
    /\ pc \in [Tasks -> PC]
    /\ ending \in SUBSET Conns
    /\ leaving \in [Conns -> Users \cup {None}]
    /\ fresh \in SUBSET Watched
    /\ queue \in Seq([task : Tasks, current : BOOLEAN])
    /\ current \in BOOLEAN

\* Every change of the directory reaches every client (hub.py:537, :728, :763):
\* when no task has anything left to do, each listed client that is still
\* there has been sent the directory as it is, whatever overtook what.
Quiet == \A t \in Tasks : pc[t] \in {"none", "reading", "closed", "sleep"}

DirectoryConverges ==
    Quiet => \A c \in Watched :
                peer[c] = "reading" /\ Listed(c) => c \in fresh

\* One user's connections never take another user's entry away: an entry goes
\* only by the sweep, by its own connection registering again, or by the end
\* of a connection of the same user.
UsersAreIsolated ==
    [][\A k \in Registered : connections'[k] = None =>
          \/ connections[k] \in overdue /\ pc'[Cleaner] # pc[Cleaner]
          \/ pc[connections[k]] = "reading" /\ pc'[connections[k]] = "reply"
          \/ \E c \in Conns : leaving[c] = k[1] /\ pc[c] = "unregister" /\ pc'[c] = "announce"]_vars

\* The handler's end takes its own connection out of the directory
\* (hub.py:723, cleanup_connection).
NoGhostOnline == \A k \in Registered : pc[connections[k]] # "closed"

\* It does so as long as no user has two entries: what leaves a closed connection
\* listed is that unregister goes by the user id and takes the first entry of the
\* user (connection_manager.py:129-130), and neither a stalled broadcast, a sweep
\* nor a registration of somebody else that overtakes the end of a connection.
OneEntryPerUser == \A j, k \in Registered : j[1] = k[1] => j = k
GhostsNeedTwoEntries == []OneEntryPerUser => []NoGhostOnline

\* An entry past the heartbeat timeout is removed, or its client heard again
\* (hub.py:753, connection_manager.py:41).
OverdueCleared ==
    \A c \in Conns : (Listed(c) /\ c \in overdue) ~> ~(Listed(c) /\ c \in overdue)

\* A task that has to announce a change gets through, and goes on to its end.
AnnouncementsEnd ==
    \A t \in Tasks : (pc[t] = "announce") ~> (pc[t] \in {"reading", "closed", "sleep"})
=============================================================================

# Formal models of Team Chat (self-hosted end-to-end encrypted team chat)

TLA+ modules for the parts of this repository whose behaviour over time is hard
to test, TLC configurations that model-check them, and TLAPS proofs of what they
promise for every number of users, devices, connections and messages. Paths are
relative to the repository; `hub.py` is `src/src/network/hub.py`, and so on.

## 1. The system

Clients (a PySide desktop application, one profile per user and device) talk
over TCP to one Hub on the local network. The Hub routes sealed messages, keeps
the online directory, stores what cannot be delivered and serves temporary
files. Everything else (contacts, trust, decryption, history, groups, file
sync, the AI document library) lives in the client.

| part | state | operations | concurrency |
|---|---|---|---|
| connection manager (`connection_manager.py`) | two dictionaries, connection records, a lock | register, unregister, unregister_by_writer, heartbeats, stale cleanup, broadcast | asyncio tasks, one lock; broadcast awaits under it |
| Hub sessions (`hub.py`) | one handler task per connection, cleanup task | REGISTER, HEARTBEAT, ONLINE_USERS, end of stream, periodic cleanup, directory broadcasts | tasks overtake each other at the lock and in `drain()` |
| Hub delivery (`hub.py`, `hub_storage.py`) | `offline_queue` rows, in-memory queues | MESSAGE, group fan-out, store, redeliver, expire | delivery runs, senders, restarts |
| group routing (`hub.py`) | groups and their active members | GROUP_SYNC, GROUP_UPDATE, GROUP_MESSAGE | any member's snapshot replaces the table |
| Hub devices (`hub_storage.py`) | devices with key and trust status | upsert_device | - |
| frames (`protocol.py`) | a byte buffer | feed, pop_message, clear | chunks of any size |
| temporary files (`temp_files.py`, `files/`) | files and metadata with a time to live | upload, download, cleanup | HTTP threads and the cleanup task |
| client transport (`client_transport.py`) | flags, socket, network thread | connect, disconnect, register, send, reconnect | UI thread and network thread(s) |
| chat service (`chat_service.py`) | contacts, messages, conversations | receive, accept, reject, send | UI thread and network thread |
| groups and keys (`chat_service.py`, `group_crypto_service.py`) | membership snapshots, key versions | create, add, remove, accept, reject, rotate, import | several members at once |
| replay protection (`direct_v2_service.py`, `sqlite_store.py`) | sequence numbers, seen records | encrypt, decrypt | threads, restarts |
| identity, pairing, key store | files | initialise, pair, unlock | - |
| sync and project index (`sync/`) | bindings, index versions | scan, refresh, search | a folder that changes while it is scanned |
| AI library and retrieval (`ai/`) | document states, passages | build, delete, restore, rank | - |
| control commands and launcher (`app/`, `macos/`) | pid and marker files, launch tickets | start, stop, issue, consume | several processes |
| assistant panel and local model (`ui/main_window.py`, `ai/`) | conversations, running tasks, LM Studio | ask, refresh, build, clear, load the model | a thread per task, launcher commands, a shared server |
| configuration, discovery, admin report, logging | - | - | not modelled: see section 7 |

How they meet: a client's transport calls the Hub over TCP (`protocol.py`
frames); the Hub's handler tasks share the connection manager; delivery reads
the directory the sessions write; the chat service gets messages by callback on
the network thread while the UI thread works on the same tables.

What makes each part correct: the directory never answers for the wrong
connection and converges at every client; a stored message leaves the queue
only when handed over or expired; a rejected or unknown contact never gets into
the chats; a message is shown once, and is not lost by a restart; all members
of a group end with the same members and a key they share; an index version is
complete or not visible. The full list of what can go wrong, line by line, is
`hazards` in `PROJECT.json`.

## 2. Modules

| module | models | extends / instantiates |
|---|---|---|
| `OnlineDirectory` | abstract: what the connection manager promises | - |
| `ConnectionManager` | `connection_manager.py`, one action per critical section | instance of `OnlineDirectory` |
| `HubSessions` | handler tasks, periodic cleanup, directory broadcasts | extends `ConnectionManager` |
| `OfflineMailbox` | abstract: what the persistent queue promises | - |
| `HubDelivery` | forwarding, storing and redelivery for one recipient | instance of `OfflineMailbox` |
| `GuardedInbox` | abstract: what the inbox promises its user | - |
| `DirectInbox` | contacts, authorisation, receiving, replay records, device keys of one client | instance of `GuardedInbox` |
| `DeviceOutbox` | abstract: what sending to several devices promises | - |
| `DirectChat` | conversations in memory and in the store, sending, events to the UI | instance of `DeviceOutbox` |
| `GroupChat` | one group: members' clients, the Hub's routing table, group keys | - |
| `ClientTransport` | the connection of a client: starting thread, network thread, Hub's end | - |
| `LocalProfile` | `identity.json`, its initialisation and login, device trust and pairing | - |
| `LaunchTickets` | the files of launch tickets and the clients that redeem them | - |
| `Workspace` | folder binding, Syncthing, project index, AI document library | - |
| `Assistant` | the assistant panel, its tasks, conversations, launcher commands | - |
| `LocalModel` | LM Studio started and loaded by several questions | - |
| `HubHost` | Hub processes of a machine, runtime marker, admin, temporary files | - |
| `FrameChannel` | abstract: what a connection promises for frames | - |
| `WireFrames` | the byte stream of a connection, the frame buffer and the read loops of both ends | instance of `FrameChannel` |
| `MCHubSessions`, `MCHubDelivery`, `MCDirectInbox`, `MCDirectChat`, `MCGroupChat`, `MCAssistant` | TLC instances | |
| `MCStation` | TLC instances of `ClientTransport` to `HubHost` and `WireFrames`, side by side | extends them |
| `HubSessions_proofs`, `HubDelivery_proofs`, `DirectInbox_proofs`, `DirectChat_proofs`, `GroupChat_proofs` | theorems (those of `ConnectionManager` in the first) | each extends its module |
| `Endpoints_proofs` | theorems about the two ends of a connection | extends `ClientTransport`, `HubHost`, `WireFrames` |
| `Workspace_proofs` | theorems about the workspace and the assistant | extends `Workspace`, `Assistant` |
| `Station_proofs` | theorems about the profile, the tickets, the local model and the types of the whole machine | extends `MCStation`, `Endpoints_proofs`, `Workspace_proofs` |

Five abstract modules say what a component promises without saying how. Each is
instantiated by the detailed module with a refinement mapping, its specification is a
property of a run (`DirectorySpec`, `MailboxSpec`, `InboxSpec`, `OutboxSpec`,
`ChannelSpec`) and a theorem. `OnlineDirectory` and `OfflineMailbox` are described by their
comments. `GuardedInbox`: a stored text stays stored as long as its folder (conversation)
does, which goes only when it is merged into another of the same peer; an answer settles the
waiting texts of its sender and no others, and what was settled changes only when the text
comes again. `DeviceOutbox`: a text is settled once, with one envelope for each device if it counts
as sent, nothing of it goes out later, and the sequences a device gets go up. `FrameChannel`:
frames arrive in order, none twice, and none is left out unless some are too large.

The modules of one client meet in the code at method calls whose outcome is a
choice of the environment in the others: whether a contact may be written to is
decided in `DirectInbox` and open in `DirectChat`; which conversation is found in memory is
decided in `DirectChat` and open in `DirectInbox`, where the stored ones come and go with
their rows; an identity loads and is the ticket's in `LocalProfile`, and either way in
`LaunchTickets`; whether the transport takes a
frame is decided in `ClientTransport` and open in `DirectChat` and `GroupChat`;
that the Hub may repeat or drop a frame is shown in `HubDelivery` and assumed in
`DirectInbox` and `GroupChat`.

A few definitions are named *Mutant of ...* in their comment. They are not part of
any specification: each is the plausible mistake that one of the checked
properties is there to catch, kept so that the property can be tested against it.

### ConnectionManager

`connections` is `_connections` and `writerToKey` is `_writer_to_key`, as total
functions with `None` for an absent entry. `before` is the dictionary's insertion
order, which `unregister` depends on (the *first* connection of a user).
`identity` is the `user_id`/`device_id` of the record and is never cleared.
`overdue` stands for `last_heartbeat`: the connections past the timeout. A device
that sends no id gets the connection itself (the code: `legacy:<id of the writer>`).
Each coroutine is one action, because nothing in it awaits between taking and
releasing the lock; `broadcast` is a start, a step per receiver and an end.

### HubSessions

Asyncio runs one task at a time, so an action is what a task does between two
points where it can be suspended. Those are: waiting for the manager's lock
while a broadcast holds it, and `drain()` of a peer that does not read. An
uncontended lock and an unpaused `drain()` do not suspend. `pc[c]` is where the
handler of connection `c` is; the actions follow `process_message` and
`cleanup_connection` in order, including the handler that ends after `register`
has listed it but before the reply (`UpsertFails`, `ReplyLost`). `queue` is the
FIFO of broadcasts that wait for the lock, each with the directory it read.
`fresh` abstracts what a client knows: whether the last directory written to it
is the current one; it is kept for the connections in `Watched` only.

### HubDelivery

The state is that of one recipient. `rows` are the undelivered rows of
`offline_queue`, `memory` the in-memory queues by key (`None` is the `*` key),
`batch[c]` and `left[c]` what the delivery run of connection `c` still has to
write. `Route` is a sender's decision, which has no await in it; `Forward` is one
receiver of a live message. `Deliver(c)` is the delivery run, one step per write
and per `drain()`. The directory is kept as far as delivery sees it: any entry
may leave at any time (`Unlist`). `Crash` restarts the Hub with its database. A
database failure is a nondeterministic outcome of `Route`, `Abandon` and `EndRows`.
`created_at` is the number of rows stored before, so rows have distinct ages.

### DirectInbox

`contacts`, `rows`, `seen` and `sessions` are the tables `contacts` (with the copy
in `identity.json`), `messages`, `message_security_seen` and `crypto_sessions`;
`directory` is what the Hub last said of a peer. Receiving is a chain of
actions of the network thread (`net.at`): classify, open, count, save, conversation, with a
commit in each; the dialog, the steps of accept, opening a chat and the assistant's look at the
history are the UI thread's; `PresenceRead` and `PresenceWrite` are the presence worker, which
writes back a *copy* of a contact. `convs` holds the stored conversations of a peer: the
one with the deterministic id ("own") and one with another id ("old"). `OwnConversation` is
`_get_or_create_conversation_id`, which may rename the old one and delete its rows with it;
`LoadConversations` is what a start makes of the store, with `_deduplicate_conversations`; both
rearrange the conversations by `Rearrange` (`delete_conversation` deletes the messages too).
A text opens exactly if the first device
profile is the sealing device's. `letIn` and `opened` are history variables.

### DirectChat

`mem` and `db` hold the unread count of a conversation in memory and in the
store, `rows` the stored messages by conversation. `Ensure`, `Attach` and `Purge`
are `_get_or_create_conversation_id`, which takes no lock, step by step;
`ReceiveRow` and `ReceiveConversation` the network thread under its lock;
`ShowReceived` an event the UI handles later. `Seal` draws a sequence number and makes an
envelope for each device, `Deliver` hands over one envelope after another.

### GroupChat

`store`, `active`, `meta`, `keys`, `current` and `imported` are each client's
`group_members` rows, its members in memory, the key packets in the group
record, the key per version, the active version and the replay record of "its"
key packet. `up` and `down` are the sockets, in order; what a member pushes may be dropped
as a whole (not connected), a message may be delivered again, the Hub and the clients restart.

### ClientTransport, LocalProfile, LaunchTickets, Workspace, Assistant, LocalModel, HubHost

`ClientTransport`: `caller` is where `ChatService.start` polls, `thread` where the
network thread is in `_async_main`, `tasks` the coroutines other threads
submitted. A connection that goes away, a Hub that stops and an entry the sweep
drops are faults; the Hub's side keeps only whether the client is listed, was
ever greeted on this connection, and its groups are routed. The window stays open when
`start()` failed (`Returned`), and a message needs no more than the two flags (`Send`): the
paths of groups and files ask for nothing else.

`LocalProfile`: a save of `identity.json` is `SaveStart` (truncated) and `SaveEnd`
(filled), for the UI thread, the network thread and the control command, none
of which locks. `initialize_identity` is three steps, `InitializeIdentity` (the check of the
stored id), `LoadStored` (after the password was hashed) and `SaveIdentity`, in the dialog and in
a control command at the same time. `disturbed` records that a save met another one, a reader,
a crash or an initialisation that had found no identity.

`LaunchTickets`: any number of clients read a ticket, truncate its file and write it, each a
step. `contended` records the tickets two had read before one wrote.

`Workspace`: an operation is a record in `op[w]` that says where worker `w` is;
each action is one commit (or one call to Syncthing). Files have versions; a
document is one chunk with one search row. A death drops the operation
wherever it is and records its kind in `cut`. `named` records the source ids
(a fresh uuid in the code, a fresh number here) that were made for a file. A scan passes files
over whose directory cannot be listed (`PassOver`, recorded in `unlisted`) without an error; a
request to Syncthing may fail after it was carried out (`ConfigureFails`, `StopCall`, `UnbindCall`).

`Assistant`: `_task_running` is one flag for tasks that may overlap, results
arrive as queued signals. Of every text only the chat it is about is kept. `LauncherAsk` takes any
conversation there is, whatever group it asks for, as the command does.
`LocalModel`: the questions' steps through `ensure_ready`, the post and the retry after a 503.

`HubHost`: several Hub processes on one directory; an upload is part file,
rename, manifest, answer, then the sender's notice; the marker is what the admin
commands trust, with the id of the machine, which may change (`RenameMachine`: without
`/etc/machine-id` it is the host's name and a network address).

### WireFrames

Bytes are positions in the stream and a frame is where it ends (`ends`): since
`clear` drops all of the buffer, what is in it is always the part of the stream
from `start` to `read`. `Read` is `reader.read` and `feed`, `Pop` and `PopNone` one
call of `pop_message` each. All senders escape non-ASCII text, so that no
character can be cut by a read. What is left of a frame cut at its front is not JSON;
without its delimiter it waits, or its beginning decodes as a value that is no message.

## 3. Runs

| run | instance | shows |
|---|---|---|
| `HubSessionsSafety` | 2 users, 1 device, 2 connections, 1 watched; 758 173 states | dictionaries stay inverse (`IndexAgrees`) and implement `OnlineDirectory` (`DirectorySpec`); nobody's entry goes because of another user (`UsersAreIsolated`); a broadcast sees no change (`IterationStable`); clients end with the current directory (`DirectoryConverges`) |
| `HubSessionsLiveness` | 1 user, 1 device, 2 connections; 71 025 states | while no user has two entries, no ended connection stays listed (`GhostsNeedTwoEntries`); overdue entries are cleared (`OverdueCleared`) and announcements end (`AnnouncementsEnd`) if stalled readers recover |
| `HubGhost` | 1 user, 2 devices, 2 connections | **violated**: `NoGhostOnline` (finding 1) |
| `HubStalledReader` | as the liveness run, stalled readers need not recover | **violated**: `OverdueCleared` (finding 2) |
| `HubDelivery` | 2 devices, 2 connections, 2 messages, memory 1, limit 1, 1 restart; 537 763 states | the queue implements `OfflineMailbox` (`MailboxSpec`); no row is left behind (`HandoverComplete`) |
| `HubUndelivered` | 2 unpersistable messages, memory 2 | **violated**: `UndeliveredKept` (finding 3) |
| `DirectInbox` | 1 peer with 1 device, a sealed text and a request, 2 deliveries, an old conversation, 1 crash; 1 142 992 states | only senders that were let in reach the chat (`AuthorisedOnly`), over stale contact copies and races of accept with a message under way; no text is decrypted twice (`OpenedOnce`); rows, conversations, consent and openings are a `GuardedInbox` (`InboxSpec`); nothing is kept of a contact that is gone (`TypeOK`) |
| `DirectChat` | 1 peer, its conversation, an old one and a common group, 2 incoming, 2 outgoing, 1 crash; 690 482 states | what is shown is stored (`ShownIsStored`), sequence numbers are unique (`SequenceUnique`), "sent" means to every device (`SentToAll`), sending is that of a `DeviceOutbox` (`OutboxSpec`), an open chat does not stay unread (`ReadWhileOpen`) |
| `DirectChatGroupHistory` | the same with 1 incoming | **violated**: `GroupHistoryKept` (finding 4) |
| `GroupChat` | 2 users, 1 message, 2 membership changes, 1 restart or redelivery; 1 368 764 states | nobody is active anywhere without consent (`ActiveByConsent`); who can read consented and was not removed by the sender with the key the message is sealed with (`ReadByMembers`); a message is opened once (`OpenedOnce`) |
| `Station` | eight parts, one at a time; 629 172 states | see below |
| `AssistantContext` | 3 chats, 2 questions | **violated**: `OnlyThisChat` (finding 5) |

`Station` picks one of its parts in the initial state and leaves the others as
they begin. The parts share no variable, so nothing is lost against separate runs,
and the states add up rather than multiply. The assistant and the host go no further once
`mixed` or `overlap` is set, which their properties except, so no violation is missed; the proofs have no such bound:

* profile (2 ids, 2 passwords, 2 changes, 1 crash): the user id is fixed
  (`IdentityFixed`) unless a save of `identity.json` was torn, met another one or followed an
  initialisation that had found no identity; trust is the user's doing (`PairingByConsent`);
* tickets (1 ticket, 3 clients): a ticket opens one session (`TicketOnce`) unless two read it
  before one wrote it;
* workspace (1 file, 2 processes, 3 operations, 1 edit, 1 death): an indexed
  document is found (`IndexedIsFound`), a deleted one is not (`DeletedStaysOut`),
  an undisturbed scan is exact (`ScanExact`) but for directories it could not list, an unbind
  leaves nothing (`UnboundIsClean`), Syncthing shares only recorded folders
  (`SharingIsRecorded`) unless a configuration ended after it shared one;
* assistant (a contact and 2 groups, 2 questions, 2 other tasks): without a change of chat
  during an answer and without a launcher that goes on with another chat's conversation,
  nothing of another chat is sent (`ContextStaysInChat`);
* host (2 Hubs, 2 machine ids, 1 file, 2 logins): a file whose notice was sent can be fetched
  until it expires (`SentIsReadable`); the marker is right about a Hub that
  serves and knew the machine by its present id (`MarkerHonest`).
* transport (2 attempts, 2 frames, 2 faults): the Hub never gets a message on a
  connection before its REGISTER (`RegisterFirst`) unless the start failed; a started client
  does not stay without registration (`Reregisters`), nor the Hub without its groups
  (`GroupsRestored`), except where the code gives up;
* model (2 questions): questions end (`QuestionsEnd`) although LM Studio may
  unload at any time;
* frames (3 frames of 2 to 7 bytes, reads of 1 to 3, buffer 6): frames come out in order and
  once, frames that leave room for a read meet no error, and an error on a frame's
  end costs nothing after it (`FramesInStep`); the stream and the buffer are a `FrameChannel` (`ChannelSpec`).

`TypeOK` joins the types of the parts, which hold more than kinds of values: one row for a
file, no ticket redeemed that no client was given, no more attempts than configured. The types of
the other modules but `DirectInbox` are not spent a run on: they are proved, for every value of the constants (section 5).

The exceptions in these properties (`disturbed`, `cut`, `raced`, `overlap`,
`vanished`, `named`, `contended`, `mixed`, ...) are history variables and stand for what the code really does
not guarantee; section 4 lists what happens in them.

Bounds. Two connections are enough for every pairwise race on a key, on the lock
and on a row: a third only adds another waiter to a FIFO. Two users on one
device id give every way to change name and to be replaced; two devices of
one user are needed only for `HubGhost`. Both connections may stall, break and
fall silent without a bound. A message for any device and one for a named
device cover both sides of every query; `Limit` and `MaxMemory` are 1 so that a
second row or message meets the bound. `MaxCrashes` is 1: after a restart nothing
but the rows is left. Symmetry over connections is used where only safety is
checked and no connection is singled out. `CHECK_DEADLOCK FALSE` is stated
because the system may stop: all clients may have left.

On the client's side one peer with one device, listed or not, gives a text that cannot be opened
when it comes and can later; a second device of the peer, whose key would come first, only adds to
that and is in the proofs (`TextsOpenOnce`, `InboxIsGuarded`). The pending count (`MaxCount` 0) is
read by no action, and `InboxTypeCorrect` has it for every bound. Three clients of one ticket give two that race and one that comes after; two groups
give the launcher another group's conversation; two deliveries a repeated message; one crash lies
at every step. Two users of a group suffice for a removal that crosses a message, two
rotations that meet, a late snapshot and a rejoin. They do not for the key of a third:
a member who has it, was removed and reads again. That case was met in the proof of
`MessagesReadByMembers`, which holds for any number of users, and is in section 4. Two workers and three operations give two that overlap and one that repairs or
repeats; a second file only adds rows the operations treat independently. `MaxStream` only ends the stream
of frames. The sizes of frames lie on both
sides of the limit and of the limit less a read. Two faults
allow a break during the reconnection that follows a break.

Fairness. `FairSpec` has strong fairness of each handler's own steps and of the
cleanup task's. The event loop runs every ready task, and `asyncio.Lock` grants
its waiters in order, so a task that finds the lock free again and again gets it
(the model does not keep the order of plain lock waiters, hence strong rather than
weak fairness). Clients owe nothing in `FairSpec`; `FairReaderSpec` adds that a
stalled reader recovers or is lost, which TCP keepalive or the user brings about
but the code does not, and the difference between the two is finding 2.

`DirectChat` has weak fairness of the UI thread's steps and of the network
thread inside its lock, and strong fairness of the handling of an event: Qt's queue is
served, but the UI thread may be busy again and again. The process may still die,
and no fairness makes the user or the peer do anything. `TransportFairness` is weak
fairness of the network thread, of the tasks in its event loop and of a Hub that is up;
how long the starting thread polls is open. `LocalModelFairness` is weak fairness of
a question's steps, each of which ends by an answer or by its timeout. LM Studio owes nothing.

## 4. Findings

1. **The end of one device unregisters another** (`HubGhost`). `cleanup_connection`
   calls `unregister(user_id)` (`hub.py:726`), which removes the user's *first*
   connection. With two devices online, closing the second removes the first from
   the directory, and the closed one stays listed until it is swept. The dead entry
   also takes the user's live messages, which are then lost (`hub.py:684`).
2. **One stalled reader stops the Hub's directory** (`HubStalledReader`). `broadcast`
   awaits `drain()` under the manager's lock (`connection_manager.py:358`); the sweep
   that would remove the stalled client waits for the same lock.
3. **Messages parked during a delivery run are dropped** (`HubUndelivered`). The
   in-memory queues are popped whole after the run (`hub.py:413`), whatever was
   appended to them meanwhile.

4. **A direct chat takes a group conversation over** (`DirectChatGroupHistory`).
   The search for an old conversation to migrate (`chat_service.py:3359`) accepts
   every conversation both users are in, groups included. The group's stored messages are
   deleted with its old id.
5. **A late answer moves one chat's context into another** (`AssistantContext`).
   The answer sets the panel's conversation (`main_window.py:1597`) after the
   change of chat reset it, and the next question continues that conversation.

The properties of the passing runs have exceptions where the code guarantees less.
What the models show there, for a maintainer:

* A message classified while its sender is accepted stays pending and hidden, as
  `accept_contact` has promoted the rows before it is saved. The presence worker
  writes an older copy of a contact back and may undo an answer or bring a deleted contact back.
* `LaunchTicketStore.consume` reads the ticket (`launch_ticket.py:77`), checks it and writes it
  back (91) without a lock: of "one-time local launch tickets" (16), one with which two clients
  are started at once opens two sessions if both read it before either wrote it.
* An old conversation with another id is deleted with its messages when the chat is looked up
  and the own one is not stored (`chat_service.py:3370`). Two stored ones are merged at the next
  start into the one with the later message (`chat_service.py:1243`): if that is the old one, the
  messages under the own id go, and if not, the old ones.
* A text that arrives with the wrong device profile first is stored sealed; the
  first load of the history opens it for the view only, and the next one is
  refused as a replay. A crash between the replay record and the save loses the text.
* Key packets of a group key with a version above 1 are never imported
  (`chat_service.py:596` and `:635` build different ids). A member without a key makes up its
  own. A packet of a version-1 key is imported before the update it came with is found
  invalid (`chat_service.py:2945`), and `save_group_key` (`sqlite_store.py:1818`) makes the
  imported key the active one: a member that removed someone with its own key may seal the
  next message with an older one, which the removed has. Updates that are pushed while the
  client is not connected are lost, and any late snapshot replaces the Hub's routing table.
* After `not_registered` (`client_transport.py:758`) and after a failed or late start
  the client stays connected and unlisted. `disconnect()` between two connections does nothing.
  If the user then changes the display name, a REGISTER goes out and group messages are
  accepted, but `_has_registered_once` stays FALSE: after a reconnection they are written
  without a REGISTER before them.
* `identity.json` is truncated and rewritten in place without a lock: a crash in
  the middle leaves a profile that starts again under a new user id. Two initialisers (the
  dialog and a launcher command) that both find no identity save two ids one after the other, as
  the password is hashed between the check (`local_identity.py:527`) and the save (`:561`).
* A directory that cannot be listed (`os.walk` without `onerror`, `project_index_service.py:368`)
  is passed over: the run is "ok" and the files in it are marked missing.
* A configuration that fails after `upsert_folder` (`sync_service.py:280`), at
  `get_restart_required` or by a timeout, leaves a folder shared that no row says is; a later stop
  or unbind does not stop sharing it.
* The launcher may go on with the conversation of another group (an answer that comes late
  selects its own, `LauncherViewModel.swift:784`); neither the command nor
  `ConversationStore.get_or_create` compares the conversation with the group.
* Without `/etc/machine-id` a change of the host's name or network address makes a Hub that
  serves "belong to another host" for the admin commands (`hub_runtime.py:97`).
* `poll_sync_status` and the binding operations write back the row they read earlier; two scans of a
  folder mark each other's files missing; a death between a source row and its chunks
  leaves an "indexed" document that is never found or rebuilt, and so may two builds that
  make two source ids for one file, of which the row keeps the first (`document_library.py:843`,
  `ON CONFLICT(file_id)`) while the chunks go under the second; a deleted document comes
  back when its file was missing for a while or a build was under way.
* `feed` compares MAX_MESSAGE_SIZE ("the maximal message size", `protocol.py:216`) with
  all of the buffer (`protocol.py:246`), complete frames and the beginning of the next one included: a
  frame of more than 61442 of the 65536 bytes is dropped when the next follows closely.
* After a rejected frame the Hub clears its buffer and reads on wherever that was:
  frames are lost one after the other until a read ends with a frame.
* Two Hubs on one directory write one marker and lock their temporary files
  separately; a death between the rename and the manifest leaves a file nobody deletes.

## 5. Theorems

All are proved by TLAPS for arbitrary constants, from the assumptions named in
the modules: the kinds of values are disjoint, limits are natural numbers, a few
sets are finite (`Msgs` of `HubDelivery`, `Peers` and `Devices` of `DirectInbox`,
`Files` of `Workspace`), the value for "nothing" is none of the records it is
mixed with (`NoRowAssumption`, `GroupChatAssumption`), and the two ids of a
direct conversation belong to its peer and are no group's
(`DirectChatAssumption`). TLC evaluates them on every run.

Most properties are not inductive, and what has to be added says why the code works.

* `HubSessions_proofs`, the manager: `IInv` is the type invariant and `IndexAgrees`.
  Neither half of `IndexAgrees` is inductive alone:
  `unregister` finds an entry by its record's user and drops the reverse entry by
  its writer, so it needs forward, reverse and record to agree at once.
  From it: `IndexAgreement`, `IterationIsStable`, and `ImplementsDirectory`
  (a register is a `Bind` exactly because the reverse index knows the one key a
  connection holds).
* `HubSessions_proofs`, the sessions: `HInv` adds the types of the session state and
  `UnknownIsUnlisted`: when `cleanup_connection` has found no user, the connection
  is not in the reverse index, because only its own handler could have put it
  there. Every step changes the manager's state by one of its operations or not at all,
  so the manager's theorems hold of the Hub (`HubIndexAgreement`,
  `HubImplementsDirectory`), and no entry is lost to another user (`UserIsolation`).
  `NoGhostOfOneEntry` is the other side of finding 1: with one entry per user, the user
  `cleanup_connection` looked up has no entry but that of the connection that ended (`LookedUpOwn`).
  `ChangesReachEveryone` needs `FollowInv`:
  broadcasts wait in the order of their snapshots (`QueueOrder`); an outdated one, waiting
  or running, is followed by one of the current directory or by a task that will announce
  (`OutdatedFollowed`); and a listed client that does not know the current directory is
  still to be reached by one of these (`Reached`).
* `HubDelivery_proofs`. `DInv` has four parts besides types: `RowsKept` (rows
  and expired rows are disjoint parts of what was stored), `Directed` (whatever a
  task holds, memory keeps or a connection got is for the device it goes to),
  `Identified` (a connection has a device from its REGISTER on) and `DrainAwaited`
  (a task waiting in `drain()` has written what it is about to mark). From it:
  `DeliveryTypeCorrect` (the types need no run any more) and `PersistentQueueIsMailbox`, the refinement of
  `OfflineMailbox`. `NoRowForgotten` strengthens `HandoverComplete` to `RunHasRow`:
  a waiting row of a listed device is in the batch of a run under way.
  `LoneRunsKeepMemory` is the other side of finding 3: if the in-memory queues change under no
  run, what a run walks over covers the queues it will pop (`RunCovers`), and nothing is dropped.
* `Endpoints_proofs`, the host. `MarkerInv`: until two Hubs met on the directory at most one
  runs, and the one that serves is the one the marker names, with the machine's id as it was
  then; without the first half a second Hub may write over the marker of the first. `FileInv`: what a
  manifest says is on disk as long as a notice promises it. From them `MarkerIsHonest`,
  `NoticeIsReadable`.
* `Endpoints_proofs`, the transport. `TInv` follows a frame from its caller to the Hub:
  messages are submitted only after a first registration or a failed start (`SenderRegistered`), a
  client that registered once begins each connection with a REGISTER
  (`Announced`), so on every socket a REGISTER is ahead of each message (`RegisterAhead`);
  from it `RegistersFirst`. That the flag belongs to the current connection
  (`FlagIsCurrent`, `AnswerIsCurrent`) is what makes it inductive.
* `Endpoints_proofs`, the frames. `BufferInv`: as long as the last error fell on the end
  of a frame, the buffer begins at one (or at its delimiter), what lies before it was
  handed over, and before a read it holds a part of one frame at most. From it
  `FramesStayInStep`, and the refinement of `FrameChannel` (`FramesMakeAChannel`): without a
  frame too large, what was handed over are the first frames there are (`FirstOnes`).
  The sums of sizes need induction; the end of this section says how that is done.
* `DirectInbox_proofs`. The status "trusted" is copied between threads.
  `InboxInv` says of each copy (the contacts, the presence worker's list, the text
  being stored, the answer being carried out) that the user consented, which is
  never forgotten; and that what was decrypted is in the replay record. From it
  `InboxIsAuthorised`, `TextsOpenOnce`, and the refinement of `GuardedInbox`
  (`InboxIsGuarded`): a change of the conversations is a `Merge` of the abstract inbox because no
  peer that has one is left without, and exactly the rows of those that go go with them
  (`RearrangeIsMerge`). `TypeInv` types the presence worker's copies as well,
  and no copy is of an absent contact: so writing one back never leaves half a contact
  behind (`InboxTypeCorrect`).
* `DirectChat_proofs`. `StoredInv`: what the UI thread found in the store between two
  steps of `_get_or_create_conversation_id` is still there, and the id it is about to delete is
  nobody's own (`CarriedStaysValid`), although the network thread works in between; from it
  `ConversationsAreStored`. `SendingInv`: the session's counter is at or above every
  sequence used, gone out or not (`CounterAhead`), a message about to be sealed was neither sent nor
  given up (`ToSealUnsent`), one being delivered has an envelope for every device
  (`AllAddressed`); from it `SequencesNeverReused`, `SentReachesAll`. `SendsAsOutbox`, the
  refinement of `DeviceOutbox`, adds that only the message being delivered is sealed and unsettled
  (`SealedIsSettled`) and that its envelopes come after all that went to their devices
  (`EnvelopesFit`). `GroupsKeepHistory` is the other side of finding 4: if each contact one shares a
  loaded group with has a stored conversation, the search for an old one never gets to a
  group (`GroupsApart`). And `ChatTypeCorrect`.
* `GroupChat_proofs`. `GroupInv` asks of every snapshot under way what it asks of
  the tables it will replace, late ones included, and that messages come down
  only to members who consented: a client that gets a message of a group it does not
  know makes a group with the sender and itself as active members. From it
  `MembersConsented`, `MessagesOpenOnce`. `KeyInv` bounds the versions by the changes of the
  membership (`GroupTypeCorrect`). `ReadInv` is about who has which key: each user makes
  a first key once, for a set `F` of users, and the packets on the way, the key rings
  and the messages agree on `F` (`HonestFor`); a later version is only ever in the ring of its maker
  (`LaterKeysOwn`); so those the sender barred when it made the key it seals with do not have
  it (`MessagesReadByMembers`).
* `Station_proofs`, the profile. `IdentityInv`: as long as nothing disturbed a save, one
  writer at most is at it, `identity.json` is torn only then, an initialiser that found nothing
  can save only while there is nothing (`SavesApart`), and file, memory, what is held and what
  is being written have one id (`OneId`); wherever the contact's
  trust is kept, the user let it in (`TrustBacked`). From it `ProfileIdFixed`, `TrustNeedsConsent`.
* `Station_proofs`, the tickets. `TicketsInv`: of a ticket that is not contended one client at
  most is between its read and its session, no session was opened with it before, and once it
  wrote, the file is torn or says that the ticket is consumed (`TicketOk`). From it `TicketsOpenOnce`.
* `Workspace_proofs`. What an operation carries between its commits is typed first.
  `NamesInv`: every source id that is stored or carried was made for one file id
  (`RowsAreUnique`). `OwnerInv`: a file id belongs to one project in every table. `FoundInv`: an
  indexed document has chunks and search rows, or an operation that will settle it is under way
  (`IndexedDocumentsAreFound`). `DeletedInv`: the row of a deleted document says so, and a build that has
  its file ahead of it read the row after the deletion (`DeletedDocumentsStayOut`). `ScanInv`: while a scan is
  undisturbed, what it passed is indexed as it is on disk, unless it could not be listed (`CalmScansAreExact`). `AloneInv`: as
  long as binding operations met nobody, the folder they read is the one there is; with it
  `SharingInv`, that the row or the configuration on its way to the row knows of every
  shared folder (`SharedFoldersAreRecorded`), and `CleanInv`, that all rows are of one project and that
  without a folder nothing is stored or on its way (`UnbindsAreClean`).
* `Workspace_proofs`, the assistant. `ContextInv`: everything that refers to a conversation
  (its row, its messages, questions under way, the panel) refers to it for one chat, and a conversation not
  yet opened is referred to by nothing; the launcher keeps it as long as the conversation it goes
  on with is its group's. From it `ContextIsOwn`.
* The types are proved part by part (`TransportTypeCorrect`, `ProfileTypeCorrect`,
  `TicketsTypeCorrect`, `RowsAreUnique`, `AssistantTypeCorrect`, `ModelTypeCorrect`,
  `HostTypeCorrect`, `FramesTypeCorrect`); where they say more than a type (one row for a file, no
  more attempts than configured, no model without its server), they rest on the invariants
  above. `StationTypeCorrect` puts them together for the specification the runs check.

The theorems on the other side of a finding (`NoGhostOfOneEntry`, `LoneRunsKeepMemory`,
`GroupsKeepHistory`) have a condition on the behaviour, which the code does not
ensure. They say that the condition is all that is missing, and what a fix has to bring about;
the violated runs show that without it the promise fails. The conditions are met, for example, while
each user has one device online, while nothing is parked as a device is being served, and while every
direct chat is older than the groups.

Only model-checked: liveness (`OverdueCleared`, `AnnouncementsEnd`, `ReadWhileOpen`, `Reregisters`,
`GroupsRestored`, `QuestionsEnd`), since fairness and ENABLED are outside the prover's
reach. Two facts rest on induction: the sums of frame sizes and the list of
device keys that `Merge` builds. The induction theorems of the library take an operator
as a parameter, which the provers cannot instantiate; the proofs take a least counterexample
instead (`LeastNumber`, from the well-foundedness of `<` on the natural numbers). No
RECURSIVE operator is declared.

## 6. Plan

Written: the Hub (sessions, delivery, host), the client's chats, groups,
transport and profile, the frames, the workspace and the assistant; proved: every safety
property the passing runs check. Left, in this order:

1. `ClientTransport` composed with `HubSessions`, so that the sweep is the Hub's own.
2. An abstract membership for `GroupChat`, with what late snapshots leave of it.
3. `upsert_device` and the ranking of passages as pure
   algorithms against reference definitions over bounded inputs.

## 7. Not modelled

Cryptographic primitives are library calls: a sealed text is a record that opens
with the right key. Frames are records outside `WireFrames`. `upsert_device` keeps a status that is only reported. Discovery is a
stateless UDP beacon and `admin.py` a report. The ranking and extraction of passages
(`chunk_text`, the readers of file formats, FTS queries) decides which texts are
sent, not how state changes. The event bus is the queue of `DirectChat` and
nothing else; widgets and layout, logging, configuration files, environment checks of the
control commands, the in-memory transport for tests and the Swift
launcher's views keep no protocol state of their own.

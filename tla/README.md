# A TLA+ model of ZeroTrustChat

ZeroTrustChat is a chat system of three programs:

* **ZChatIM** (C++): the core. It keeps accounts, sessions, messages, friends, groups, calls and an on-disk
  block store, and exports them through JNI.
* **ZChatServer** (Java, Netty, Spring Boot): the gateway. It terminates ZSP, a binary protocol over TCP,
  calls ZChatIM for every operation and relays frames between online users.
* **Client** (Java, Android): keeps one ZSP session, a local message database and the user interface.

This directory models the parts in which order, concurrency and failure decide whether the program is right.
TLC checks the models on small instances; TLAPS proves every invariant and every action property the runs
check, and that the gateway takes only steps the abstract relay allows, for every instance; liveness is
TLC's. `PROJECT.json` lists the runs, the mutants that show that every property can fail, the
theorems, the hazards, and for every definition the source lines it translates.

    tlc -workers 2 -config MCGateway.cfg MCGateway
    tlapm GatewayProofs.tla      # also ConnectionProofs, BlockStoreProofs, AuthSessionProofs, GroupProofs,
                                 # MM2Proofs, ChatSyncProofs and VoiceCallProofs

---

## 1. The system

Paths below are under `src/`; `server/` stands for
`ZChatServer/src/main/java/com/ztrust/zchat/im/zsp/server/`, `mm1/` and `mm2/` for `ZChatIM/src/mm1` and
`ZChatIM/src/mm2`, and `android/` for `Client/Android/app/src/main/java/com/kite/zchat/`.

How the parts talk to each other:

    Android screens, chat, call, friends
        |  method calls, one lock per session (ZspSessionManager)
    ZSP session ----- TCP: AUTH, requests, replies, forwarded frames ------+
                                                                           |
    gateway: one Netty event loop per channel  <---> registry, offline queues (shared by all loops)
        |  JNI, one mutex (JniBridge)
    MM1 (sessions, accounts, friends, groups, calls)  --- MM2 (messages in memory, block store)
                                                              |  file writes, SQLite statements
                                                          .zdb containers, SQLite tables

### Components

| Component | State | Operations | What is hard | What makes it correct | Status |
|---|---|---|---|---|---|
| Gateway relay (`server/ZspMessageDispatcher`, `ZspInboundHandler`, `ZspConnectionRegistry`, `ZspOfflineMessageQueue`) | user -> channel, per-user bounded deque, channel attributes | AUTH, LOGOUT, IM frames, close | handlers on several event loops interleave between lookup, enqueue, drain and write | a frame is in one place, goes only to its addressee, is lost only for a reason; the registry is current | modelled: `Gateway`, `Relay` |
| Connection (`android/zsp/ZspSessionManager`, `server/ZspOutboundFrameBuilder`, `zsp/replay/ZspPeerReplayState`, `server/ZspIdleEventHandler`) | socket, sequence numbers at both ends, call in progress | open session, request, forwarded frame, timeout, close | replies, pushes, timeouts and reconnections race | a reply reaches its request; numbering and window agree; a call returns | modelled: `Connection` |
| ZSP codec, tags, validation | none (keys) | encode, decode, check | parsing | refuses malformed frames | not modelled: stateless |
| Gateway process (Netty start, properties, metrics, JNI loading) | configuration, counters | start, stop | none at this level | - | not modelled |
| Native facade (`ZChatNativeOperations`, `JniNatives.cpp`, ...) | a handle | marshalling | - | - | not modelled |
| JniBridge | one mutex | every native call | serialises callers | a call is one step for its callers | partly: the mutex is why the modules of the core have one action per call |
| Authentication, sessions, bans (`mm1/managers/AuthSessionManager`) | session table, attempt windows per user and address, failure windows, bans | Auth, password login, recovery, verify, destroy, clear | windows pruned lazily, one user at several addresses, several users at one | limits of the calls that take a slot are never exceeded; bans follow the documented matrix | modelled: `AuthSession` |
| Block store (`mm2/storage/*`, `mm2/MM2.cpp`) | .zdb files, headers cached in memory, `data_blocks` rows | put, get, cancel, key blobs | no transaction spans file and SQLite; steps fail; the process is killed | rows never share a slot, a stored block stays intact, a read returns its own data | modelled: `BlockStore` |
| IM messages (`mm2/MM2.cpp`, edit, recall, reply managers) | in-memory lists, an index, reply relations, edit counts, read marks | store (also in batches), edit, recall, reply, list after an id, mark read, clear | three tables kept in step by hand, a batch that fails half-way, timestamps chosen by the client, restart empties it | lists and index agree; a reply and its target share a session; edits stay within the limit; paging gives everything once | modelled: `Messages`, `Chain` |
| File transfer bookkeeping (`mm2/MM2.cpp`) | `mm2_file_transfer`, resume index | complete, resume, cancel | a gap or an error is taken for the end of the file | a completed file has every chunk | not modelled: single statements over one row, and a hash over all chunks; the chunks are in `BlockStore` |
| Local accounts, user data (`LocalAccountCredentialManager`, `UserDataManager`, `AccountDeleteManager`, `FriendNoteManager`) | one table of blobs per user and type | register, change password, reset, delete, notes, user data | two blobs in two statements; a failed read that looks like an absent row | what a call acknowledged is stored; a refused registration leaves nothing | modelled: `Accounts` |
| Device sessions (`MM1_manager_stubs.cpp`, `mm2/MM2.cpp`) | SQLite table, at most two devices | register, kick the earliest, touch, expire | failures between the statements; one session id for several devices, or registered by two users | the limit holds; the table is what the calls and replies say; only the earliest is kicked | modelled: `Devices` |
| Friends (`FriendManager`) | one table of requests, accepted ones are the friendships | request, respond, delete, expire | both sides act at once, in both directions; a lookup that fails | a friendship is agreed by both, and ended for both | modelled: `Friends` |
| Groups (`GroupManager`, `GroupMuteManager`, `GroupNameManager`, `MentionPermissionManager`) | members, roles, names, mutes, key envelopes, @ALL windows | create, invite, remove, leave, rename, rotate the key, mute, clean up | statements without a transaction, roles and friendships that change between calls, expiry | members consented; a created group is whole; mutes belong to members; limits hold | modelled: `Groups` |
| Call signalling on the server (`RtcCallManager`, `RtcCallSessionManager`) | table of calls | start, accept, reject, end | entries are never removed | a call that ended never becomes accepted | not modelled: each call reads and writes one entry under one mutex, and the Android client does not use it |
| Session activity, user status | last activity, online flag | touch, expire | clock | - | not modelled: single statements over one row |
| MM1 security submodules, crypto | keys | encrypt, sign, wipe | - | - | not modelled: cryptography |
| Common utilities | none | - | - | - | not modelled |
| Android chat synchronisation (`android/chat/ChatSync`, `ChatMessageDb`, `PeerImSession`) | SQLite messages, cursors derived from them | head window, gap fill, tail catch-up, send, call log, delete history | several executors sync at once; pages, signalling between messages, own messages with ids, server restart | one row per message; no message of an answer is skipped; messages are delivered | modelled: `ChatSync`, `Chain` |
| Android conversations, contacts (`ConversationPlaceholderStore`, `ContactsCache`) | preferences | unread counters, mute, add and remove | counters are read and written without a lock | a count never exceeds what arrived | partly: the counters are in `ChatSync` |
| Android voice calls (`call/*`, `VoiceCallActivity`, `VoiceCallActionReceiver`) | coordinator, active session, signalling queue, notifications, activities and their sessions | offer, answer, bye, glare, hang up, decline | two dispatching threads, the main looper, an executor per session, WebRTC callbacks, a system that delivers intents late; the history replays old signals | the active session is the current one; no call leaves the microphone open | partly: `VoiceCall` |
| Android friends, push, profile, credentials | preferences | one-shot requests | - | - | not modelled |
| Android screens | - | - | - | - | not modelled: user interface |
| Windows client | - | - | - | - | a stub without behaviour |

The hazards of each component, at the line where they bite, are in `PROJECT.json` under `hazards`.

---

## 2. The plan

The modules, most important behaviour first.

| # | Module | Composes / abstract specification | Question |
|---|---|---|---|
| 1 | `Gateway` | implements `Relay` | Are frames routed once, to the right user, and none lost between event loops? |
| 2 | `Connection` | stands beside `Gateway`: one channel in detail | Do requests get their own replies under every timeout and reconnection? |
| 3 | `BlockStore` | abstract map from key to content, stated as `StoredReadable` and `ReadsOwnData` | Does the store survive failures and kills? |
| 4 | `AuthSession` | eager history (`checked`, `failed`, `owed`) against lazy windows | Do limits and bans hold in every order of calls? |
| 5 | `Messages`, `ChatSync` | both read a session with the operators of `Chain`; what a sync promises is stated as `AnswersIngested` (a step) and `Delivered` (in the end) | Are the tables kept in step? Does synchronisation reach every message? |
| 6 | `Friends`, `Groups` | `Groups` extends `Friends`: an invitation reads the friendships; the key of a group is a block of `BlockStore`, here whole | Who can be in a group, and what is left when a statement fails? |
| 7 | `Devices`, `Accounts` | `Accounts` extends `Devices`: one database, one count of faults | Is what was acknowledged stored, after any failure and kill? |
| 8 | `VoiceCall` | signals come as `ChatSync` hands them over, at any time | Do five threads agree on the current session, and does every session give up its media? |

Runs keep the smallest sets in which the interesting case occurs: two actors that race plus one that
observes, one more connection than reconnections, queues and windows of size one or two with one more item
than fits.

What is worth doing next: a composition of `Gateway` with `Connection` (pushes before the AUTH reply and of
types other than TEXT); file completion in `BlockStore`. Theorems worth proving next: abstract specifications
of the block store and of the tables of messages, and that the modules refine them step by step; that a relay
keeps each frame in one place, from `Relay` alone.

---

## 3. The modules

### Gateway and Relay

`Gateway` has one event loop per TCP channel. Netty may put several channels on one loop; that only removes
interleavings. A handler is cut at every access to state that another loop can change, so `forwardFrame` is
three steps:

| Action | Code | Shared state it touches |
|---|---|---|
| `Receive` | IM frame handlers up to `storeMessage` | `stored` |
| `Find` | `findChannel(to)`, `isActive()` | `registry`, `conn` of the target |
| `Enqueue` | `ZspOfflineMessageQueue.enqueue`, with the loop that evicts | `queue` |
| `Forward` | `forwardFrame` on the channel found | `tasks` of the target, or its socket |
| `Auth` | AUTH and LOCAL_PASSWORD_AUTH that succeed, up to `registry.register` | `registry` |
| `DrainTake`, `DrainWrite`, `DrainDone` | `drainTo` | `queue` (one atomic remove), then the own socket |
| `RunTask` | a write another loop submitted | own socket |
| `Logout` | LOGOUT, and the listener of the ACCOUNT_DELETE reply | `registry` |
| `Close`, `ChannelInactive` | `ctx.close()` for any reason, `channelInactive` | `conn`, `registry` |

`pc[c]` says where the loop of channel `c` is inside a handler; `hand`, `target` and `batch` are that
handler's local variables. A channel is `closing` between `close()` and `channelInactive`: `isActive()` is
false, yet frames already decoded are still dispatched. Frames refused before they change anything (codec,
tag, validation, replay window, no caller session) appear as `Close`. `authed`, `lastAuth` and
`deadAt` (the channels that were gone when a frame was accepted) are history.

`Relay` is what the gateway promises: a frame accepted is carried, waits in the bounded FIFO mailbox of its
addressee, is delivered or dropped; it is delivered once; it is not carried forever. The refinement maps
`carried` to whatever is in a hand, a batch or a task queue, and `dropped` to the lost and evicted frames.
`SafeSpec` is the promise without its last clause, that a carried frame settles.

### Connection

Both ends of one client session over several TCP connections. The client (`sock`, `call`, `nextSeq`) holds a
lock for a whole request, so it has one call at a time: `Establish`, `Request`, `Read`, `Timeout`, `Break`,
`CloseSession`. The gateway's half of each connection: `Dispatch` (replay window, then the handler up to the
read of the outbound counter), `WriteReply`, `ForwardGet` / `ForwardSet` (another loop numbers a forwarded
frame with a get and a set that are not one step), `RunTask`, `Close`, `ChannelInactive`, `IdleEvent`. TCP
keeps order within a connection and may break at any time. A frame is its number and the request it answers
or the push it carries; a reply and a push are told apart the way the code does, by type and by length.

### BlockStore

Disk (`state`, `used`, `cell`, `row`) and process (`mem`, `broken`, `stage` and the locals of the call in
progress) are separate, so that `Kill` loses exactly the second. A put is `StartPut`, `ZeroOld`, `Append` or
`CreateZdb`/`FinishCreate`, `Header`, `BlockRow`, and on failure `RevertZero`, `RevertRow`; a cancel is
`StartCancel` and a loop of `EraseNext`, `EraseZero`, `EraseRow`. Every step can fail: the call returns false
where the code does, and a failed write leaves the stream's failbit set (`broken`) for the rest of the
process. `may` and `must` record what callers were promised.

### AuthSession

One action per native call, because JniBridge holds its mutex for the whole call. The state is the code's:
the session table, the deques of attempts per user and per address, the failure deque and the end of the ban
per principal (a user at an address). The deques are pruned where and when the code prunes them. The history
(`checked`, `failed`, `owed`) is kept eagerly, tick by tick, and is what the properties compare with.
`ChangeLocalPassword` checks the old password, right or wrong, without an attempt slot, so it leaves all of this
alone. `RegisterLocalUser` and what these calls store are in `Accounts`.

### Chain and Messages

`Chain` has the list of a session and the two ways the server reads it, the last n and those after an id.
`Tables` only declares what `Messages` and `Devices` share: the users, the clock and the value of an absent row.
`Messages` has what MM2 keeps of every session: `ram` is the lists, the index from message to session and the
reply relations, which the code updates one after the other and by hand. One action per native call, again
because of the mutex; a call refused (unknown message, other sender) changes nothing and is no action.
`StoreMessages` stores a batch or fails after the first k and deletes them again. `EditMessage` takes its
timestamp from the client, any in `Times`, as the code does. `ChangeMembers` stands for the group operations.
`firstAt` is history.

### ChatSync

One conversation on one client. `syncPeer` is called on several single-thread executors; each is a worker
whose `job` is its stack: the phase (head window, gap filling, tail), the round, the cursor and the rows of the
page that are left. A worker is cut where another one, the user or the server can come in between:

| Action | Code |
|---|---|
| `StartSync` | `syncPeer`, with `mergeServerHeadWindow` or without |
| `Ask` | the cursor is read from the database and sent |
| `Answered` | `cleartextSync` and `packSessionRows` on the server; the page is parsed, `ChatActivePeer` is read |
| `IngestRow` | one row: signalling is passed over, `insertIfAbsent`; `incrementUnread` reads the count |
| `Count` | `incrementUnread` writes the count |
| `SyncFailed` | no answer: the sync returns false |
| `Send`, `Sent`, `SendFailed` | `ChatActivity.trySend` around the reply of the server |
| `CallLog` | `ChatCallLogHelper.insertLocal`, a row with a random id |
| `OpenChat`, `CloseChat`, `SetPeerMuted`, `ClearHistory`, `RemoveSession`, `AddSession`, `Kill` | what the user does |
| `Receive`, `RecallMessage`, `ServerRestart` | the server's list changes |

`PageDone`, `NextPhase` and `Settle` are the loop conditions of `runGapFillForward` and `runTailCatchUp`. `Senders`,
`Pollers` and `Mergers` say which executor may do what: only the poll of the main screen never merges the head
window, and only the chat screen sends. `arrived` and the field `owed` are history.

### Friends and Groups

`Friends` is the table of friend requests; a friendship is an accepted row between two users, in either
direction, which is how the code reads it. `Groups` extends it with the tables of the groups. One action per
native call. A call of several statements has three more outcomes: a statement fails and what the code does
about it succeeds (`CreateGroupFails`, `UpdateGroupKeyFails`), that fails too, or the process is killed
between two (`...Breaks`); `MaxFaults` bounds them. `DeleteGroupMember` is the pair of statements that both
`RemoveMember` and `LeaveGroup` run. `CleanupExpiredData` takes a time, as mutes and requests expire by the
clock of the server. `RecordMentionAtAllUsage` takes the time of the caller, not earlier than the caller's
last one. A clock set back would drop no use, because `PruneAtAllWindow` tests `nowMs >= t0` before it takes the
unsigned difference: uses of the future stay and count; a clock that was ahead drops uses early. Both are left
out. A mute lasts seconds and its times are milliseconds: `Over` (the SQL) and `IsMuted` (C++) convert each for
itself, with `Second` milliseconds.

| Action | Code |
|---|---|
| `SendFriendRequest`, `RespondFriendRequest`, `DeleteFriend` | `FriendManager`; the lookup of a pending request may fail, which the code takes for "none" |
| `DeleteExpiredRequests` | `MM2::CleanupExpiredFriendRequests` |
| `CreateGroup`, `CreateGroupFails`, `CreateGroupBreaks` | `MM2::CreateGroupSeedForMm1`: member, name, key |
| `InviteMember`, `RemoveMember`, `LeaveGroup`, `UpdateGroupName` | `GroupManager`, `GroupNameManager` |
| `UpdateGroupKey`, `UpdateGroupKeyFails` | `PutDataBlockBlobUnlocked`, which zeroes the old block first |
| `MuteMember`, `UnmuteMember`, `IsMuted`, `DeleteExpiredMutes` | `GroupMuteManager` and the cleanup in SQL |
| `RecordMentionAtAllUsage` | `MentionPermissionManager` |

`befriended`, `ended`, `known`, `creator`, `torn` and `uses` are history. Signatures and the user of the
session are checked before, so only requests that pass appear; a call refused changes nothing and is no
action. `EmergencyWipe` leads back to `Init`.

### Devices and Accounts

`Devices` has the rows of `mm1_device_sessions`. `RegisterDevice` is the loop of `Mm1RegisterDeviceSession`: the
rows of the same token go, then, while the user has no room, the earliest login, then the new row is written;
`RegisterDeviceBreaks` stops between any two statements. A token is a session id, any that the caller names:
the code checks who calls, not whose session it is, and a registration deletes the row of whichever user has
the token. `told` is what somebody who sees the calls of all users and their replies believes; `torn` the
tokens of registrations that failed. `Locals` are the users of whom `Accounts` follows the credentials, so that
a second user can take part in the device table alone.

`Accounts` has the table `mm1_user_kv`: password, recovery secret, the bundle of friend notes, other data.
`RegisterLocalUser` writes two blobs, `RegisterLocalUserFails` reverts the first, `RegisterLocalUserBreaks`
does not get to it. A read that fails returns an empty vector, which callers take for an absent row:
registration over an existing account (`Taken`) and `UpdateFriendNoteMisread` contain that. `acked` is what the
last acknowledged call left in each row, `damaged` the rows a misread or a broken registration has changed.

### VoiceCall

One phone. `Arrive` is where a signal reaches `VoiceCallEngine.dispatchSignaling`, on the thread that reads
pushes or on that of a sync; `ChatSync` drops an offer of the past when it finds the phone idle and hands it
over otherwise. `dispatchSignaling` then looks at the active session and at the phase several times, each time
under a lock of its own. `dispatch[t]` says at which look thread `t` is: `LooksAtSession`, `LooksAtPhase`,
`MarkIncomingRinging`, `Enqueue`, `PostSignal` are its steps, so both threads can find the phone idle, and a
decision may be old when it is carried out. `main` is the queue of the main looper, `tasks` of a session the
queue of its executor, `creating` the descriptions WebRTC is making. Signals of any kind come from any peer at
any time, because the chat's history replays old ones and the phone's own.

| Action | Code |
|---|---|
| `StartCaller`, `Created`, `SetLocal`, `StartCallee`, `SetAnswer`, `RemoteOffer`, `RemoteAnswer`, `RemoteRefusal`, `Refused`, `EndLocal` | `WebRtcAudioCallSession`: tasks of its executor; `Created` is `onCreateSuccess`, which gives the executor another task, or `onCreateFailure` |
| `Connects`, `Disconnects` | `onIceConnectionChange`: connected, failed |
| `RemotePosted`, `ShowIncoming`, `Glare`, `Notice`, `Connected` | what was posted to the main looper |
| `IncomingIntent`, `OutgoingIntent` | `onCreate`, or `onNewIntent` of the activity that is on top (singleTop); a resume intent that finds no activity starts an outgoing call |
| `Destroy` | `onDestroy`, some time after `finish` |
| `AskToCall`, `ConfirmCall`, `OpenNotification`, `OpenOngoing`, `Answer`, `Reject`, `Decline`, `HangUp`, `HangUpOngoing` | the user, in the app and by the notifications of an incoming call and of the call in progress |
| `Crash` | a task given to an executor that was shut down, by a posted signal, a resubmitted task or a WebRTC callback: an exception nobody catches |

What the phone sends, ICE candidates, the content of an offer, the records of calls in the chat, the microphone
permission, sound, and the system destroying an activity that did not finish are left out. The callbacks of
`setLocalDescription` and `setRemoteDescription` are folded into the task that sets the description.

---

## 4. The runs

| Run | Instance | Shows |
|---|---|---|
| `gateway` | 3 channels (symmetric), alice -> bob twice and bob -> bob, queue of 2, 3 logins; 1.9M states | `WellFormed`, `Addressed`, `OnePlace`, `LatestConnection`, `DeadReceiveNothing`, `LossHasCause` |
| `gateway_relay` | 2 channels, 2 frames, queue of 1; 66k states | `ImplementsRelay`: refinement with its liveness |
| `online_is_registered` | 3 channels, 2 frames, queue of 1 | finding: a late `channelInactive` unregisters the newer connection |
| `connection` | 2 connections, 1 TEXT and 2 other requests, 1 push, 1 foreign loop, window of 3; 785k states | `WellFormed`, `ClientFramesAccepted`, `ReplyIsMine` (with what the listener hears), `CallReturns` |
| `block_store` | a file of 2 chunks, 2 contents, 2 containers of 2 slots; 602k states | `TypeOK`, `RowsDisjoint`, `StoredReadable`, `ReadsOwnData` |
| `auth_session` | 2 users at one address, one also without address, 3 session ids, 3 ticks; 636k states | `WellFormed`, `AttemptsLimited`, `BansFollowMatrix`, `BanStands` |
| `messages` | 2 users (symmetric), 2 sessions of which one may be a group, 2 messages, batches of 2, 3 edits, 4 seconds; 370k states | `TablesAgree` (types and `IndexMatches`), `RepliesSound`, `EditSpan`, `PagesCover` |
| `chat_sync` | 2 executors, 2 messages, window of 2, page of 1, 2 rounds, 1 upset; 155k states | `WellFormed` (with `OneRowEach`), `UnreadArrived`, `AnswersIngested`, `Delivered` |
| `gap_filled` | 1 executor, 4 messages, window and page of 1, 2 rounds, no upset | finding: a gap behind the first page is never filled |
| `directory` | 3 users (symmetric), 1 group, 2 requests at a time, 2 times (cleanups 4), mutes of one second of 2 units, 1 fault; 195k states | `WellFormed`, `EndedStaysEnded`, `MutesOfMembers`, `MembersConsented`, `CreationIsWhole`, `AtAllLimited`, `CleanupSparesMutes` |
| `accounts` | 2 users, one of them with credentials and notes, 3 tokens (symmetric), 2 places each, 2 secrets, 2 friends with notes, 2 times, 1 fault; 170k states | `WellFormed`, `StoredAsAcknowledged`, `DevicesAsReported`, `EarliestKicked` |
| `voice_call` | 2 peers of which one yields, 3 signals or intents on 2 threads; 936k states | `WellFormed` (with `ActiveIsCurrent`), `MediaReleased` |

**Bounds and why they are enough.** In `gateway` three channels allow the case the code gets wrong most
easily, an old and a new connection of one user while a third channel sends, and three logins allow a channel
to authenticate twice. One frame more than the queue holds makes eviction happen; bob -> bob exercises the
forward to the own channel. `gateway_relay` has one channel less because the liveness check is costlier; the
sender may be the recipient's older connection. In `connection` two connections allow every race of an old
connection with the session that replaced it; three requests (a TEXT and two others) make the counter pass the
AUTH frame and let one late reply meet a later request; `HalfWindow` is 3 where the code has 500, still wider
than the three frames that can follow AUTH, and narrow enough that a counter that is not reset falls outside.
In `block_store` two containers of two slots are one more than the file needs, so slots are reused after
reverts and the store also runs out of room. In `auth_session` the limits are 2 (attempts, sessions, first
ban) and the longest ban starts at 3, so that every row of the matrix (no ban, a stepped ban, the longest
ban) occurs, and `MaxTime` 2 lets an attempt window, a failure window, a ban and a session expire. Minute is 0
ticks: an attempt counts in the tick it is made. In
`messages` two messages in two sessions are what a reply across sessions, an erased target and a batch rolled
back need; `EditWindow` 1 in four seconds lets three edits spread further than the window or go back in time.
In `chat_sync` the page is one row, so that two messages make both loops take a second round, and two rounds
are all they may take. One executor polls and sends, the other merges the head window, which gives every kind
of race between two syncs and between a sync and a send. `MaxUpsets` counts failures, server restarts,
recalls, call-log rows, deletions, mute changes, openings of the chat and kills: one of them, anywhere.
`gap_filled` needs an own message, one the tail has passed, and one more than fits page and window. In `directory`
three users are an owner, a member and a third who is invited, asks or is muted; expiry is 0, so that a
request, a mute or a window runs out with the one step of the clock, and one fault can be any statement or
compensation of any call. A second has two units, so that a mute compared without the conversion is over too
early, and cleanups come up to one unit after a mute of one second has ended. In `accounts` three tokens are
one more than there are places, which makes a kick, and a second user lets a token be taken over; that user
has no credentials, since no statement on the blobs of one user reads those of another. In `voice_call` each
signal that arrives and each intent the system delivers counts: three are an offer, the intent of the activity
that rings and one signal that meets the call, or an outgoing call and two signals, among them
two offers whose threads both find the phone idle once the call has ended. The branch of `HangUpOngoing` for a ringing activity under the notification of another
call needs more than three.
`MaxAuths`, `MaxTime`, `MaxMsgs`, `MaxBatch`, `MaxUpsets`, `MaxRequests`, `MaxFaults`, `MaxMentioners`,
`MaxCleanupTime`, `MaxWork` and the finite sets are the only bounds of the models;
all else is the code's own limit.

**Deadlock** is checked in `messages`, `chat_sync` and `gap_filled`, where a restart or a sync is always possible.
It is not in the others: frames, connections, names and time are used up, so the bounded behaviours stop.

**Fairness.** `Gateway`: weak fairness of the steps of a started handler and of `ChannelInactive`, since an
event loop never blocks in this code. No client, login, close or network event is fair. `Connection`: weak
fairness of `Read` (the thread in `request` runs) and `Timeout` (`SO_TIMEOUT` is set on the socket). Nothing
is assumed of the gateway or the network; that is the point of `CallReturns`. `ChatSync`: weak fairness of the
steps of each worker (an executor runs what it was given, and the server answers unless the request fails,
which an upset pays for), and strong fairness of a sync that merges the head window, because polls may come in
between but the user opens the chat or pulls to refresh, or a frame arrives, again and again. No send, message
or deletion is fair. `Delivered` holds because the two messages fit the head window; `gap_filled` shows that the
other two phases alone do not make up for it.

**Mutants.** Every property of a passing run has a mutated definition (an operator beside the original, such
as `QueueFullLate` or `CloseKeepsSeq`) under which TLC finds it violated.

### Findings

1. `ZspConnectionRegistry.unregister` removes the entry of a user whatever channel it holds, so the close of
   a replaced connection takes the current one out of the table. Frames for that user then wait in the offline
   queue until the next login. `LatestConnection` shows the other direction: an entry never names a connection
   that a later login of the same user has replaced.
2. `runGapFillForward` asks for the page after the oldest local row in every round. Inserting later messages does
   not move that row, so the second round gets the first page again and stops. A message that an own send has
   pushed behind the tail cursor, further from the oldest row than a page and outside the head window, is
   never fetched.

Seen while modelling, and not a run:

* Gateway: a channel that authenticates as one user and then as another keeps the first user registered
  (`handleAuth` and `handleLocalPasswordAuth` overwrite the channel's user), and `channelInactive` removes the
  entry of the last user only: the first user's entry names a dead channel until that user logs in again.
  `DeadReceiveNothing` shows that no frame is lost by such an entry: `isActive` is false and the frame is queued.
  While the channel lives it takes the frames of both users. Lookup and enqueue are two steps, so a frame may be queued for a user who has just logged in and
  drained; `OUTBOUND_SEQUENCE` is read and written in two steps by several loops, so frames may have equal or
  decreasing numbers, which the present client does not check; `offline-queue-max-per-user <= 0` makes `enqueue`
  loop forever (excluded by `QueueMaxAssumption`); the nonce cache of the replay state is cleared as a whole
  when full.
* Connection: `request` returns the first frame of the request's type, so a TEXT forwarded during
  `sendTextMessage` is taken for its reply: the message is not shown and the send is reported as failed although
  it was stored (`ZspSessionManager.java:169` against the comment at line 151; `ReplyIsMine` holds for every
  other request). `IdleStateHandler(0, 0, n)` arms the all-idle timer and `ZspIdleEventHandler` closes on
  READER_IDLE, so idle connections stay, where `docs/01-Architecture/03-ZSP-Gateway-Client-Contract.md:166` says
  they are closed. A push of a type other than TEXT read during a request makes the client close the session; a
  push before the AUTH reply makes `establishSession` fail.
* Block store: `StoreFileChunk` zeroes the stored block before the new one is written (`MM2.cpp:1111`), so a
  second store that fails loses a chunk that was stored (`docs/04-Features/08-FileTransfer.md:70` says stored chunks
  stay over a restart). `CompleteFile` takes the first chunk it cannot read for the end of the file.
* Sessions: `ChangeLocalPassword` checks the password of the session's user and takes no attempt slot, where
  `docs/03-Business/02-Auth.md:120` says that `LocalAccountCredentialManager` agrees with the limiting and the
  bans; `AttemptsLimited` is about the calls that take a slot.
* Accounts: `docs/03-Business/06-AccountDelete.md` says that a deleted user can never log in, but
  `AuthWithLocalPassword` does not look at the mark (the password stays and goes on working). A failed read of
  the password blob lets a registration overwrite an account; a failed read of the notes bundle lets
  the next note erase all others; a registration killed between its two blobs leaves an account that can
  neither be recovered nor registered again.
* Devices: one device that logs in twice takes both places; when a user registers a session id that another
  has registered, the other's row goes and no reply tells its owner; the session that is kicked stays valid in
  `AuthSessionManager`; `docs/04-Features/06-MultiDevice.md:75` says the list is lost on restart, the code stores it.
* Groups: `docs/03-Business/03-Group.md` describes, as the product it aims at, an invited user who agrees, a
  transfer of the ownership and a key per member; the code adds a friend at once, has no transfer, and never
  assigns the role of an administrator. A group whose owner leaves has no administrator any more; a failing key rotation leaves the group
  without a readable key (`torn`); the table of server-side calls never loses an entry.
* Voice calls: `VoiceCallCoordinator` says that a phone that is not idle refuses other calls. That does not
  hold: the dialog asks about the phase, its button does not, so a call that came in meanwhile is joined by an
  outgoing one; declining a notification, hanging up by the notification of a call whose activity is gone, or the
  late `onDestroy` of an old activity, clears the coordinator whichever call it is at; two threads can both find
  the phone idle. Opening the notification or the bubble of a call that has just ended starts an outgoing call,
  and with another call on screen it changes the peer that activity names, not its session. An old bye or answer
  that a sync hands over again ends or fails a current call with the same peer. A signal or a WebRTC callback
  for a session that is shut down meanwhile kills the process. A `connected` notice after `onDestroy` leaves the
  phase at connected, and the notification of the call up, until something clears them. When the system refuses
  to start the activity and the notification is swiped away, the phone stays ringing. A call with glare has two
  sessions, each of which may write a record of its end into the chat.
* Sessions and store: expired sessions leave the table only when somebody verifies them and count towards the
  limit until then; a `.zdb` left partial by a kill makes the next `Initialize` refuse the directory.
* Messages: the first edit of a message has no time limit and each further one counts from the last, where
  `docs/04-Features/09-MessageEdit.md` says five minutes after sending.
* Chat synchronisation: a call-log row has a random id, so as the newest row it is a cursor the server does not
  know, and the tail gets nothing until a head-window sync inserts a later row; a full page of signalling inserts
  nothing and ends the loops; `incrementUnread` is not atomic and the chat is looked at once per page, so a count
  may be lost or stay for messages read in the open chat; `docs/04-Features/14-Android-Client-ZChat.md` says the
  first window holds the first N messages of the session, the server sends the last N.

---

## 5. The proofs

The theorems hold for any sets of users, channels, frames, connections, requests, files, contents, addresses,
groups, tokens, workers and peers, any limits and any number of logins, requests, faults and kills.

| Theorem | Statement |
|---|---|
| `GatewayProofs!Inductive` | `Spec => []IInv` |
| `GatewayProofs!AddressedHolds` | `Spec => []Addressed` |
| `GatewayProofs!WellFormedHolds` | `Spec => []WellFormed` |
| `GatewayProofs!LatestConnectionHolds` | `Spec => []LatestConnection` |
| `GatewayProofs!DeadReceiveNothingHolds` | `Spec => []DeadReceiveNothing` |
| `GatewayProofs!PlacesInductive` | `Spec => []PInv` |
| `GatewayProofs!OnePlaceHolds` | `Spec => []OnePlace` |
| `GatewayProofs!LossHasCauseHolds` | `Spec => []LossHasCause` |
| `GatewayProofs!RelaysSafely` | `Spec => R!SafeSpec` |
| `ConnectionProofs!Inductive` | `Spec => []IInv` |
| `ConnectionProofs!WellFormedHolds` | `Spec => []WellFormed` |
| `ConnectionProofs!ClientFramesAcceptedHolds` | `Spec => []ClientFramesAccepted` |
| `ConnectionProofs!ReplyIsMineHolds` | `Spec => []ReplyIsMine` |
| `BlockStoreProofs!Inductive` | `Spec => []IInv` |
| `BlockStoreProofs!TypeOKHolds` | `Spec => []TypeOK` |
| `BlockStoreProofs!RowsDisjointHolds` | `Spec => []RowsDisjoint` |
| `BlockStoreProofs!StoredReadableHolds` | `Spec => []StoredReadable` |
| `BlockStoreProofs!ReadsOwnDataHolds` | `Spec => []ReadsOwnData` |
| `AuthSessionProofs!Inductive` | `Spec => []IInv` |
| `AuthSessionProofs!WellFormedHolds` | `Spec => []WellFormed` |
| `AuthSessionProofs!AttemptsLimitedHolds` | `Spec => []AttemptsLimited` |
| `AuthSessionProofs!BansFollowMatrixHolds` | `Spec => []BansFollowMatrix` |
| `AuthSessionProofs!BanStandsHolds` | `Spec => BanStands` |
| `GroupProofs!Inductive` | `Spec => [](FriendInv /\ GroupInv)` |
| `GroupProofs!MutesOfMembersHolds` | `Spec => []MutesOfMembers` |
| `GroupProofs!MembersConsentedHolds` | `Spec => []MembersConsented` |
| `GroupProofs!CreationIsWholeHolds` | `Spec => []CreationIsWhole` |
| `GroupProofs!EndedStaysEndedHolds` | `Spec => []EndedStaysEnded` |
| `GroupProofs!AtAllLimitedHolds` | `Spec => []AtAllLimited` |
| `GroupProofs!WellFormedHolds` | `Spec => []WellFormed` |
| `GroupProofs!CleanupSparesMutesHolds` | `Spec => CleanupSparesMutes` |
| `MM2Proofs!Inductive` | `Spec => [](DeviceInv /\ AccountInv)` |
| `MM2Proofs!WellFormedHolds` | `Spec => []WellFormed` |
| `MM2Proofs!StoredAsAcknowledgedHolds` | `Spec => []StoredAsAcknowledged` |
| `MM2Proofs!DevicesAsReportedHolds` | `Spec => []DevicesAsReported` |
| `MM2Proofs!EarliestKickedHolds` | `Spec => EarliestKicked` |
| `MM2Proofs!MessagesInductive` | `MessagesSpec => []MessageInv` |
| `MM2Proofs!TablesAgreeHolds` | `MessagesSpec => []TablesAgree` |
| `MM2Proofs!RepliesSoundHolds` | `MessagesSpec => []RepliesSound` |
| `MM2Proofs!EditSpanHolds` | `MessagesSpec => []EditSpan` |
| `MM2Proofs!PagesCoverHolds` | `MessagesSpec => []PagesCover` |
| `ChatSyncProofs!Inductive` | `Spec => []IInv` |
| `ChatSyncProofs!WellFormedHolds` | `Spec => []WellFormed` |
| `ChatSyncProofs!AnswersIngestedHolds` | `Spec => AnswersIngested` |
| `ChatSyncProofs!CountsInductive` | `Spec => []CountInv` |
| `ChatSyncProofs!UnreadArrivedHolds` | `Spec => []UnreadArrived` |
| `VoiceCallProofs!CallsInductive` | `Spec => []CInv` |
| `VoiceCallProofs!WellFormedHolds` | `Spec => []WellFormed` |
| `VoiceCallProofs!MediaReleasedHolds` | `Spec => []MediaReleased` |

**Gateway.** The assumptions are those `Gateway` states and TLC evaluates: `RoutingAssumption` (sender and addressee are
users), `QueueMaxAssumption` (positive limit), `MaxAuthsAssumption`, `NoneAssumption`.

`Addressed` is not inductive by itself: it speaks of what lies in queues, tasks and sockets, but a frame gets
there from a handler that looked up its target some steps earlier. The invariant must also say what that
handler still knows, although other loops have moved on:

    IInv == TypeOK /\ Handlers /\ Routes /\ QueueMail /\ BatchMail /\ TaskMail /\ WireMail

`Handlers` says which locals are set at which `pc`: a handler in `find`, `enqueue` or `forward` holds a frame,
one in `forward` also a channel that has authenticated as the addressee, one that drains has a user. `Routes`
says that the channel an entry of the registry names has authenticated as that user; it carries `Find` to
`Forward`. The four `...Mail` conjuncts are `Addressed` split by container. There is one lemma per action, with
one step per conjunct the action disturbs, and lemmas about `Append` and `Tail` for what all of them do to
sequences. `AddressedHolds` follows from `IInv`. The queue limit of `WellFormed` and
`LatestConnection` are each inductive relative to `IInv`: their proofs add the property to it and consider
only the actions that touch the queues or the registry (`RegistryStep` disposes of the rest).

`OnePlace` counts occurrences, which no step-by-step argument wants to do. `PInv` says the same without
numbers: `Located`, a stored frame is in exactly one spot (a hand, a member of a family of sequences, a record)
and a frame not stored is in none; `NoRepeats`, no sequence holds a frame twice; `EmptyHanded`, a handler that
is not relaying has no frame in hand and one that is not draining has no deque, so that nothing is
overwritten. A step either leaves a frame's spots alone, or empties the one it was in and fills one other. That the counts then
add up to one is proved once, for a fixed state. `LossHasCause` adds that only an accepted channel ever
authenticates (`Used`) and that `stored` is finite; when a full queue of a user evicts its oldest frame, its
`QueueMax` later places are taken by as many other frames for that user, which is where `NoRepeats` is needed
again. `DeadReceiveNothing` needs `Aimed` (what `deadAt` names is closed for good, a busy loop is not closed, a
handler that forwards aims at a channel that was there when its frame was accepted, since `Find` saw it alive)
and `Lively`, the same of what lies in batches, task queues and sockets. No entry of the registry takes part in
it, which is why a stale one does no harm. `RelaysSafely` is the refinement: `Receive` accepts, `DrainTake` collects, `Enqueue` parks, a write
delivers or drops, and all other steps are invisible to the relay; `Located` makes each carried frame leave
`carried` when it moves.

**Connection.** Two conjuncts carry the invariant. `Numbered`: the next number of the client is the one after the
last the window of its connection has processed or will process, so a frame is never behind it.
`OneAnswer`: a connection in use owes at most one reply that is not to a TEXT, the reply to the call in
progress; a timeout or a forwarded frame of the wrong kind closes the connection, and `Fresh` says that a new
one has nothing on the way. `PushMail` says that what the gateway pushes is never a reply. A reply that arrives
late then finds its connection gone, which is `ReplyIsMine`. The assumptions are `WindowAssumption` and
`FramesDistinct`.

**Block store.** `HeadersInStep`: the header in memory runs ahead of the one on disk only in a container whose stream
has failed, so that nobody appends to it any more. `Calls` says what each stage of a call holds, and that while
a put or an erasure runs nothing is promised about its key; `SlotTaken` that no row points to the slot a put
has taken, and that it is below the recorded end once the header is written. With that, `RowsDisjoint` is inductive: a row is inserted for a slot no
other row has; and `StoredReadable` and `ReadsOwnData` are disturbed only by the stages that write. A kill
leaves disk and rows as they are and only forgets the call. The assumptions are `CapAssumption`,
`KeyAssumption`, `NamesDistinct` and `NoRow`.

**Sessions and bans.** The code prunes a window when somebody looks at it; the history in the model is pruned at
once. `ChecksAgree` and `FailuresAgree` say that pruning a window now gives the history as it is now, whoever has
pruned it before: `PrunedTwice` (pruning at two times is pruning at the later one) and `PrunedAppend` (what
has just happened is kept) carry them through the calls and through time. Both rest on the order of a window,
whose front is what the code drops; the first index to keep is the least one, which exists by
well-foundedness. `InLimits` then gives `AttemptsLimited`, and the number of failures the matrix is entered
with is that of the history, which gives `BansFollowMatrix`. The assumptions are `LimitsAssumption`, `NamesDistinct`
and `PrincipalsAssumption`.

**Groups.** The invariant has a part for the table of requests and one for the tables of the groups.
`FriendInv` ties every accepted row to the history: the pair has consented and is not ended. That is what
`DeleteFriend` must keep by deleting both directions, and `FriendsOf` then gives an invitation only users who
consented. Of `GroupInv`, `Fresh` is needed because a creation must find no rows of an earlier attempt at the
same id, `CreatorAdministers` because an invitation is by an administrator and `MembersConsented` speaks of the
creator. `MutesOfMembers` and `CreationIsWhole` are inductive beside them: one lemma per call, with its failing
outcomes. `AtAllLimited` compares the window, pruned when somebody looks, with the uses that really were:
`Kept` says that the window still ends with the last uses as far as these lie within one window of time, so a
use is refused while `MaxAtAll` close ones are remembered; the front the code drops is found by
well-foundedness. `WellFormed` needs `RowsInv`, that ids of requests are never given twice, to see that an
answer to one request leaves the others, and `AskedOnce` as long as no lookup has failed.
`CleanupSparesMutes` compares the condition in the SQL with the one in `IsMuted`. The assumptions are
`FriendsAssumption` and `GroupsAssumption`.

**Accounts.** `DeviceInv` adds to `DevicesOK` and `DevicesAsReported` that the rows are finite, so that the counts
mean something. The central lemma is `RoomIsMade`: with no more rows than places the loop of
`Mm1RegisterDeviceSession` runs at most once, so the one kicked session that the reply can name is the only one
that goes; `OneMore` and `FewerRows` do the cardinalities. `AccountInv` adds that notes parse, without which
an update of a note would refuse, and stands beside `DeviceInv`: a step of one leaves the variables of the
other alone but for the count of faults (`CountedFaults`). `EarliestKicked` is about a pair of rows, one that
goes and one that stays, and follows from the choice of the loop and `RoomIsMade`.

**Messages.** `TablesOK` is about the tables as a value, `ram` before or after any part of a call, so that lemmas
about one insertion (`InsertedOK`) and one erasure (`ErasedOK`) carry through the batch and its rollback: the
intermediate tables of `InsertedBatch` and `RolledBack` are the values of a recursive function, and that each
is sound follows by the well-foundedness of the naturals (`UpTo`). Lists are sorted by id and every id is at most
`stored`, ids are not handed out again: otherwise a reply whose target was recalled could come to name
another message. The row found by `RowOf` is the only one with its id, since sorted ids differ. `EditSpan` is a
conjunct of the invariant for rows: an edit adds at most `EditWindow`, and one with a timestamp before that of
the last is refused. For `PagesCover`, a page after the id of the last row read is the next
stretch of the list, so each round reads a row more at least, or there is none left; `PagesAll` shows it for
any list of rows with increasing ids and any page size. The assumptions are `LimitsAssumption`,
`NoneAssumption` and `GroupsAssumption`.

**Chat synchronisation.** A job of a worker owes the chat messages of the answers it has taken. `Jobs` says that at
every stage what is owed is in the table or in the rest of the page the worker still has before it, and that
nothing is owed when it asks again or waits. Other workers only add rows, and the deletions are exactly the
steps `AnswersIngested` excepts; `OneRowEach` is what an insertion that ignores known ids keeps. `UnreadArrived`
holds although the count is read and written without a lock: `CountInv` says that the count a worker has read
leaves room for the rows of all workers that are about to write one, so a late write is too low, never too
high. The assumptions are `LimitsAssumption` and `WorkersAssumption`.

**Voice call.** Sessions are set and taken from their activities by steps of the main looper, while they end on
their executors and two more threads hold on to what they have seen of them. `CInv` has what binds them: a task
of the main looper, or a signal a thread is about to post, is about a session there is; an activity and its
session name each other unless the session gave way, and a destroyed or ringing activity has none; the active
session is the one its activity has and, once ended, its activity finishes or a notice is under way
(`ActiveLinked`). `SessionLinked` says `acts[act].session = s` or `ToDispose`: whatever takes a session from its
activity (glare, `onDestroy`) gives it a disposal in that step, a shut executor still runs what it was given,
and no task but the one that ends the session drops others. With `ActLinked` that is `MediaReleased`. Glare is
where it could fail: a replacement for an activity that has gone would get no `onDestroy`, so `MayReplace`
matters. The lemmas say what a step may do with one of the lists (`ListPut`, `ListAdd`, `ListRest` and those on
sessions, activities and the main looper), and each action is shown to be one such step on each list. The
assumption is `VoiceCallAssumption`.

**Only model-checked**: liveness, which is out of the prover's reach with everything that needs fairness or
ENABLED: `CallReturns`, `Delivered`, and of `ImplementsRelay` that a carried frame settles; and the two
properties that are violated, `OnlineIsRegistered` and `GapFilled`. No module the proofs use has a RECURSIVE
operator. `PagesCover` is stated for pages of one and two rows, which TLC evaluates; its proof is for any size.

---

## 6. What is not modelled

* Within the modelled components: requests without a reply and pushes of types other than TEXT
  (`Connection`); nonces and timestamps of the replay window, taken as fresh and within the window;
  `offline-queue-enabled=false`; power loss (what a kill leaves written stays written) and blocks of different
  sizes (`BlockStore`); a clock that is set back (`AuthSession`, and of the users of @ALL in `Groups`); the cipher and
  listing by time (`Messages`); previews, timestamps of rows and several conversations (`ChatSync`); the
  validation of a mention and the listings, which are reads, and the unused block that a failing revert of a
  key rotation may leave (`Groups`); the check of passwords and signatures (`Friends`, `Groups`, `Accounts`); ICE
  candidates, sound, permissions, records of calls and the sending of signals (`VoiceCall`).
* Call signalling on the server, session activity, user status and file transfer bookkeeping: single rows
  written by single statements or under one mutex, with no step in between that something else could take.
* Codec, validation, cryptography, certificate pinning, JNI marshalling, start-up, metrics and screens:
  stateless, pure input and output, or outside what a state machine can say about them.
* Vendored code (SQLite, SQLCipher, OpenSSL, Netty, WebRTC): modelled only through what the code here
  relies on.

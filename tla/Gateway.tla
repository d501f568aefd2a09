------------------------------- MODULE Gateway -------------------------------
(***************************************************************************)
(* The relay of the ZSP gateway (ZChatServer): the table of online users   *)
(* (ZspConnectionRegistry), the per-user offline queues                    *)
(* (ZspOfflineMessageQueue) and the handlers of ZspMessageDispatcher and   *)
(* ZspInboundHandler that read and write them.                             *)
(*                                                                         *)
(* Every TCP channel has its own Netty event loop here, the most           *)
(* concurrent deployment: channels that share a loop only lose             *)
(* interleavings.  A handler runs on the loop of the channel that received *)
(* the frame; it is split into one action for each access to state that    *)
(* other loops share (the registry, the offline queues, the activity of    *)
(* another channel, the task queue of another loop).  What one loop alone  *)
(* touches is folded into the neighbouring access.                         *)
(*                                                                         *)
(* Frame numbering and the inbound replay window are the subject of        *)
(* Connection; replies to the sender change nothing the relay reads.       *)
(***************************************************************************)
EXTENDS Integers, Sequences, FiniteSets

CONSTANTS
  Users,      \* the 16-byte user ids
  Chans,      \* TCP channels; an accepted connection is a new channel
  Msgs,       \* IM frames that clients may send, each at most once
  From,       \* [Msgs -> Users]: the user whose client sends the frame
  To,         \* [Msgs -> Users]: the toUserId of the frame
  MaxAuths,   \* bound of the model: authentications in a behaviour
  QueueMax,   \* zchat.zsp.offline-queue-max-per-user
  None        \* "no user", "no channel", "no message" (null in the code)

ASSUME RoutingAssumption ==
  /\ From \in [Msgs -> Users]
  /\ To \in [Msgs -> Users]

\* With offline-queue-max-per-user <= 0 the loop of enqueue never ends.
ASSUME QueueMaxAssumption == QueueMax \in Nat \ {0}

ASSUME MaxAuthsAssumption == MaxAuths \in Nat

ASSUME NoneAssumption == None \notin Users \cup Chans \cup Msgs

VARIABLES
  conn,       \* conn[c]: the life of the channel, see ConnState
  pc,         \* pc[c]: where the loop of c is inside a handler
  authUser,   \* attribute AUTH_USER_ID_16; CALLER_SESSION_ID is set with it
  auths,      \* authentications so far, capped by MaxAuths
  hand,       \* hand[c]: the frame the handler on c is relaying
  target,     \* target[c]: the channel findChannel returned to it
  batch,      \* batch[c]: the deque drainTo took out of the map
  registry,   \* userIdToChannel
  queue,      \* byUser
  tasks,      \* tasks[c]: writes other loops submitted to the loop of c
  wire,       \* wire[c]: frames written to the socket of c
  stored,     \* frames storeMessage accepted
  evicted,    \* frames pushed out of a full offline queue
  lost,       \* frames written to a channel that is no longer active
  authed,     \* history: the users c has authenticated as
  lastAuth,   \* history: the channel of the user's latest authentication
  deadAt      \* history: the channels closed when the frame was accepted

connVars == <<conn, authUser, auths, authed, lastAuth, deadAt>>
vars == <<connVars, pc, hand, target, batch, registry, queue, tasks, wire,
          stored, evicted, lost>>

(***************************************************************************)
(* "new": not accepted yet.  "open": active.  "closing": close() has run,  *)
(* isActive() is false, channelInactive has not been delivered; frames     *)
(* that the decoder already holds are still dispatched.  "closed":         *)
(* channelInactive has run and the pipeline is empty.                      *)
(***************************************************************************)
ConnState == {"new", "open", "closing", "closed"}
PC == {"ready", "find", "enqueue", "forward", "drain", "draining"}

Mail(u) == {m \in Msgs : To[m] = u}

TypeOK ==
  /\ conn \in [Chans -> ConnState]
  /\ pc \in [Chans -> PC]
  /\ authUser \in [Chans -> Users \cup {None}]
  /\ auths \in 0..MaxAuths
  /\ hand \in [Chans -> Msgs \cup {None}]
  /\ target \in [Chans -> Chans \cup {None}]
  /\ batch \in [Chans -> Seq(Msgs)]
  /\ registry \in [Users -> Chans \cup {None}]
  /\ queue \in [Users -> Seq(Msgs)]
  /\ tasks \in [Chans -> Seq(Msgs)]
  /\ wire \in [Chans -> Seq(Msgs)]
  /\ stored \subseteq Msgs
  /\ evicted \subseteq Msgs
  /\ lost \subseteq Msgs
  /\ authed \in [Chans -> SUBSET Users]
  /\ lastAuth \in [Users -> Chans \cup {None}]
  /\ deadAt \in [Msgs -> SUBSET Chans]

Init ==
  /\ conn = [c \in Chans |-> "new"]
  /\ pc = [c \in Chans |-> "ready"]
  /\ authUser = [c \in Chans |-> None]
  /\ auths = 0
  /\ hand = [c \in Chans |-> None]
  /\ target = [c \in Chans |-> None]
  /\ batch = [c \in Chans |-> <<>>]
  /\ registry = [u \in Users |-> None]
  /\ queue = [u \in Users |-> <<>>]
  /\ tasks = [c \in Chans |-> <<>>]
  /\ wire = [c \in Chans |-> <<>>]
  /\ stored = {}
  /\ evicted = {}
  /\ lost = {}
  /\ authed = [c \in Chans |-> {}]
  /\ lastAuth = [u \in Users |-> None]
  /\ deadAt = [m \in Msgs |-> {}]

-----------------------------------------------------------------------------
(* Netty: the life of a channel and the work its event loop does.          *)

Active(c) == conn[c] = "open"

\* The loop of c is between two events: it can start the next handler or task.
Free(c) == pc[c] = "ready"

\* The pipeline of c can still dispatch a decoded frame.
Dispatching(c) == Free(c) /\ conn[c] \in {"open", "closing"}

\* The user the frame is relayed to: bytes 16..31 of the payload.
RecipientSwapped(m) == From[m]
Recipient(m) == To[m]

\* A write on the loop of c itself: it reaches the socket while c is active.
WriteOn(c, m) ==
  IF Active(c)
  THEN wire' = [wire EXCEPT ![c] = Append(@, m)] /\ UNCHANGED lost
  ELSE lost' = lost \cup {m} /\ UNCHANGED wire

Connect(c) ==
  /\ conn[c] = "new"
  /\ conn' = [conn EXCEPT ![c] = "open"]
  /\ UNCHANGED <<pc, authUser, auths, hand, target, batch, registry,
                 queue, tasks, wire, stored, evicted, lost, authed, lastAuth,
                 deadAt>>

(***************************************************************************)
(* ctx.close(): a frame the dispatcher refuses (validation, tag, replay,   *)
(* no caller session, a session the native side has dropped, rejected      *)
(* AUTH), an exception in the pipeline, a reset by the peer, or a failed   *)
(* write, which can strike inside a handler.                               *)
(***************************************************************************)
Close(c) ==
  /\ conn[c] = "open"
  /\ conn' = [conn EXCEPT ![c] = "closing"]
  /\ UNCHANGED <<pc, authUser, auths, hand, target, batch, registry,
                 queue, tasks, wire, stored, evicted, lost, authed, lastAuth,
                 deadAt>>

\* registry.unregister removes the entry whatever channel it holds.
Unregister(c) ==
  registry' = IF authUser[c] = None THEN registry
              ELSE [registry EXCEPT ![authUser[c]] = None]

\* channelInactive: the last event of a channel; its attributes stay set.
ChannelInactive(c) ==
  /\ Free(c)
  /\ conn[c] = "closing"
  /\ conn' = [conn EXCEPT ![c] = "closed"]
  /\ Unregister(c)
  /\ UNCHANGED <<pc, authUser, auths, hand, target, batch, queue, tasks,
                 wire, stored, evicted, lost, authed, lastAuth, deadAt>>

\* The loop of c runs the oldest write another loop submitted to it.
RunTask(c) ==
  /\ Free(c)
  /\ tasks[c] # <<>>
  /\ WriteOn(c, Head(tasks[c]))
  /\ tasks' = [tasks EXCEPT ![c] = Tail(@)]
  /\ UNCHANGED <<connVars, pc, hand, target, batch, registry, queue, stored,
                 evicted>>

-----------------------------------------------------------------------------
(* AUTH and LOCAL_PASSWORD_AUTH that the native side accepts.              *)

\* registry.register: userIdToChannel.put(key, ch)
RegisterIfAbsent(c, u) ==
  IF registry[u] = None THEN [registry EXCEPT ![u] = c] ELSE registry
Register(c, u) == [registry EXCEPT ![u] = c]

\* Native auth, then CALLER_SESSION_ID, AUTH_USER_ID_16 and register.
Auth(c, u) ==
  /\ Dispatching(c)
  /\ auths < MaxAuths
  /\ auths' = auths + 1
  /\ authUser' = [authUser EXCEPT ![c] = u]
  /\ authed' = [authed EXCEPT ![c] = @ \cup {u}]
  /\ lastAuth' = [lastAuth EXCEPT ![u] = c]
  /\ registry' = Register(c, u)
  /\ pc' = [pc EXCEPT ![c] = "drain"]
  /\ UNCHANGED <<conn, hand, target, batch, queue, tasks, wire, stored, evicted,
                 lost, deadAt>>

\* byUser.remove(key)
RemoveByGet(u) == queue
RemoveQueue(u) == [queue EXCEPT ![u] = <<>>]

\* drainTo: the whole deque leaves the map in one atomic remove.
DrainTake(c) ==
  /\ pc[c] = "drain"
  /\ batch' = [batch EXCEPT ![c] = queue[authUser[c]]]
  /\ queue' = RemoveQueue(authUser[c])
  /\ pc' = [pc EXCEPT ![c] = "draining"]
  /\ UNCHANGED <<connVars, hand, target, registry, tasks, wire, stored, evicted,
                 lost>>

\* drainTo: while ((pending = q.pollFirst()) != null) writeAndFlush
DrainWrite(c) ==
  /\ pc[c] = "draining"
  /\ batch[c] # <<>>
  /\ WriteOn(c, Head(batch[c]))
  /\ batch' = [batch EXCEPT ![c] = Tail(@)]
  /\ UNCHANGED <<connVars, pc, hand, target, registry, queue, tasks, stored,
                 evicted>>

DrainDoneEarly(c) ==
  /\ pc[c] = "draining"
  /\ pc' = [pc EXCEPT ![c] = "ready"]
  /\ UNCHANGED <<connVars, hand, target, batch, registry, queue, tasks, wire,
                 stored, evicted, lost>>
DrainDone(c) ==
  /\ pc[c] = "draining"
  /\ batch[c] = <<>>
  /\ pc' = [pc EXCEPT ![c] = "ready"]
  /\ UNCHANGED <<connVars, hand, target, batch, registry, queue, tasks, wire,
                 stored, evicted, lost>>

(***************************************************************************)
(* LOGOUT, and the listener of an ACCOUNT_DELETE reply: unregister,        *)
(* destroyCallerSession, clear the attributes, close.                      *)
(***************************************************************************)
Logout(c) ==
  /\ Dispatching(c)
  /\ Unregister(c)
  /\ authUser' = [authUser EXCEPT ![c] = None]
  /\ conn' = [conn EXCEPT ![c] = "closing"]
  /\ UNCHANGED <<pc, hand, target, batch, queue, tasks, wire, stored, evicted,
                 lost, auths, authed, lastAuth, deadAt>>

-----------------------------------------------------------------------------
(* TEXT, IMAGE, VOICE, ... and encrypted opaque frames.                    *)

\* The caller session verifies and storeMessage returns a message id.
Receive(c, m) ==
  /\ Dispatching(c)
  /\ authUser[c] = From[m]
  /\ m \notin stored
  /\ stored' = stored \cup {m}
  /\ hand' = [hand EXCEPT ![c] = m]
  /\ pc' = [pc EXCEPT ![c] = "find"]
  /\ deadAt' = [deadAt EXCEPT ![m] = {d \in Chans : conn[d] = "closed"}]
  /\ UNCHANGED <<conn, authUser, auths, target, batch, registry, queue, tasks,
                 wire, evicted, lost, authed, lastAuth>>

\* ch != null && ch.isActive(): only such a channel is handed the frame.
UsableUnchecked(ch) == ch # None
Usable(ch) == ch # None /\ Active(ch)

\* forwardFrame: ch = findChannel(to), else the offline queue
Find(c) ==
  /\ pc[c] = "find"
  /\ LET ch == registry[Recipient(hand[c])]
     IN  IF Usable(ch)
         THEN /\ target' = [target EXCEPT ![c] = ch]
              /\ pc' = [pc EXCEPT ![c] = "forward"]
         ELSE /\ pc' = [pc EXCEPT ![c] = "enqueue"]
              /\ UNCHANGED target
  /\ UNCHANGED <<connVars, hand, batch, registry, queue, tasks, wire, stored,
                 evicted, lost>>

\* while (q.size() >= getOfflineQueueMaxPerUser()) q.pollFirst()
QueueFullLate(u) == Len(queue[u]) > QueueMax
QueueFullEarly(u) == Len(queue[u]) >= QueueMax - 1
QueueFull(u) == Len(queue[u]) >= QueueMax

\* ZspOfflineMessageQueue.enqueue: the oldest frames make room.
Enqueue(c) ==
  /\ pc[c] = "enqueue"
  /\ LET m == hand[c]
         u == Recipient(m)
     IN  IF QueueFull(u)
         THEN /\ queue' = [queue EXCEPT ![u] = Append(Tail(@), m)]
              /\ evicted' = evicted \cup {Head(queue[u])}
         ELSE /\ queue' = [queue EXCEPT ![u] = Append(@, m)]
              /\ UNCHANGED evicted
  /\ hand' = [hand EXCEPT ![c] = None]
  /\ pc' = [pc EXCEPT ![c] = "ready"]
  /\ UNCHANGED <<connVars, target, batch, registry, tasks, wire, stored, lost>>

(***************************************************************************)
(* forwardFrame on the channel found: its own loop writes at once, another *)
(* loop gets a task, and a pipeline already torn down (context == null)    *)
(* drops the frame.                                                        *)
(***************************************************************************)
Forward(c) ==
  /\ pc[c] = "forward"
  /\ LET m == hand[c]
         dst == target[c]
     IN  \/ /\ conn[dst] = "closed"
            /\ lost' = lost \cup {m}
            /\ UNCHANGED <<tasks, wire>>
         \/ /\ conn[dst] # "closed"
            /\ dst = c
            /\ WriteOn(c, m)
            /\ UNCHANGED tasks
         \/ /\ conn[dst] # "closed"
            /\ dst # c
            /\ tasks' = [tasks EXCEPT ![dst] = Append(@, m)]
            /\ UNCHANGED <<wire, lost>>
  /\ hand' = [hand EXCEPT ![c] = None]
  /\ target' = [target EXCEPT ![c] = None]
  /\ pc' = [pc EXCEPT ![c] = "ready"]
  /\ UNCHANGED <<connVars, batch, registry, queue, stored, evicted>>

-----------------------------------------------------------------------------
\* The steps a started handler or a submitted task still has to take.
LoopStep(c) ==
  \/ RunTask(c) \/ DrainTake(c) \/ DrainWrite(c) \/ DrainDone(c)
  \/ Find(c) \/ Enqueue(c) \/ Forward(c)

Next ==
  \E c \in Chans :
    \/ Connect(c) \/ Close(c) \/ ChannelInactive(c)
    \/ \E u \in Users : Auth(c, u)
    \/ Logout(c)
    \/ \E m \in Msgs : Receive(c, m)
    \/ LoopStep(c)

Spec == Init /\ [][Next]_vars

\* An event loop never blocks: it finishes the handler it is in and then its
\* tasks, and delivers channelInactive once a channel has closed.
FairSpec ==
  /\ Spec
  /\ \A c \in Chans : WF_vars(LoopStep(c)) /\ WF_vars(ChannelInactive(c))

-----------------------------------------------------------------------------
(* Properties.                                                             *)

Elems(s) == {s[i] : i \in DOMAIN s}

(***************************************************************************)
(* A relayed frame only ever travels towards its addressee: an offline     *)
(* queue holds the mail of its user, and what a loop has taken from a      *)
(* queue, was handed by another loop, or has written to the socket is mail *)
(* of a user this very channel has authenticated as.  forwardFrame and     *)
(* drainTo pick the channel and the queue in different steps, so this      *)
(* relates them across interleavings.                                      *)
(***************************************************************************)
Addressed ==
  /\ \A u \in Users : Elems(queue[u]) \subseteq Mail(u)
  /\ \A c \in Chans :
       \A m \in Elems(batch[c]) \cup Elems(tasks[c]) \cup Elems(wire[c]) :
         To[m] \in authed[c]

\* How often m occurs in a family of sequences.
Occurrences(f, m) ==
  Cardinality(UNION {{<<x, i>> : i \in {j \in DOMAIN f[x] : f[x][j] = m}} :
                       x \in DOMAIN f})

(***************************************************************************)
(* Every frame storeMessage accepted is in exactly one place: a handler's  *)
(* hand, an offline queue, a drained deque, a loop's task queue, a socket, *)
(* or one of the two records of frames given up.  So a frame is written to *)
(* at most one socket, at most once, and none vanishes between the         *)
(* handlers of different loops.                                            *)
(***************************************************************************)
OnePlace ==
  \A m \in stored :
    1 = Cardinality({c \in Chans : hand[c] = m})
        + Occurrences(queue, m) + Occurrences(batch, m)
        + Occurrences(tasks, m) + Occurrences(wire, m)
        + (IF m \in evicted THEN 1 ELSE 0) + (IF m \in lost THEN 1 ELSE 0)

(***************************************************************************)
(* The registry never routes to a connection that a later authentication   *)
(* of the same user has replaced: an entry is the user's latest channel or *)
(* missing.                                                                *)
(***************************************************************************)
LatestConnection == \A u \in Users : registry[u] \in {None, lastAuth[u]}

(***************************************************************************)
(* A channel that is gone takes no frame accepted after that.  A channel   *)
(* that authenticated as one user and then as another leaves the first     *)
(* user's entry in the registry when channelInactive has run (only the     *)
(* entry of its last user is removed), so findChannel may return a dead    *)
(* channel; the frame must go to the offline queue then.  A frame is lost  *)
(* only to a channel of the addressee that was not yet torn down when the  *)
(* frame was accepted.                                                     *)
(***************************************************************************)
DeadReceiveNothing ==
  /\ \A c \in Chans :
       \A m \in Elems(batch[c]) \cup Elems(tasks[c]) \cup Elems(wire[c]) :
         c \notin deadAt[m]
  /\ \A m \in lost :
       \E c \in Chans :
         /\ conn[c] \in {"closing", "closed"}
         /\ To[m] \in authed[c]
         /\ c \notin deadAt[m]

(***************************************************************************)
(* The relay gives up a frame only for a reason: it wrote it to a channel  *)
(* of the addressee that has closed, or QueueMax later frames for the same *)
(* user took its place in the offline queue.                               *)
(***************************************************************************)
LossHasCause ==
  /\ \A m \in lost :
       \E c \in Chans : conn[c] \in {"closing", "closed"} /\ To[m] \in authed[c]
  /\ \A m \in evicted :
       Cardinality({x \in stored \ {m} : To[x] = To[m]}) >= QueueMax

(***************************************************************************)
(* Types, and the offline queue of a user never outgrows                   *)
(* offline-queue-max-per-user, whichever loops enqueue and drain.          *)
(***************************************************************************)
WellFormed == TypeOK /\ \A u \in Users : Len(queue[u]) <= QueueMax

\* The abstract relay this module implements.
Delivered == UNION {Elems(wire[c]) : c \in Chans}
Waiting == UNION {Elems(queue[u]) : u \in Users}

R == INSTANCE Relay WITH
       Bound <- QueueMax,
       waiting <- queue,
       delivered <- Delivered,
       dropped <- lost \cup evicted,
       carried <- stored \ (Waiting \cup Delivered \cup lost \cup evicted)

\* The gateway behaves as the abstract relay: the steps of several loops
\* map to accepting, parking, collecting, delivering or dropping one frame.
ImplementsRelay == R!Spec

(***************************************************************************)
(* Documents: "toUserId not all zero: storeMessage and forward to the      *)
(* peer's online connection".  A user is online when an open channel is    *)
(* its latest authenticated one; such a user must be in the registry, or   *)
(* frames go to the offline queue although the connection is there.        *)
(***************************************************************************)
OnlineIsRegistered ==
  \A c \in Chans, u \in Users :
    conn[c] = "open" /\ authUser[c] = u /\ lastAuth[u] = c => registry[u] = c

=============================================================================

----------------------------- MODULE Connection -----------------------------
(***************************************************************************)
(* One client session and its TCP connections: ZspSessionManager of the    *)
(* Android client at one end, the Netty channel of the ZSP gateway at the  *)
(* other (replay window, reply numbering, idle timer, close).              *)
(*                                                                         *)
(* The client holds one lock during a whole request, so it has at most one *)
(* call in progress; between its write and its read everything else may    *)
(* happen.  A gateway channel is served by its own event loop; the loops   *)
(* of other channels forward TEXT frames to it, and number them with the   *)
(* attribute OUTBOUND_SEQUENCE of this channel from their own threads.     *)
(*                                                                         *)
(* TCP neither loses nor reorders within a connection; it may break at any *)
(* time.  Who is online and where a frame is routed is the subject of      *)
(* Gateway.                                                                *)
(***************************************************************************)
EXTENDS Integers, Sequences

CONSTANTS
  Conns,       \* TCP connections, each used once
  Texts,       \* TEXT requests of the application (sendTextMessage)
  Others,      \* requests of other types (SYNC, profile, friends, ...)
  Pushes,      \* TEXT frames other users' connections forward to this client
  Loops,       \* event loops of those connections
  HalfWindow,  \* half of the replay window: 500 in the code
  Auth,        \* the LOCAL_PASSWORD_AUTH frame that opens a session
  None

ASSUME WindowAssumption == HalfWindow \in Nat \ {0}
ASSUME FramesDistinct ==
  /\ Texts \cap Others = {} /\ Pushes \cap (Texts \cup Others) = {}
  /\ Auth \notin Texts \cup Others \cup Pushes
  /\ None \notin Conns \cup Texts \cup Others \cup Pushes \cup {Auth}

Reqs == Texts \cup Others

VARIABLES
  sock,      \* the client's socket: a connection or None
  call,      \* what the client waits for: a request, Auth or None
  nextSeq,   \* nextSequence
  result,    \* result[r]: what the call of r returned, see Results
  heard,     \* frames given to the IncomingTextListener
  up,        \* up[k]: frames on the way to the gateway
  down,      \* down[k]: frames on the way to the client
  chan,      \* chan[k]: the life of the gateway channel, as in Gateway
  user,      \* user[k]: CALLER_SESSION_ID is set
  lastSeq,   \* lastProcessedSeq of the replay state, -1 at first
  outSeq,    \* OUTBOUND_SEQUENCE
  reply,     \* reply[k]: the numbered reply the handler is about to write
  fwd,       \* fwd[f]: the push that loop f is numbering, or None
  tasks,     \* tasks[k]: writes other loops submitted to the loop of k
  pushed,    \* pushes forwarded so far
  quiet      \* quiet[k]: reader-idle-seconds have passed without traffic

clientVars == <<sock, call, nextSeq, result, heard>>
gatewayVars == <<chan, user, lastSeq, outSeq, reply, fwd, tasks, pushed, quiet>>
vars == <<clientVars, up, down, gatewayVars>>

Kind(r) == IF r \in Texts \cup Pushes THEN "TEXT" ELSE IF r = Auth THEN "AUTH" ELSE "OTHER"

\* of: the request answered or the push carried.  ok: the AUTH reply carries
\* a session; the payloads of other replies are not told apart.
Frame(s, of, ok) == [seq |-> s, of |-> of, ok |-> ok]

UpFrames == [seq : Nat, of : Reqs \cup {Auth}]
DownFrames == [seq : Nat, of : Reqs \cup {Auth} \cup Pushes, ok : BOOLEAN]
\* "idle": not called.  A frame's origin: the call returned its payload.
Results == {"idle", "pending", "failed"} \cup Reqs \cup Pushes

TypeOK ==
  /\ sock \in Conns \cup {None}
  /\ call \in Reqs \cup {Auth, None}
  /\ nextSeq \in Nat
  /\ result \in [Reqs -> Results]
  /\ heard \subseteq Reqs \cup Pushes
  /\ up \in [Conns -> Seq(UpFrames)]
  /\ down \in [Conns -> Seq(DownFrames)]
  /\ chan \in [Conns -> {"new", "open", "closing", "closed"}]
  /\ user \in [Conns -> BOOLEAN]
  /\ lastSeq \in [Conns -> Nat \cup {-1}]
  /\ outSeq \in [Conns -> Nat]
  /\ reply \in [Conns -> DownFrames \cup {None}]
  /\ fwd \in [Loops -> [to : Conns, frame : DownFrames] \cup {None}]
  /\ tasks \in [Conns -> Seq(DownFrames)]
  /\ pushed \subseteq Pushes
  /\ quiet \in [Conns -> BOOLEAN]

Init ==
  /\ sock = None
  /\ call = None
  /\ nextSeq = 1
  /\ result = [r \in Reqs |-> "idle"]
  /\ heard = {}
  /\ up = [k \in Conns |-> <<>>]
  /\ down = [k \in Conns |-> <<>>]
  /\ chan = [k \in Conns |-> "new"]
  /\ user = [k \in Conns |-> FALSE]
  /\ lastSeq = [k \in Conns |-> -1]
  /\ outSeq = [k \in Conns |-> 1]
  /\ reply = [k \in Conns |-> None]
  /\ fwd = [f \in Loops |-> None]
  /\ tasks = [k \in Conns |-> <<>>]
  /\ pushed = {}
  /\ quiet = [k \in Conns |-> FALSE]

-----------------------------------------------------------------------------
(* The client.                                                             *)

\* The sequence number after a write: nextSequence++.
BumpNot(s) == s
Bump(s) == s + 1

\* closeLocked: the socket is closed, what it still held is never read.
CloseNot == UNCHANGED <<sock, nextSeq>> /\ down' = [down EXCEPT ![sock] = <<>>]
CloseKeepsSeq ==
  /\ sock' = None
  /\ UNCHANGED nextSeq
  /\ down' = [down EXCEPT ![sock] = <<>>]
CloseLocked ==
  /\ sock' = None
  /\ nextSeq' = 1
  /\ down' = [down EXCEPT ![sock] = <<>>]

\* establishSessionLocked: closeLocked, connect, AUTH as frame 1.
Establish(k) ==
  /\ call = None
  /\ chan[k] = "new"
  /\ chan' = [chan EXCEPT ![k] = "open"]
  /\ sock' = k
  /\ up' = [up EXCEPT ![k] = <<[seq |-> 1, of |-> Auth]>>]
  /\ nextSeq' = Bump(1)
  /\ call' = Auth
  /\ UNCHANGED <<result, heard, down, user, lastSeq, outSeq, reply, fwd, tasks,
                 pushed, quiet>>

\* request: encode with nextSequence++, write.  (Without a connection it
\* returns null at once and changes nothing.)
Request(r) ==
  /\ call = None
  /\ sock # None
  /\ result[r] = "idle"
  /\ up' = [up EXCEPT ![sock] = Append(@, [seq |-> nextSeq, of |-> r])]
  /\ nextSeq' = Bump(nextSeq)
  /\ call' = r
  /\ result' = [result EXCEPT ![r] = "pending"]
  /\ UNCHANGED <<sock, heard, down, gatewayVars>>

\* The call in progress ends: a request's caller gets its result.
Return(value) ==
  /\ call' = None
  /\ result' = IF call \in Reqs THEN [result EXCEPT ![call] = value] ELSE result

\* A TEXT payload of 32 bytes or more is a forwarded message; the reply to a
\* TEXT is a 16-byte message id, or empty.
PushLike(f) == f.of \in Pushes

\* An accepted AUTH reply carries a session id.
AuthReplyOK(f) == f.ok

\* The frame read is taken off the stream, the session stays.
Consume ==
  /\ down' = [down EXCEPT ![sock] = Tail(@)]
  /\ UNCHANGED <<sock, nextSeq>>

\* readFrame and the ways request and establishSessionLocked go on.
Read ==
  /\ call # None
  /\ down[sock] # <<>>
  /\ LET f == Head(down[sock])
     IN  \/ /\ Kind(f.of) = Kind(call)
            /\ call # Auth
            /\ Return(f.of)
            /\ Consume
            /\ UNCHANGED heard
         \/ /\ call = Auth
            /\ f.of = Auth
            /\ AuthReplyOK(f)
            /\ Return(None)
            /\ Consume
            /\ UNCHANGED heard
         \/ /\ call # Auth
            /\ Kind(f.of) # Kind(call)
            /\ PushLike(f)
            /\ heard' = heard \cup {f.of}
            /\ Consume
            /\ UNCHANGED <<call, result>>
         \/ /\ IF call = Auth THEN ~(f.of = Auth /\ AuthReplyOK(f))
               ELSE Kind(f.of) # Kind(call) /\ ~PushLike(f)
            /\ CloseLocked
            /\ Return("failed")
            /\ UNCHANGED heard
  /\ UNCHANGED <<up, gatewayVars>>

\* SO_TIMEOUT: READ_TIMEOUT_MS without a byte.
NeverTimesOut == FALSE
TimesOut == call # None /\ down[sock] = <<>>

\* IOException: the read timed out, the connection broke or ended.
CallFails ==
  /\ CloseLocked
  /\ Return("failed")
  /\ UNCHANGED <<heard, up, gatewayVars>>

Timeout == TimesOut /\ CallFails
Break == call # None /\ CallFails

\* close(): logout or a change of account, never during a call.
CloseSession ==
  /\ call = None
  /\ sock # None
  /\ CloseLocked
  /\ UNCHANGED <<call, result, heard, up, gatewayVars>>

-----------------------------------------------------------------------------
(* The gateway channel.                                                    *)

Dispatching(k) == chan[k] \in {"open", "closing"} /\ reply[k] = None

\* ZspPeerReplayState.accept: nonces are random and do not repeat here, the
\* client's clock is within the timestamp window.
Accepts(k, s) ==
  \/ lastSeq[k] < 0
  \/ s > lastSeq[k] /\ s <= lastSeq[k] + HalfWindow

\* A frame the dispatcher refuses or fails on: ctx.close().
Refuse(k) ==
  /\ chan' = [chan EXCEPT ![k] = "closing"]
  /\ UNCHANGED <<user, reply>>

\* nextOutboundSeq, first half: attr.get().
Answer(k, of, ok) == reply' = [reply EXCEPT ![k] = Frame(outSeq[k], of, ok)]

\* dispatch: replay check, then the handler up to attr.get().
Dispatch(k) ==
  /\ Dispatching(k)
  /\ up[k] # <<>>
  /\ up' = [up EXCEPT ![k] = Tail(@)]
  /\ quiet' = [quiet EXCEPT ![k] = FALSE]
  /\ LET f == Head(up[k])
     IN  \/ /\ ~Accepts(k, f.seq)
            /\ Refuse(k)
            /\ UNCHANGED lastSeq
         \/ /\ Accepts(k, f.seq)
            /\ lastSeq' = [lastSeq EXCEPT ![k] = f.seq]
            /\ \/ /\ f.of = Auth
                  /\ \E ok \in BOOLEAN :
                       /\ user' = [user EXCEPT ![k] = @ \/ ok]
                       /\ Answer(k, Auth, ok)
                  /\ UNCHANGED chan
               \/ /\ f.of # Auth
                  /\ user[k]
                  /\ Answer(k, f.of, TRUE)
                  /\ UNCHANGED <<chan, user>>
               \/ Refuse(k)
  /\ UNCHANGED <<clientVars, down, outSeq, fwd, tasks, pushed>>

\* Netty drops what is written to a closed channel, the client's TCP what
\* arrives for a closed socket.
Write(k, f) ==
  IF chan[k] = "open" /\ sock = k
  THEN /\ down' = [down EXCEPT ![k] = Append(@, f)]
       /\ quiet' = [quiet EXCEPT ![k] = FALSE]
  ELSE UNCHANGED <<down, quiet>>

\* nextOutboundSeq, second half, and the write: attr.set(seq + 1).
WriteReply(k) ==
  /\ reply[k] # None
  /\ outSeq' = [outSeq EXCEPT ![k] = reply[k].seq + 1]
  /\ Write(k, reply[k])
  /\ reply' = [reply EXCEPT ![k] = None]
  /\ UNCHANGED <<clientVars, up, chan, user, lastSeq, fwd, tasks, pushed>>

\* forwardFrame on another loop: attr.get() of this channel.
ForwardGet(f, k, p) ==
  /\ fwd[f] = None
  /\ p \notin pushed
  /\ chan[k] = "open"
  /\ user[k]
  /\ pushed' = pushed \cup {p}
  /\ fwd' = [fwd EXCEPT ![f] = [to |-> k, frame |-> Frame(outSeq[k], p, TRUE)]]
  /\ UNCHANGED <<clientVars, up, down, chan, user, lastSeq, outSeq, reply, tasks,
                 quiet>>

\* forwardFrame: attr.set(seq + 1), then a task for the channel's own loop.
ForwardSet(f) ==
  /\ fwd[f] # None
  /\ LET k == fwd[f].to
     IN  IF chan[k] = "closed" THEN UNCHANGED <<outSeq, tasks>>
         ELSE /\ outSeq' = [outSeq EXCEPT ![k] = fwd[f].frame.seq + 1]
              /\ tasks' = [tasks EXCEPT ![k] = Append(@, fwd[f].frame)]
  /\ fwd' = [fwd EXCEPT ![f] = None]
  /\ UNCHANGED <<clientVars, up, down, chan, user, lastSeq, reply, pushed, quiet>>

RunTask(k) ==
  /\ reply[k] = None
  /\ tasks[k] # <<>>
  /\ Write(k, Head(tasks[k]))
  /\ tasks' = [tasks EXCEPT ![k] = Tail(@)]
  /\ UNCHANGED <<clientVars, up, chan, user, lastSeq, outSeq, reply, fwd, pushed>>

\* The peer closed or reset, a write failed, the gateway stops.
Close(k) ==
  /\ chan[k] = "open"
  /\ chan' = [chan EXCEPT ![k] = "closing"]
  /\ UNCHANGED <<clientVars, up, down, user, lastSeq, outSeq, reply, fwd, tasks,
                 pushed, quiet>>

\* The last event of the channel; its attributes go with it.
ChannelInactive(k) ==
  /\ chan[k] = "closing"
  /\ reply[k] = None
  /\ chan' = [chan EXCEPT ![k] = "closed"]
  /\ up' = [up EXCEPT ![k] = <<>>]
  /\ tasks' = [tasks EXCEPT ![k] = <<>>]
  /\ user' = [user EXCEPT ![k] = FALSE]
  /\ lastSeq' = [lastSeq EXCEPT ![k] = -1]
  /\ outSeq' = [outSeq EXCEPT ![k] = 1]
  /\ quiet' = [quiet EXCEPT ![k] = FALSE]
  /\ UNCHANGED <<clientVars, down, reply, fwd, pushed>>

(***************************************************************************)
(* new IdleStateHandler(0, 0, readerIdleSeconds): only the third timer is  *)
(* armed, so the event it fires is ALL_IDLE; ZspIdleEventHandler closes on *)
(* READER_IDLE.                                                            *)
(***************************************************************************)
FiredIdleState == "ALL_IDLE"
ClosesOn(state) == state = "READER_IDLE"

\* A call in progress fails before reader-idle-seconds (90) have passed.
IdleEvent(k) ==
  /\ chan[k] = "open"
  /\ sock = k => call = None
  /\ ~quiet[k]
  /\ up[k] = <<>>
  /\ reply[k] = None
  /\ tasks[k] = <<>>
  /\ quiet' = [quiet EXCEPT ![k] = TRUE]
  /\ chan' = IF ClosesOn(FiredIdleState) THEN [chan EXCEPT ![k] = "closing"] ELSE chan
  /\ UNCHANGED <<clientVars, up, down, user, lastSeq, outSeq, reply, fwd, tasks,
                 pushed>>

-----------------------------------------------------------------------------
Next ==
  \/ \E k \in Conns : Establish(k)
  \/ \E r \in Reqs : Request(r)
  \/ Read \/ Timeout \/ Break \/ CloseSession
  \/ \E k \in Conns :
       \/ Dispatch(k) \/ WriteReply(k) \/ RunTask(k)
       \/ Close(k) \/ ChannelInactive(k) \/ IdleEvent(k)
       \/ \E f \in Loops, p \in Pushes : ForwardGet(f, k, p)
  \/ \E f \in Loops : ForwardSet(f)

Spec == Init /\ [][Next]_vars

\* The reading thread runs, and its socket has a read timeout.  Nothing is
\* assumed of the gateway or the network.
FairSpec == Spec /\ WF_vars(Read) /\ WF_vars(Timeout)

-----------------------------------------------------------------------------
(* Properties.                                                             *)

(***************************************************************************)
(* Types, and the client's fields agree: it waits only on a socket, and a  *)
(* numbering starts with its connection.                                   *)
(***************************************************************************)
WellFormed == TypeOK /\ (sock = None => call = None /\ nextSeq = 1)

(***************************************************************************)
(* The gateway's replay window never refuses a frame of the client, over   *)
(* failed calls, timeouts and reconnections: the numbering of              *)
(* ZspSessionManager and the window of ZspPeerReplayState agree.           *)
(***************************************************************************)
ClientFramesAccepted ==
  \A k \in Conns :
    Dispatching(k) /\ up[k] # <<>> => Accepts(k, Head(up[k]).seq)

(***************************************************************************)
(* A reply is given to its own request only, however replies, pushes,      *)
(* timeouts and reconnections interleave: a request whose type is not TEXT *)
(* returns its own reply or null, and the listener hears forwarded         *)
(* messages, never a reply an earlier call left unread.  A connection on   *)
(* which a reply is still under way is never used again.                   *)
(***************************************************************************)
ReplyIsMine ==
  /\ \A r \in Others : result[r] \in {"idle", "pending", "failed", r}
  /\ heard \subseteq pushed

(***************************************************************************)
(* A request returns even if the gateway never answers: it does not hold   *)
(* the session lock for ever.                                              *)
(***************************************************************************)
CallReturns == \A r \in Reqs : (result[r] = "pending") ~> (result[r] # "pending")

=============================================================================

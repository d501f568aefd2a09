------------------------------ MODULE ChatSync ------------------------------
(***************************************************************************)
(* One conversation on an Android client: ChatSync copies the messages of  *)
(* the IM session from the server into ChatMessageDb and counts the unread *)
(* ones in ConversationPlaceholderStore.                                   *)
(*                                                                         *)
(* syncPeer runs on several single-thread executors at once (the chat      *)
(* screen, the list of conversations, the poll of the main screen,         *)
(* incoming frames): the workers of the model.  A worker reads its cursor  *)
(* from the database, sends SYNC, and inserts the rows of the answer one   *)
(* by one; SQLite makes each insert atomic, and nothing else is.           *)
(*                                                                         *)
(* Messages are told apart by their id, who sent them and whether they are *)
(* chat: WebRTC signalling travels in the same list and is never inserted. *)
(***************************************************************************)
EXTENDS Chain, FiniteSets, Functions

CONSTANTS
  Workers,
  Senders,    \* workers that send: the executor of the chat screen
  Pollers,    \* workers that sync without the head window: the same, and the
              \* poll of the main screen
  Mergers,    \* workers that sync with it: all but that poll
  Window,     \* DEFAULT_SYNC_LIMIT: rows of an answer without a cursor
  Page,       \* SYNC_PAGE
  Rounds,     \* MAX_GAP_ROUNDS = MAX_TAIL_ROUNDS
  Fit,        \* rows packSessionRows gets into one frame
  MaxMsgs,    \* bound of the model: messages stored by the server
  MaxUpsets   \* bound of the model: failures, restarts, calls, deletions,
              \* changes of the mute flag, and how often the chat is opened

ASSUME LimitsAssumption ==
  /\ {Window, Page, Rounds, Fit} \subseteq Nat \ {0}
  /\ {MaxMsgs, MaxUpsets} \subseteq Nat
ASSUME WorkersAssumption == Senders \cup Pollers \cup Mergers \subseteq Workers

VARIABLES
  chain,   \* server: m_imRamBySession of the session
  stored,  \* server: messages stored so far, ids are handed out in order
  rows,    \* device: the rows of the peer in ChatMessageDb, by row id
  logs,    \* device: call-log rows written so far
  conv,    \* device: the conversation is "none", "shown" or "muted"
  unread,  \* device: its unread count
  active,  \* device: ChatActivePeer is this peer
  job,     \* what each worker is doing
  arrived, \* history: rows of the peer's messages ever inserted
  upsets

server == <<chain, stored>>
device == <<rows, logs, conv, unread, active, arrived>>
vars == <<server, device, job, upsets>>

Initial == 0                     \* no cursor
MsgIds == 1..MaxMsgs
LogIds == {-k : k \in 1..MaxUpsets}  \* random ids the server does not know
Message == [id : MsgIds, mine : BOOLEAN, chat : BOOLEAN]
Row == [id : MsgIds \cup LogIds, mine : BOOLEAN]

Idle == [at |-> "idle"]

\* A sync in progress: where it is, the phase it serves, the cursor it sent,
\* the rows still to insert, what ingestSyncRowsNoBroadcast keeps on its
\* stack, and as history the chat messages of the answer it works on (owed).
Sync == [at : {"ask", "wait", "ingest", "count"},
         phase : {"head", "gap", "tail"},
         round : 1..Rounds,
         cursor : {Initial} \cup MsgIds \cup LogIds,
         page : Seq(Message),
         full : BOOLEAN,
         news : BOOLEAN,
         seen : BOOLEAN,
         was : Nat,
         owed : SUBSET MsgIds]


\* ChatActivity.trySend between the request and the insert of its message.
Sending == [at : {"send"}, id : MsgIds]

ChatIds(c) == {m.id : m \in {x \in Range(c) : x.chat}}

TypeOK ==
  /\ chain \in Seq(Message) /\ stored \in 0..MaxMsgs
  /\ rows \in Seq(Row) /\ logs \in 0..MaxUpsets
  /\ conv \in {"none", "shown", "muted"}
  /\ unread \in Nat /\ arrived \in Nat
  /\ active \in BOOLEAN
  /\ job \in [Workers -> {Idle} \cup Sending \cup Sync]
  /\ upsets \in 0..MaxUpsets

Init ==
  /\ chain = <<>> /\ stored = 0
  /\ rows = <<>> /\ logs = 0
  /\ conv = "shown" /\ unread = 0 /\ active = FALSE /\ arrived = 0
  /\ job = [w \in Workers |-> Idle]
  /\ upsets = 0

-----------------------------------------------------------------------------
(* The server: MM2 under its mutex.                                        *)

Fitting(c) == SubSeq(c, 1, IF Len(c) > Fit THEN Fit ELSE Len(c))

\* cleartextSync: the last rows of the session without a cursor, the rows
\* after the cursor with one.
Answer(cursor) ==
  Fitting(IF cursor = Initial THEN LastN(chain, Window) ELSE After(chain, cursor, Page))

StoreMessage(mine, chat) ==
  /\ stored < MaxMsgs
  /\ stored' = stored + 1
  /\ chain' = Append(chain, [id |-> stored + 1, mine |-> mine, chat |-> chat])

\* The peer sends a text, or either side a signal of a call (whose sender
\* nobody looks at).
Receive(chat) ==
  /\ StoreMessage(FALSE, chat)
  /\ UNCHANGED <<device, job, upsets>>

Upset ==
  /\ upsets < MaxUpsets
  /\ upsets' = upsets + 1

\* The sender recalls a message: it leaves the list.
RecallMessage ==
  /\ Upset
  /\ \E i \in Ids(chain) : chain' = Without(chain, i)
  /\ UNCHANGED <<stored, device, job>>

\* Messages are kept in memory only.
ServerRestart ==
  /\ Upset
  /\ chain # <<>> /\ chain' = <<>>
  /\ UNCHANGED <<stored, device, job>>

-----------------------------------------------------------------------------
(* A sync.                                                                 *)

SetJob(w, j) == job' = [job EXCEPT ![w] = j]

Begin(phase) == [at |-> "ask", phase |-> phase, round |-> 1, cursor |-> Initial,
                 page |-> <<>>, full |-> FALSE, news |-> FALSE, seen |-> FALSE,
                 was |-> 0, owed |-> {}]

NextPhase(j) ==
  CASE j.phase = "head" -> [j EXCEPT !.at = "ask", !.phase = "gap"]
    [] j.phase = "gap"  -> [j EXCEPT !.at = "ask", !.phase = "tail", !.round = 1]
    [] j.phase = "tail" -> Idle

\* Where a worker goes when its page is used up: the next round if the page
\* was full and something in it was new, the next phase otherwise.
PageDone(j) ==
  IF j.phase # "head" /\ j.full /\ j.news /\ j.round < Rounds
  THEN [j EXCEPT !.at = "ask", !.round = @ + 1]
  ELSE NextPhase(j)

\* The stack of ingestSyncRowsNoBroadcast goes with the page.
Unwound(j) ==
  IF j = Idle THEN Idle
  ELSE [j EXCEPT !.full = FALSE, !.news = FALSE, !.seen = FALSE, !.owed = {}]

SettleEarly(j) ==
  IF j.page # <<>> /\ (j.news \/ j.at = "wait") THEN [j EXCEPT !.at = "ingest"]
  ELSE Unwound(PageDone([j EXCEPT !.page = <<>>]))
Settle(j) ==
  IF j.page # <<>> THEN [j EXCEPT !.at = "ingest"]
  ELSE Unwound(PageDone(j))

\* syncPeer, with the head window or without it.
StartSync(w, head) ==
  /\ w \in (IF head THEN Mergers ELSE Pollers)
  /\ job[w] = Idle
  /\ SetJob(w, Begin(IF head THEN "head" ELSE "gap"))
  /\ UNCHANGED <<server, device, upsets>>

CursorNewest(phase) ==
  IF rows = <<>> THEN Initial
  ELSE IF phase = "gap" THEN rows[1].id
  ELSE rows[Len(rows)].id
Cursor(phase) ==
  IF phase = "head" \/ rows = <<>> THEN Initial
  ELSE IF phase = "gap" THEN rows[1].id
  ELSE rows[Len(rows)].id

\* The cursor is read from the database; without a row there is no gap.
Ask(w) ==
  /\ job[w].at = "ask"
  /\ LET j == job[w] IN
       IF j.phase = "gap" /\ rows = <<>>
       THEN SetJob(w, NextPhase(j))
       ELSE SetJob(w, [j EXCEPT !.at = "wait", !.cursor = Cursor(j.phase)])
  /\ UNCHANGED <<server, device, upsets>>

\* The answer of the server; ingestSyncRowsNoBroadcast looks once, here,
\* whether the chat is open.
Answered(w) ==
  /\ job[w].at = "wait"
  /\ LET j == job[w]
         page == Answer(j.cursor)
     IN SetJob(w, Settle([j EXCEPT !.cursor = Initial, !.page = page,
                                   !.full = Len(page) >= Page, !.seen = active,
                                   !.owed = ChatIds(page)]))
  /\ UNCHANGED <<server, device, upsets>>

\* No answer: syncPeer gives up.
SyncFailed(w) ==
  /\ job[w].at = "wait"
  /\ Upset
  /\ SetJob(w, Idle)
  /\ UNCHANGED <<server, device>>

InsertAlways(id, mine) == rows' = Append(rows, [id |-> id, mine |-> mine])
InsertIfAbsent(id, mine) ==
  rows' = IF id \in Ids(rows) THEN rows ELSE Append(rows, [id |-> id, mine |-> mine])

\* Which rows of an answer are new.
NewAlways(m) == m.chat
New(m) == m.chat /\ m.id \notin Ids(rows)

\* One row: signalling is passed over, a message inserted unless it is there.
\* A new message of the peer goes on to incrementUnread, which reads the
\* count first.
IngestRow(w) ==
  /\ job[w].at = "ingest"
  /\ LET j == job[w]
         m == Head(j.page)
         rest == [j EXCEPT !.page = Tail(@), !.news = @ \/ New(m)]
         counts == New(m) /\ ~m.mine /\ ~j.seen /\ conv = "shown"
     IN /\ IF m.chat THEN InsertIfAbsent(m.id, m.mine) ELSE UNCHANGED rows
        /\ arrived' = IF m.id \notin Ids(rows) /\ m.chat /\ ~m.mine THEN arrived + 1 ELSE arrived
        /\ SetJob(w, IF counts THEN [rest EXCEPT !.at = "count", !.was = unread]
                     ELSE Settle(rest))
  /\ UNCHANGED <<server, logs, conv, unread, active, upsets>>

\* The second half of incrementUnread.
Count(w) ==
  /\ job[w].at = "count"
  /\ unread' = job[w].was + 1
  /\ SetJob(w, Settle([job[w] EXCEPT !.was = 0]))
  /\ UNCHANGED <<server, rows, logs, conv, active, arrived, upsets>>

-----------------------------------------------------------------------------
(* Sending, calls, and what the user does.                                 *)

\* ChatActivity.trySend: the server has stored the message, the reply is
\* under way.
Send(w) ==
  /\ job[w] = Idle
  /\ StoreMessage(TRUE, TRUE)
  /\ SetJob(w, [at |-> "send", id |-> stored'])
  /\ UNCHANGED <<device, upsets>>

\* The reply names the id, under which the message is inserted at once.
Sent(w) ==
  /\ job[w].at = "send"
  /\ InsertIfAbsent(job[w].id, TRUE)
  /\ SetJob(w, Idle)
  /\ UNCHANGED <<server, logs, conv, unread, active, arrived, upsets>>

\* The reply is lost: the screen reports a failure.
SendFailed(w) ==
  /\ job[w].at = "send"
  /\ Upset
  /\ SetJob(w, Idle)
  /\ UNCHANGED <<server, device>>

\* ChatCallLogHelper.insertLocal
CallLog ==
  /\ Upset
  /\ logs' = logs + 1
  /\ InsertIfAbsent(-(logs + 1), TRUE)
  /\ UNCHANGED <<server, conv, unread, active, arrived, job>>

\* ChatActivity.onResume and onPause
OpenChat ==
  /\ Upset
  /\ conv # "none" /\ ~active
  /\ active' = TRUE
  /\ unread' = 0
  /\ UNCHANGED <<server, rows, logs, conv, arrived, job>>

CloseChat ==
  /\ active
  /\ active' = FALSE
  /\ UNCHANGED <<server, rows, logs, conv, unread, arrived, job, upsets>>

SetPeerMuted ==
  /\ Upset
  /\ conv # "none"
  /\ conv' = IF conv = "muted" THEN "shown" ELSE "muted"
  /\ UNCHANGED <<server, rows, logs, unread, active, arrived, job>>

\* The rows are gone: nothing is owed of what was inserted before.
Forgotten == [w \in Workers |->
  IF job[w].at \in {"idle", "send"} THEN job[w]
  ELSE [job[w] EXCEPT !.owed = ChatIds(job[w].page)]]

\* ChatSettingsActivity.runClearLocalHistory
ClearHistory ==
  /\ Upset
  /\ rows' = <<>>
  /\ job' = Forgotten
  /\ UNCHANGED <<server, logs, conv, unread, active, arrived>>

\* The menu of the list, or the friend is deleted: the rows go first.
RemoveSession ==
  /\ Upset
  /\ conv # "none" /\ ~active
  /\ rows' = <<>> /\ conv' = "none" /\ unread' = 0
  /\ job' = Forgotten
  /\ UNCHANGED <<server, logs, active, arrived>>

\* FriendDetailActivity opens a chat; the mute flag of an old one stays.
AddSession ==
  /\ ~active
  /\ conv' = IF conv = "none" THEN "shown" ELSE conv
  /\ unread' = 0
  /\ UNCHANGED <<server, rows, logs, active, arrived, job, upsets>>

\* The process is killed.
Kill ==
  /\ Upset
  /\ job' = [w \in Workers |-> Idle]
  /\ active' = FALSE
  /\ UNCHANGED <<server, rows, logs, conv, unread, arrived>>

Step(w) ==
  \/ Ask(w)
  \/ Answered(w)
  \/ IngestRow(w)
  \/ Count(w)
  \/ Sent(w)

User ==
  \/ OpenChat
  \/ CloseChat
  \/ SetPeerMuted
  \/ ClearHistory
  \/ RemoveSession
  \/ AddSession

Next ==
  \/ \E chat \in BOOLEAN : Receive(chat)
  \/ RecallMessage
  \/ ServerRestart
  \/ \E w \in Workers :
       \/ \E head \in BOOLEAN : StartSync(w, head)
       \/ SyncFailed(w)
       \/ SendFailed(w)
       \/ Step(w)
  \/ \E w \in Senders : Send(w)
  \/ CallLog
  \/ User
  \/ Kill

Spec == Init /\ [][Next]_vars

\* Executors run what they were given and the network answers.  Polls may
\* come in between, but again and again some worker syncs with the head
\* window: the user opens the chat or pulls to refresh, or a frame arrives.
FairSpec ==
  /\ Spec
  /\ \A w \in Workers : WF_vars(Step(w))
  /\ SF_vars(\E w \in Mergers : StartSync(w, TRUE))

-----------------------------------------------------------------------------
(* Properties.                                                             *)

\* A message has one row, however many workers fetch it and whether its own
\* send or a sync inserts it first.
OneRowEach == \A i, k \in DOMAIN rows : rows[i].id = rows[k].id => i = k

WellFormed == TypeOK /\ OneRowEach

\* Whatever other workers insert meanwhile and wherever the loops stop, a
\* sync is done with an answer only when every chat message of the answer is
\* in the database, unless the sync is cut short or the rows are deleted.
Owed(w) == IF job[w].at \in {"idle", "send"} THEN {} ELSE job[w].owed
AnswersIngested ==
  [][upsets' = upsets => \A w \in Workers : Owed(w) \ Owed(w)' \subseteq Ids(rows')]_vars

\* Unread is raised only by a message of the peer that came into the
\* database, once for each: fetching a message again, by another worker or
\* in a later round, does not count it.
UnreadArrived == unread + Cardinality({w \in Workers : job[w].at = "count"}) <= arrived

\* A message of the peer that stays on the server reaches the device while
\* the conversation is kept: holds as long as the session fits the window.
Delivered == \A i \in MsgIds :
  i \in ChatIds(chain) ~> (i \in Ids(rows) \/ i \notin Ids(chain) \/ conv = "none")

\* A message that is missing after the oldest row of the device is filled
\* in from there, window or not: what runGapFillForward is for.
AfterOldest(i) ==
  /\ rows # <<>>
  /\ rows[1].id \in Ids(chain) /\ rows[1].id < i
GapFilled == \A i \in MsgIds :
  i \in ChatIds(chain) /\ AfterOldest(i) ~> (i \in Ids(rows) \/ i \notin Ids(chain))

=============================================================================

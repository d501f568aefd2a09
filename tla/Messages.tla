------------------------------ MODULE Messages ------------------------------
(***************************************************************************)
(* The messages MM2 keeps in memory: the list of every IM session, the     *)
(* index from message id to session, the reply relations; and the managers *)
(* of MM1 that guard editing, recalling and replying.  All calls run under *)
(* the API mutex of JniBridge, so each is one step.                        *)
(*                                                                         *)
(* Whether a session of the caller is valid and a signature verifies is    *)
(* decided by the environment: a step stands for a call that passed.  The  *)
(* ciphertext is left out; timestamps of edits come from the client.       *)
(***************************************************************************)
EXTENDS Tables, Chain

CONSTANTS
  Sessions,    \* IM sessions
  Groups,      \* those that may have rows in group_members
  EditWindow,  \* seconds between two edits: 300
  MaxEdits,    \* 3
  MaxBatch,    \* bound of the model: payloads of one StoreMessages
  MaxMsgs      \* bound of the model

ASSUME LimitsAssumption ==
  /\ {MaxEdits, MaxBatch} \subseteq Nat \ {0}
  /\ {EditWindow, MaxMsgs, MaxTime} \subseteq Nat
ASSUME GroupsAssumption == Groups \subseteq Sessions
ASSUME NoneAssumption == None \notin Sessions

VARIABLES
  ram,       \* m_imRamBySession, m_imRamMsgToSession, m_imRamReplies
  stored,    \* ids handed out; they are random and not used again
  members    \* rows of group_members

messageVars == <<ram, stored, members>>

MsgIds == 1..MaxMsgs

\* A row of the list; firstAt is history, the time of the first edit.
MessageRow == [id : MsgIds, sender : Users, read : BOOLEAN,
               edits : 0..MaxEdits, editedAt : Times, firstAt : Times]
Reply == [to : MsgIds, sender : Users]

Ram == [im : [Sessions -> Seq(MessageRow)],
        sessionOf : [MsgIds -> Sessions \cup {None}],
        replies : [MsgIds -> {None} \cup Reply]]

Empty == [im |-> [s \in Sessions |-> <<>>],
          sessionOf |-> [m \in MsgIds |-> None],
          replies |-> [m \in MsgIds |-> None]]

TypeOK ==
  /\ ram \in Ram
  /\ stored \in 0..MaxMsgs
  /\ members \subseteq Groups \X Users

MessagesInit ==
  /\ ram = Empty
  /\ stored = 0
  /\ members = {}

-----------------------------------------------------------------------------
(* The tables.                                                             *)

Exists(m) == ram.sessionOf[m] # None

\* ImRamLocate: the row is looked for in the session of the index.
Located(r, m) == {i \in DOMAIN r.im[r.sessionOf[m]] : r.im[r.sessionOf[m]][i].id = m}
RowOf(m) == LET c == ram.im[ram.sessionOf[m]]
            IN c[CHOOSE i \in Located(ram, m) : TRUE]

\* ImRamInsertRow
Inserted(r, s, row) ==
  [r EXCEPT !.im[s] = Append(@, row), !.sessionOf[row.id] = s]

\* ImRamErase; a session without rows has no bucket.
ErasedFromList(r, m) ==
  [r EXCEPT !.im[r.sessionOf[m]] = Without(@, m), !.replies[m] = None]
Erased(r, m) ==
  [r EXCEPT !.im[r.sessionOf[m]] = Without(@, m),
            !.sessionOf[m] = None, !.replies[m] = None]

\* ImRamClearSession
ClearedBucket(r, s) == [r EXCEPT !.im[s] = <<>>]
Cleared(r, s) ==
  LET gone == Ids(r.im[s]) IN
  [r EXCEPT !.im[s] = <<>>,
            !.sessionOf = [m \in MsgIds |-> IF m \in gone THEN None ELSE @[m]],
            !.replies = [m \in MsgIds |-> IF m \in gone THEN None ELSE @[m]]]

NewRow(m, u) == [id |-> m, sender |-> u, read |-> FALSE,
                 edits |-> 0, editedAt |-> 0, firstAt |-> 0]

\* The first k messages of a batch, and their removal, newest first.
BatchIds(k) == [i \in 1..k |-> stored + i]
InsertedBatch(s, u, k) ==
  LET r[i \in 0..k] == IF i = 0 THEN ram ELSE Inserted(r[i - 1], s, NewRow(stored + i, u))
  IN r[k]
RolledBack(batch, k) ==
  LET r[i \in 0..k] == IF i = 0 THEN batch ELSE Erased(r[i - 1], BatchIds(k)[k + 1 - i])
  IN r[k]

\* ImRamListIdsChronologicalFirstN
FirstN(c, n) == SubSeq(c, 1, IF Len(c) > n THEN n ELSE Len(c))

-----------------------------------------------------------------------------
(* The calls.                                                              *)

StoreMessage(s, u) ==
  /\ stored < MaxMsgs
  /\ ram' = Inserted(ram, s, NewRow(stored + 1, u))
  /\ stored' = stored + 1
  /\ UNCHANGED members

\* The whole batch of n is stored, or the message after the first k fails
\* and the k are deleted again.
StoreMessages(s, u, n) ==
  /\ stored + n <= MaxMsgs
  /\ \/ /\ ram' = InsertedBatch(s, u, n)
        /\ stored' = stored + n
     \/ \E k \in 0..(n - 1) :
          /\ ram' = RolledBack(InsertedBatch(s, u, k), k)
          /\ stored' = stored + k
  /\ UNCHANGED members

\* RecallMessage, and DeleteMessage which is the same: by its sender.
RecallMessage(u, m) ==
  /\ Exists(m)
  /\ RowOf(m).sender = u
  /\ ram' = Erased(ram, m)
  /\ UNCHANGED <<stored, members>>

SetRow(m, row) ==
  LET s == ram.sessionOf[m] IN
  ram' = [ram EXCEPT !.im[s] = [i \in DOMAIN @ |-> IF @[i].id = m THEN row ELSE @[i]]]

\* Only the first mark counts, so the time of reading is left out.
MarkMessageRead(m) ==
  /\ Exists(m)
  /\ SetRow(m, [RowOf(m) EXCEPT !.read = TRUE])
  /\ UNCHANGED <<stored, members>>

\* ApplyEdit: the window runs from the last edit; the first one has none.
EditAllowedAnyOrder(row, t) ==
  /\ row.edits < MaxEdits
  /\ row.edits > 0 => t - row.editedAt <= EditWindow
EditAllowed(row, t) ==
  /\ row.edits < MaxEdits
  /\ row.edits > 0 => row.editedAt <= t /\ t - row.editedAt <= EditWindow

EditMessage(u, m, t) ==
  /\ Exists(m)
  /\ RowOf(m).sender = u
  /\ EditAllowed(RowOf(m), t)
  /\ SetRow(m, [RowOf(m) EXCEPT !.edits = @ + 1, !.editedAt = t,
                                !.firstAt = IF RowOf(m).edits = 0 THEN t ELSE @])
  /\ UNCHANGED <<stored, members>>

\* MM2 checks what is replied to; who sent the reply itself is checked in
\* groups only, as a member.
ReplyAllowedAcross(m, to, sender) ==
  /\ Exists(m) /\ Exists(to)
  /\ RowOf(to).sender = sender
ReplyAllowed(m, to, sender) ==
  /\ Exists(m) /\ Exists(to)
  /\ ram.sessionOf[m] = ram.sessionOf[to]
  /\ RowOf(to).sender = sender
  /\ LET s == ram.sessionOf[m]
         isGroup == \E x \in members : x[1] = s
     IN isGroup => {<<s, RowOf(m).sender>>, <<s, sender>>} \subseteq members

StoreMessageReplyRelation(m, to, sender) ==
  /\ ReplyAllowed(m, to, sender)
  /\ ram' = [ram EXCEPT !.replies[m] = [to |-> to, sender |-> sender]]
  /\ UNCHANGED <<stored, members>>

CleanupSessionMessages(s) ==
  /\ ram' = Cleared(ram, s)
  /\ UNCHANGED <<stored, members>>

\* Cleanup and Initialize: messages are not kept on disk.
Restart ==
  /\ ram' = Empty
  /\ UNCHANGED <<stored, members>>

\* The groups are kept elsewhere.
ChangeMembers ==
  /\ \E g \in Groups, u \in Users :
       members' = IF <<g, u>> \in members THEN members \ {<<g, u>>}
                  ELSE members \cup {<<g, u>>}
  /\ UNCHANGED <<ram, stored>>

MessagesNext ==
  \/ \E s \in Sessions, u \in Users :
       \/ StoreMessage(s, u)
       \/ \E n \in 1..MaxBatch : StoreMessages(s, u, n)
  \/ \E u \in Users, m \in MsgIds :
       \/ RecallMessage(u, m)
       \/ \E t \in Times : EditMessage(u, m, t)
       \/ \E to \in MsgIds : StoreMessageReplyRelation(m, to, u)
  \/ \E m \in MsgIds : MarkMessageRead(m)
  \/ \E s \in Sessions : CleanupSessionMessages(s)
  \/ Restart
  \/ ChangeMembers

MessagesSpec == MessagesInit /\ [][MessagesNext]_messageVars

-----------------------------------------------------------------------------
(* Properties.                                                             *)

\* The index and the lists agree: a message is in one list, once, and the
\* index names that list; deletions, batches that fail half-way and cleared
\* sessions leave no entry behind.
IndexMatches ==
  /\ \A m \in MsgIds, s \in Sessions : m \in Ids(ram.im[s]) <=> ram.sessionOf[m] = s
  /\ \A s \in Sessions : \A i, k \in DOMAIN ram.im[s] :
       i < k => ram.im[s][i].id < ram.im[s][k].id

TablesAgree == TypeOK /\ IndexMatches

\* A reply belongs to a message that is there; as long as the message it
\* answers is there too, both are in one session and the sender it names is
\* the sender of that message.
RepliesSound == \A m \in MsgIds :
  LET reply == ram.replies[m] IN
  reply # None =>
    /\ Exists(m)
    /\ Exists(reply.to) =>
         /\ ram.sessionOf[reply.to] = ram.sessionOf[m]
         /\ RowOf(reply.to).sender = reply.sender

\* The edits of a message lie close together: however the sender chooses
\* the timestamps, the last is at most EditWindow after the first for each
\* further edit, and never before it.
EditSpan == \A m \in MsgIds : Exists(m) =>
  LET row == RowOf(m) IN
  row.edits > 0 =>
    /\ row.firstAt <= row.editedAt
    /\ row.editedAt - row.firstAt <= (row.edits - 1) * EditWindow

\* Reading a session page by page, from the first page on and after the last
\* id of each page, gives every message once and in order.
Pages(c, n) ==
  LET read[i \in 0..Len(c)] ==
        IF i = 0 THEN FirstN(c, n)
        ELSE read[i - 1] \o (IF read[i - 1] = <<>> THEN <<>>
                             ELSE After(c, read[i - 1][Len(read[i - 1])].id, n))
  IN read[Len(c)]
PagesCover == \A s \in Sessions : \A n \in 1..2 : Pages(ram.im[s], n) = ram.im[s]

=============================================================================

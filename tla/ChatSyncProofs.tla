--------------------------- MODULE ChatSyncProofs ---------------------------
(***************************************************************************)
(* Proofs about ChatSync, for any workers, limits and page sizes.  A sync  *)
(* is never done with an answer before all of it is in the database,       *)
(* because what it still owes is in the rows or in the rest of its page.   *)
(***************************************************************************)
EXTENDS ChatSync, FiniteSetTheorems, SequenceTheorems, TLAPS

-----------------------------------------------------------------------------
(* Lists of messages.                                                      *)

LEMMA Cuts ==
  ASSUME NEW S, NEW s \in Seq(S), NEW m \in Nat \ {0}, NEW n \in Nat, n <= Len(s)
  PROVE  SubSeq(s, m, n) \in Seq(S)
<1>1. m \in Int /\ n \in Int /\ \A i \in m..n : s[i] \in S
  OBVIOUS
<1> QED
  BY <1>1, SubSeqProperties

LEMMA PlaceOf ==
  ASSUME NEW S, NEW c \in Seq(S), NEW id, id \in Ids(c)
  PROVE  At(c, id) \in 1..Len(c)
<1>1. \E i \in DOMAIN c : c[i].id = id
  BY DEF Ids
<1>2. At(c, id) \in DOMAIN c
  BY <1>1 DEF At
<1> QED
  BY <1>2

LEMMA WithoutType ==
  ASSUME NEW S, NEW c \in Seq(S), NEW id
  PROVE  Without(c, id) \in Seq(S)
<1>1. CASE id \notin Ids(c)
  BY <1>1 DEF Without
<1>2. CASE id \in Ids(c)
  <2> DEFINE a == At(c, id)
  <2>1. a \in 1..Len(c) /\ Len(c) \in Nat
    BY <1>2, PlaceOf
  <2> HIDE DEF a
  <2>2. /\ 1 \in Nat \ {0} /\ a - 1 \in Nat /\ a - 1 <= Len(c)
        /\ a + 1 \in Nat \ {0} /\ Len(c) <= Len(c)
    BY <2>1
  <2>3. SubSeq(c, 1, a - 1) \in Seq(S) /\ SubSeq(c, a + 1, Len(c)) \in Seq(S)
    BY <2>1, <2>2, Cuts
  <2>4. Without(c, id) = SubSeq(c, 1, a - 1) \o SubSeq(c, a + 1, Len(c))
    BY <1>2 DEF Without, a
  <2> QED
    BY <2>3, <2>4, ConcatProperties
<1> QED
  BY <1>1, <1>2

\* An answer is a part of the list.
LEMMA AnswerType ==
  ASSUME chain \in Seq(Message), NEW cursor
  PROVE  Answer(cursor) \in Seq(Message)
<1>1. Window \in Nat \ {0} /\ Page \in Nat \ {0} /\ Fit \in Nat \ {0}
  BY LimitsAssumption
<1>2. ASSUME NEW c \in Seq(Message)
      PROVE  Fitting(c) \in Seq(Message)
  <2>1. CASE Len(c) > Fit
    BY <1>1, <2>1, Cuts DEF Fitting
  <2>2. CASE ~(Len(c) > Fit)
    BY <1>1, <2>2, Cuts DEF Fitting
  <2> QED
    BY <2>1, <2>2
<1>3. LastN(chain, Window) \in Seq(Message)
  <2>1. CASE Len(chain) > Window
    <3>1. Len(chain) - Window + 1 \in Nat \ {0} /\ Len(chain) \in Nat
      BY <1>1, <2>1
    <3> QED
      BY <2>1, <3>1, Cuts DEF LastN
  <2>2. CASE ~(Len(chain) > Window)
    <3>1. 0 + 1 \in Nat \ {0} /\ Len(chain) \in Nat
      OBVIOUS
    <3> QED
      BY <2>2, <3>1, Cuts DEF LastN
  <2> QED
    BY <2>1, <2>2
<1>4. After(chain, cursor, Page) \in Seq(Message)
  <2>1. CASE cursor \notin Ids(chain)
    BY <2>1 DEF After
  <2>2. CASE cursor \in Ids(chain)
    <3> DEFINE a == At(chain, cursor)
    <3>1. a \in 1..Len(chain) /\ Len(chain) \in Nat
      BY <2>2, PlaceOf
    <3>2. After(chain, cursor, Page)
            = SubSeq(chain, a + 1, IF a + Page > Len(chain) THEN Len(chain) ELSE a + Page)
      BY <2>2 DEF After
    <3> HIDE DEF a
    <3>3. a + 1 \in Nat \ {0} /\ a + Page \in Nat
      BY <1>1, <3>1
    <3>4. CASE a + Page > Len(chain)
      BY <3>1, <3>2, <3>3, <3>4, Cuts
    <3>5. CASE ~(a + Page > Len(chain))
      <4>1. a + Page <= Len(chain)
        BY <3>1, <3>3, <3>5
      <4> QED
        BY <3>2, <3>3, <3>5, <4>1, Cuts
    <3> QED
      BY <3>4, <3>5
  <2> QED
    BY <2>1, <2>2
<1> QED
  BY <1>2, <1>3, <1>4 DEF Answer

\* Chat messages of a page: the first one and those of the rest.
LEMMA ChatHead ==
  ASSUME NEW c \in Seq(Message), c # <<>>
  PROVE  /\ Head(c) \in Message /\ Tail(c) \in Seq(Message)
         /\ ChatIds(c) \subseteq ChatIds(Tail(c)) \cup
              (IF Head(c).chat THEN {Head(c).id} ELSE {})
<1>1. /\ Head(c) \in Message /\ Head(c) = c[1] /\ Tail(c) \in Seq(Message)
      /\ Len(Tail(c)) = Len(c) - 1 /\ Len(c) \in Nat /\ Len(c) > 0
      /\ \A i \in 1..Len(Tail(c)) : Tail(c)[i] = c[i + 1]
  BY HeadTailProperties
<1>2. ASSUME NEW i \in DOMAIN c, c[i].chat
      PROVE  c[i].id \in ChatIds(Tail(c)) \cup (IF Head(c).chat THEN {Head(c).id} ELSE {})
  <2>1. CASE i = 1
    BY <1>1, <1>2, <2>1
  <2>2. CASE i # 1
    <3>1. i - 1 \in DOMAIN Tail(c) /\ Tail(c)[i - 1] = c[i]
      BY <1>1, <2>2
    <3>2. c[i] \in Range(Tail(c))
      BY <3>1 DEF Range
    <3> QED
      BY <1>2, <3>2 DEF ChatIds
  <2> QED
    BY <2>1, <2>2
<1> QED
  BY <1>1, <1>2 DEF ChatIds, Range

LEMMA ChatNone == ChatIds(<<>>) = {}
BY DEF ChatIds, Range

LEMMA ChatType ==
  ASSUME NEW c \in Seq(Message)
  PROVE  ChatIds(c) \in SUBSET MsgIds
<1>1. \A i \in DOMAIN c : c[i] \in Message
  OBVIOUS
<1>2. \A m \in Message : m.id \in MsgIds
  BY DEF Message
<1> QED
  BY <1>1, <1>2 DEF ChatIds, Range

-----------------------------------------------------------------------------
(* The invariant.                                                          *)

\* A sync owes nothing before it has an answer, and then nothing but what is
\* in the database or still to be inserted.
Tidy(j, R) ==
  \/ j = Idle
  \/ j \in Sending
  \/ /\ j \in Sync
     /\ j.at \in {"ask", "wait"} => j.page = <<>> /\ j.owed = {}
     /\ j.at \in {"ingest", "count"} => j.owed \subseteq R \cup ChatIds(j.page)
     /\ j.at = "ingest" => j.page # <<>>

Jobs == \A w \in Workers : Tidy(job[w], Ids(rows))

IInv ==
  /\ TypeOK
  /\ logs <= upsets
  /\ OneRowEach
  /\ Jobs

LEMMA SyncFields ==
  ASSUME NEW j \in Sync
  PROVE  /\ j.at \in {"ask", "wait", "ingest", "count"}
         /\ j.phase \in {"head", "gap", "tail"} /\ j.round \in 1..Rounds
         /\ j.page \in Seq(Message) /\ j.was \in Nat /\ j.owed \in SUBSET MsgIds
         /\ j.news \in BOOLEAN /\ j.full \in BOOLEAN /\ j.seen \in BOOLEAN
         /\ j.cursor \in {Initial} \cup MsgIds \cup LogIds
         /\ j # Idle /\ j \notin Sending
BY DEF Sync, Idle, Sending

\* Where a worker stands decides what its job is.
LEMMA JobKinds ==
  ASSUME IInv, NEW w \in Workers
  PROVE  /\ Tidy(job[w], Ids(rows)) /\ job[w] \in {Idle} \cup Sending \cup Sync
         /\ job[w].at \in {"ask", "wait", "ingest", "count"} => job[w] \in Sync
         /\ job[w].at = "send" => job[w] \in Sending
         /\ job[w].at = "idle" => job[w] = Idle
<1>1. Tidy(job[w], Ids(rows)) /\ job[w] \in {Idle} \cup Sending \cup Sync
  BY DEF IInv, Jobs, TypeOK
<1>2. CASE job[w] = Idle
  BY <1>1, <1>2 DEF Idle
<1>3. CASE job[w] \in Sending
  BY <1>1, <1>3 DEF Sending
<1>4. CASE job[w] \in Sync
  BY <1>1, <1>4, SyncFields
<1> QED
  BY <1>1, <1>2, <1>3, <1>4

\* What is owed of rows that are inserted stays owed or is paid.
LEMMA MoreRows ==
  ASSUME NEW j, NEW R, NEW Q, Tidy(j, R), R \subseteq Q
  PROVE  Tidy(j, Q)
BY DEF Tidy

\* The sync goes on to its next round or phase, or is over.
LEMMA Goes ==
  ASSUME NEW j \in Sync
  PROVE  \/ PageDone(j) = Idle
         \/ /\ PageDone(j) \in Sync /\ PageDone(j).at = "ask"
            /\ PageDone(j).page = j.page /\ PageDone(j).owed = j.owed
<1>1. \/ NextPhase(j) = Idle
      \/ /\ NextPhase(j) \in Sync /\ NextPhase(j).at = "ask"
         /\ NextPhase(j).page = j.page /\ NextPhase(j).owed = j.owed
  <2>0. j.phase \in {"head", "gap", "tail"}
    BY SyncFields
  <2>1. CASE j.phase = "head"
    BY <2>1 DEF NextPhase, Sync
  <2>2. CASE j.phase = "gap"
    <3>1. NextPhase(j) = [j EXCEPT !.at = "ask", !.phase = "tail", !.round = 1]
      BY <2>2 DEF NextPhase
    <3>2. 1 \in 1..Rounds
      BY LimitsAssumption
    <3> QED
      BY <3>1, <3>2 DEF Sync
  <2>3. CASE j.phase = "tail"
    BY <2>3 DEF NextPhase
  <2> QED
    BY <2>0, <2>1, <2>2, <2>3
<1>2. CASE j.phase # "head" /\ j.full /\ j.news /\ j.round < Rounds
  <2>1. j.round + 1 \in 1..Rounds
    BY <1>2, SyncFields, LimitsAssumption
  <2>2. PageDone(j) = [j EXCEPT !.at = "ask", !.round = @ + 1]
    BY <1>2 DEF PageDone
  <2> QED
    BY <2>1, <2>2 DEF Sync
<1>3. CASE ~(j.phase # "head" /\ j.full /\ j.news /\ j.round < Rounds)
  BY <1>1, <1>3 DEF PageDone
<1> QED
  BY <1>2, <1>3

\* Settling with a page leaves the page and what is owed; without one
\* nothing is owed any more.
LEMMA Settled ==
  ASSUME NEW j \in Sync
  PROVE  /\ j.page # <<>> =>
              /\ Settle(j) \in Sync /\ Settle(j).at = "ingest"
              /\ Settle(j).page = j.page /\ Settle(j).owed = j.owed
         /\ j.page = <<>> =>
              \/ Settle(j) = Idle
              \/ /\ Settle(j) \in Sync /\ Settle(j).at = "ask"
                 /\ Settle(j).page = <<>> /\ Settle(j).owed = {}
<1>1. CASE j.page # <<>>
  BY <1>1 DEF Settle, Sync
<1>2. CASE j.page = <<>>
  <2> DEFINE d == PageDone(j)
  <2>1. Settle(j) = IF d = Idle THEN Idle
                    ELSE [d EXCEPT !.full = FALSE, !.news = FALSE, !.seen = FALSE, !.owed = {}]
    BY <1>2 DEF Settle, Unwound
  <2>2. d = Idle \/ (d \in Sync /\ d.at = "ask" /\ d.page = <<>>)
    BY <1>2, Goes
  <2> HIDE DEF d
  <2>3. CASE d = Idle
    BY <1>2, <2>1, <2>3
  <2>4. CASE d # Idle /\ d \in Sync /\ d.at = "ask" /\ d.page = <<>>
    <3> DEFINE e == [d EXCEPT !.full = FALSE, !.news = FALSE, !.seen = FALSE, !.owed = {}]
    <3>1. e \in Sync /\ e.at = "ask" /\ e.page = <<>> /\ e.owed = {}
      BY <2>4 DEF Sync
    <3>2. Settle(j) = e
      BY <2>1, <2>4
    <3> QED
      BY <1>2, <3>1, <3>2
  <2> QED
    BY <2>2, <2>3, <2>4
<1> QED
  BY <1>1, <1>2

LEMMA SettledTidy ==
  ASSUME NEW j \in Sync, NEW R, j.owed \subseteq R \cup ChatIds(j.page)
  PROVE  Tidy(Settle(j), R) /\ Settle(j) \in {Idle} \cup Sending \cup Sync
BY Settled DEF Tidy

LEMMA Init_IInv == Init => IInv
<1> SUFFICES ASSUME Init PROVE IInv
  OBVIOUS
<1>1. TypeOK /\ logs <= upsets
  <2>1. /\ chain \in Seq(Message) /\ rows \in Seq(Row)
        /\ job \in [Workers -> {Idle} \cup Sending \cup Sync]
    BY DEF Init
  <2>2. MaxMsgs \in Nat /\ MaxUpsets \in Nat
    BY LimitsAssumption
  <2>3. /\ stored \in 0..MaxMsgs /\ logs \in 0..MaxUpsets /\ upsets \in 0..MaxUpsets
        /\ logs <= upsets
    BY <2>2 DEF Init
  <2> QED
    BY <2>1, <2>3 DEF Init, TypeOK
<1>2. OneRowEach
  BY DEF Init, OneRowEach
<1>3. Jobs
  BY DEF Init, Jobs, Tidy
<1> QED
  BY <1>1, <1>2, <1>3 DEF IInv

-----------------------------------------------------------------------------
(* The steps.                                                              *)

\* Nobody who owed something is done with it but for what is in the rows.
Paid == \A w \in Workers : Owed(w) \ Owed(w)' \subseteq Ids(rows')

\* Rows: an id that is absent gets one more.
LEMMA Inserted ==
  ASSUME IInv, NEW id \in MsgIds \cup LogIds, NEW mine \in BOOLEAN,
         InsertIfAbsent(id, mine)
  PROVE  /\ rows' \in Seq(Row) /\ OneRowEach'
         /\ Ids(rows') = Ids(rows) \cup {id}
<1>1. rows \in Seq(Row) /\ OneRowEach
  BY DEF IInv, TypeOK
<1>2. CASE id \in Ids(rows)
  BY <1>1, <1>2 DEF InsertIfAbsent, OneRowEach
<1>3. CASE id \notin Ids(rows)
  <2> DEFINE row == [id |-> id, mine |-> mine]
  <2>1. row \in Row /\ row.id = id
    BY DEF Row
  <2>2. rows' = Append(rows, row)
    BY <1>3 DEF InsertIfAbsent
  <2> HIDE DEF row
  <2>3. /\ rows' \in Seq(Row) /\ Len(rows) \in Nat
        /\ DOMAIN rows' = 1..(Len(rows) + 1) /\ DOMAIN rows = 1..Len(rows)
        /\ \A i \in DOMAIN rows : rows'[i] = rows[i]
        /\ rows'[Len(rows) + 1] = row
    BY <1>1, <2>1, <2>2
  <2>4. \A i \in DOMAIN rows : rows[i].id # id
    BY <1>3 DEF Ids
  <2>5. OneRowEach'
    BY <1>1, <2>1, <2>3, <2>4 DEF OneRowEach
  <2>6. Ids(rows') = Ids(rows) \cup {id}
    BY <2>1, <2>3 DEF Ids
  <2> QED
    BY <2>3, <2>5, <2>6
<1> QED
  BY <1>2, <1>3

\* A step of one worker that inserts rows or none.
LEMMA WorkerKeeps ==
  ASSUME IInv, NEW w \in Workers, NEW j,
         SetJob(w, j), j \in {Idle} \cup Sending \cup Sync, Tidy(j, Ids(rows')),
         Ids(rows) \subseteq Ids(rows')
  PROVE  /\ job' \in [Workers -> {Idle} \cup Sending \cup Sync] /\ Jobs'
         /\ job'[w] = j /\ \A v \in Workers : v # w => job'[v] = job[v]
<1>1. job \in [Workers -> {Idle} \cup Sending \cup Sync] /\ Jobs
  BY DEF IInv, TypeOK
<1>2. /\ job' \in [Workers -> {Idle} \cup Sending \cup Sync]
      /\ job'[w] = j /\ \A v \in Workers : v # w => job'[v] = job[v]
  BY <1>1 DEF SetJob
<1>3. Jobs'
  BY <1>1, <1>2, MoreRows DEF Jobs
<1> QED
  BY <1>2, <1>3

\* The others owe what they did; w pays what it does not owe any longer.
LEMMA WorkerPays ==
  ASSUME NEW w \in Workers, Owed(w) \ Owed(w)' \subseteq Ids(rows'),
         \A v \in Workers : v # w => job'[v] = job[v]
  PROVE  Paid
BY DEF Paid, Owed

\* A worker that owes nothing.
LEMMA OwesNothing ==
  ASSUME IInv, NEW w \in Workers, job[w].at \in {"idle", "send", "ask", "wait"}
  PROVE  Owed(w) = {}
<1>1. CASE job[w].at \in {"idle", "send"}
  BY <1>1 DEF Owed
<1>2. CASE job[w].at \in {"ask", "wait"}
  <2>1. job[w] \in Sync /\ Tidy(job[w], Ids(rows))
    BY <1>2, JobKinds
  <2> QED
    BY <1>2, <2>1, SyncFields DEF Tidy, Owed
<1> QED
  BY <1>1, <1>2

\* What Settle drops is in the rows.
LEMMA SettledPays ==
  ASSUME IInv, NEW w \in Workers, NEW j \in Sync, NEW R,
         SetJob(w, Settle(j)), Owed(w) \subseteq j.owed,
         j.owed \subseteq R \cup ChatIds(j.page), R \subseteq Ids(rows')
  PROVE  Owed(w) \ Owed(w)' \subseteq Ids(rows')
<1>1. job'[w] = Settle(j)
  BY DEF IInv, TypeOK, SetJob
<1>2. CASE j.page # <<>>
  <2>1. Settle(j).at = "ingest" /\ Settle(j).owed = j.owed
    BY <1>2, Settled
  <2>2. Owed(w)' = j.owed
    BY <1>1, <2>1 DEF Owed
  <2> QED
    BY <2>2
<1>3. CASE j.page = <<>>
  BY <1>3, ChatNone
<1> QED
  BY <1>2, <1>3

LEMMA SameRest ==
  ASSUME IInv, UNCHANGED <<server, logs, conv, active, upsets>>,
         unread' \in Nat, arrived' \in Nat, rows' \in Seq(Row), OneRowEach',
         job' \in [Workers -> {Idle} \cup Sending \cup Sync], Jobs'
  PROVE  IInv'
BY DEF IInv, TypeOK, server

LEMMA StartStep ==
  ASSUME IInv, NEW w \in Workers, NEW head \in BOOLEAN, StartSync(w, head)
  PROVE  IInv' /\ Paid
<1> DEFINE j == Begin(IF head THEN "head" ELSE "gap")
<1>1. j \in Sync /\ j.at = "ask" /\ j.page = <<>> /\ j.owed = {}
  <2>1. 1 \in 1..Rounds
    BY LimitsAssumption
  <2> QED
    BY <2>1 DEF Begin, Sync, Initial
<1>2. SetJob(w, j) /\ job[w] = Idle /\ UNCHANGED <<server, device, upsets>>
  BY DEF StartSync
<1> HIDE DEF j
<1>3. rows' = rows /\ UNCHANGED <<server, logs, conv, unread, active, arrived, upsets>>
  BY <1>2 DEF device
<1>4. Tidy(j, Ids(rows')) /\ j \in {Idle} \cup Sending \cup Sync
  BY <1>1 DEF Tidy
<1>5. /\ job' \in [Workers -> {Idle} \cup Sending \cup Sync] /\ Jobs'
      /\ \A v \in Workers : v # w => job'[v] = job[v]
  BY <1>2, <1>3, <1>4, WorkerKeeps
<1>6. Owed(w) = {}
  BY <1>2, OwesNothing DEF Idle
<1>7. IInv'
  BY <1>3, <1>5, SameRest DEF IInv, TypeOK, OneRowEach
<1> QED
  BY <1>5, <1>6, <1>7, WorkerPays

LEMMA AskStep ==
  ASSUME IInv, NEW w \in Workers, Ask(w)
  PROVE  IInv' /\ Paid
<1> DEFINE j == job[w]
           next == [j EXCEPT !.at = "wait", !.cursor = Cursor(j.phase)]
<1>1. /\ j \in Sync /\ j.at = "ask" /\ j.page = <<>> /\ j.owed = {}
      /\ UNCHANGED <<server, device, upsets>>
  BY JobKinds, SyncFields DEF Ask, Tidy, Idle, Sending
<1>2. rows' = rows /\ UNCHANGED <<server, logs, conv, unread, active, arrived, upsets>>
  BY <1>1 DEF device
<1>3. rows \in Seq(Row)
  BY DEF IInv, TypeOK
<1>4. Cursor(j.phase) \in {Initial} \cup MsgIds \cup LogIds
  <2>1. CASE rows = <<>> \/ j.phase = "head"
    BY <2>1 DEF Cursor
  <2>2. CASE rows # <<>> /\ j.phase # "head"
    <3>1. rows[1] \in Row /\ rows[Len(rows)] \in Row
      BY <1>3, <2>2
    <3>2. rows[1].id \in MsgIds \cup LogIds /\ rows[Len(rows)].id \in MsgIds \cup LogIds
      BY <3>1 DEF Row
    <3> QED
      BY <2>2, <3>2 DEF Cursor
  <2> QED
    BY <2>1, <2>2
<1>5. next \in Sync /\ next.at = "wait" /\ next.page = <<>> /\ next.owed = {}
  BY <1>1, <1>4 DEF Sync
<1> HIDE DEF next
<1>6. PICK n \in Sync : SetJob(w, n) /\ n.at \in {"ask", "wait"} /\ n.page = <<>> /\ n.owed = {}
  <2>1. CASE j.phase = "gap" /\ rows = <<>>
    <3>1. /\ NextPhase(j) = [j EXCEPT !.at = "ask", !.phase = "tail", !.round = 1]
          /\ SetJob(w, NextPhase(j))
      BY <2>1 DEF Ask, NextPhase
    <3>2. 1 \in 1..Rounds
      BY LimitsAssumption
    <3>3. /\ NextPhase(j) \in Sync /\ NextPhase(j).at = "ask"
          /\ NextPhase(j).page = <<>> /\ NextPhase(j).owed = {}
      BY <1>1, <3>1, <3>2 DEF Sync
    <3> QED
      BY <3>1, <3>3
  <2>2. CASE ~(j.phase = "gap" /\ rows = <<>>)
    <3>1. SetJob(w, next)
      BY <2>2 DEF Ask, next
    <3> QED
      BY <1>5, <3>1
  <2> QED
    BY <2>1, <2>2
<1>7. Tidy(n, Ids(rows')) /\ n \in {Idle} \cup Sending \cup Sync
  BY <1>6 DEF Tidy
<1>8. /\ job' \in [Workers -> {Idle} \cup Sending \cup Sync] /\ Jobs'
       /\ \A v \in Workers : v # w => job'[v] = job[v]
  BY <1>2, <1>6, <1>7, WorkerKeeps
<1>9. Owed(w) = {}
  BY <1>1, OwesNothing
<1>10. IInv'
  BY <1>2, <1>8, SameRest DEF IInv, TypeOK, OneRowEach
<1> QED
  BY <1>8, <1>9, <1>10, WorkerPays

LEMMA AnsweredStep ==
  ASSUME IInv, NEW w \in Workers, Answered(w)
  PROVE  IInv' /\ Paid
<1> DEFINE j == job[w]
           page == Answer(j.cursor)
           n == [j EXCEPT !.cursor = Initial, !.page = page, !.full = Len(page) >= Page,
                          !.seen = active, !.owed = ChatIds(page)]
<1>1. /\ j \in Sync /\ j.at = "wait" /\ SetJob(w, Settle(n))
      /\ UNCHANGED <<server, device, upsets>>
  BY JobKinds DEF Answered
<1>2. rows' = rows /\ UNCHANGED <<server, logs, conv, unread, active, arrived, upsets>>
  BY <1>1 DEF device
<1>3. page \in Seq(Message) /\ ChatIds(page) \in SUBSET MsgIds
  BY AnswerType, ChatType DEF IInv, TypeOK
<1>4. active \in BOOLEAN /\ (Len(page) >= Page) \in BOOLEAN
  BY DEF IInv, TypeOK
<1> HIDE DEF page
<1>5. n \in Sync /\ n.page = page /\ n.owed = ChatIds(page)
  BY <1>1, <1>3, <1>4 DEF Sync
<1> HIDE DEF n
<1>6. Tidy(Settle(n), Ids(rows')) /\ Settle(n) \in {Idle} \cup Sending \cup Sync
  BY <1>5, SettledTidy
<1>7. /\ job' \in [Workers -> {Idle} \cup Sending \cup Sync] /\ Jobs'
      /\ \A v \in Workers : v # w => job'[v] = job[v]
  BY <1>1, <1>2, <1>6, WorkerKeeps
<1>8. Owed(w) = {}
  BY <1>1, OwesNothing
<1>9. IInv'
  BY <1>2, <1>7, SameRest DEF IInv, TypeOK, OneRowEach
<1> QED
  BY <1>7, <1>8, <1>9, WorkerPays

LEMMA IngestStep ==
  ASSUME IInv, NEW w \in Workers, IngestRow(w)
  PROVE  IInv' /\ Paid
<1> DEFINE j == job[w]
           m == Head(j.page)
           rest == [j EXCEPT !.page = Tail(@), !.news = @ \/ New(m)]
           counts == New(m) /\ ~m.mine /\ ~j.seen /\ conv = "shown"
           pause == [rest EXCEPT !.at = "count", !.was = unread]
<1>1. /\ j \in Sync /\ j.at = "ingest" /\ j.page # <<>>
      /\ j.owed \subseteq Ids(rows) \cup ChatIds(j.page)
  BY JobKinds, SyncFields DEF IngestRow, Tidy, Idle, Sending
<1>2. /\ SetJob(w, IF counts THEN pause ELSE Settle(rest))
      /\ IF m.chat THEN InsertIfAbsent(m.id, m.mine) ELSE UNCHANGED rows
      /\ arrived' = IF m.id \notin Ids(rows) /\ m.chat /\ ~m.mine THEN arrived + 1 ELSE arrived
      /\ UNCHANGED <<server, logs, conv, unread, active, upsets>>
  BY DEF IngestRow
<1>3. j.page \in Seq(Message) /\ j.news \in BOOLEAN
  BY <1>1, SyncFields
<1>4. /\ m \in Message /\ Tail(j.page) \in Seq(Message)
      /\ ChatIds(j.page) \subseteq ChatIds(Tail(j.page)) \cup
           (IF m.chat THEN {m.id} ELSE {})
  BY <1>1, <1>3, ChatHead
<1>5. m.id \in MsgIds \cup LogIds /\ m.mine \in BOOLEAN /\ m.chat \in BOOLEAN
  BY <1>4 DEF Message
<1>6. New(m) \in BOOLEAN
  BY <1>5 DEF New
<1>7. unread \in Nat /\ arrived \in Nat
  BY DEF IInv, TypeOK
<1>8. /\ rows' \in Seq(Row) /\ OneRowEach'
      /\ Ids(rows') = Ids(rows) \cup (IF m.chat THEN {m.id} ELSE {})
  <2>1. CASE m.chat
    <3>1. InsertIfAbsent(m.id, m.mine)
      BY <1>2, <2>1
    <3> HIDE DEF m
    <3> QED
      BY <1>5, <2>1, <3>1, Inserted
  <2>2. CASE ~m.chat
    BY <1>2, <2>2 DEF IInv, TypeOK, OneRowEach
  <2> QED
    BY <2>1, <2>2
<1>9. /\ rest \in Sync /\ rest.page = Tail(j.page) /\ rest.owed = j.owed
      /\ rest.at = "ingest"
  <2>1. (j.news \/ New(m)) \in BOOLEAN
    BY <1>3, <1>6
  <2> HIDE DEF m
  <2> QED
    BY <1>1, <1>4, <2>1 DEF Sync
<1> HIDE DEF m, rest
<1>10. /\ pause \in Sync /\ pause.at = "count" /\ pause.page = rest.page
       /\ pause.owed = rest.owed
  BY <1>7, <1>9 DEF Sync
<1>11. rest.owed \subseteq Ids(rows') \cup ChatIds(rest.page)
  BY <1>1, <1>4, <1>8, <1>9
<1> HIDE DEF pause, counts
<1>12. Owed(w) = j.owed
  BY <1>1 DEF Owed
<1>13. CASE counts
  <2>1. SetJob(w, pause)
    BY <1>2, <1>13
  <2>2. Tidy(pause, Ids(rows')) /\ pause \in {Idle} \cup Sending \cup Sync
    BY <1>10, <1>11 DEF Tidy
  <2>3. /\ job' \in [Workers -> {Idle} \cup Sending \cup Sync] /\ Jobs'
        /\ job'[w] = pause /\ \A v \in Workers : v # w => job'[v] = job[v]
    BY <1>8, <2>1, <2>2, WorkerKeeps
  <2>4. Owed(w)' = j.owed
    BY <1>9, <1>10, <2>3 DEF Owed
  <2>5. IInv'
    BY <1>2, <1>7, <1>8, <2>3, SameRest
  <2> QED
    BY <1>12, <2>3, <2>4, <2>5, WorkerPays
<1>14. CASE ~counts
  <2>1. SetJob(w, Settle(rest))
    BY <1>2, <1>14
  <2>2. Tidy(Settle(rest), Ids(rows')) /\ Settle(rest) \in {Idle} \cup Sending \cup Sync
    BY <1>9, <1>11, SettledTidy
  <2>3. /\ job' \in [Workers -> {Idle} \cup Sending \cup Sync] /\ Jobs'
        /\ \A v \in Workers : v # w => job'[v] = job[v]
    BY <1>8, <2>1, <2>2, WorkerKeeps
  <2>4. Owed(w) \ Owed(w)' \subseteq Ids(rows')
    BY <1>9, <1>11, <1>12, <2>1, SettledPays
  <2>5. IInv'
    BY <1>2, <1>7, <1>8, <2>3, SameRest
  <2> QED
    BY <2>3, <2>4, <2>5, WorkerPays
<1> QED
  BY <1>13, <1>14

LEMMA CountStep ==
  ASSUME IInv, NEW w \in Workers, Count(w)
  PROVE  IInv' /\ Paid
<1> DEFINE j == job[w]
           n == [j EXCEPT !.was = 0]
<1>1. /\ j \in Sync /\ j.at = "count" /\ j.owed \subseteq Ids(rows) \cup ChatIds(j.page)
  BY JobKinds, SyncFields DEF Count, Tidy, Idle, Sending
<1>2. /\ SetJob(w, Settle(n)) /\ unread' = j.was + 1
      /\ UNCHANGED <<server, rows, logs, conv, active, arrived, upsets>>
  BY DEF Count
<1>3. n \in Sync /\ n.page = j.page /\ n.owed = j.owed /\ j.was \in Nat
  BY <1>1 DEF Sync
<1> HIDE DEF n
<1>4. Tidy(Settle(n), Ids(rows')) /\ Settle(n) \in {Idle} \cup Sending \cup Sync
  BY <1>1, <1>2, <1>3, SettledTidy
<1>5. /\ job' \in [Workers -> {Idle} \cup Sending \cup Sync] /\ Jobs'
      /\ \A v \in Workers : v # w => job'[v] = job[v]
  BY <1>2, <1>4, WorkerKeeps
<1>6. Owed(w) = j.owed
  BY <1>1 DEF Owed
<1>7. Owed(w) \ Owed(w)' \subseteq Ids(rows')
  BY <1>1, <1>2, <1>3, <1>6, SettledPays
<1>8. IInv'
  BY <1>2, <1>3, <1>5, SameRest DEF IInv, TypeOK, OneRowEach
<1> QED
  BY <1>5, <1>7, <1>8, WorkerPays

\* A worker that owes nothing any longer, or nothing yet, becomes idle or sends.
LEMMA Leaves ==
  ASSUME IInv, NEW w \in Workers, NEW j \in {Idle} \cup Sending, SetJob(w, j),
         Ids(rows) \subseteq Ids(rows'),
         job[w].at \in {"idle", "send", "wait"}
  PROVE  /\ job' \in [Workers -> {Idle} \cup Sending \cup Sync] /\ Jobs'
         /\ Paid
<1>1. Tidy(j, Ids(rows')) /\ j \in {Idle} \cup Sending \cup Sync
  BY DEF Tidy
<1>2. /\ job' \in [Workers -> {Idle} \cup Sending \cup Sync] /\ Jobs'
      /\ \A v \in Workers : v # w => job'[v] = job[v]
  BY <1>1, WorkerKeeps
<1>3. Owed(w) = {}
  BY OwesNothing
<1> QED
  BY <1>2, <1>3, WorkerPays

LEMMA SendStep ==
  ASSUME IInv, NEW w \in Workers, Send(w)
  PROVE  IInv' /\ Paid
<1> DEFINE j == [at |-> "send", id |-> stored + 1]
<1>1. /\ job[w] = Idle /\ stored < MaxMsgs /\ stored' = stored + 1
      /\ chain' = Append(chain, [id |-> stored + 1, mine |-> TRUE, chat |-> TRUE])
      /\ UNCHANGED <<device, upsets>> /\ SetJob(w, j)
  BY DEF Send, StoreMessage
<1>2. stored \in 0..MaxMsgs /\ chain \in Seq(Message) /\ MaxMsgs \in Nat
  BY LimitsAssumption DEF IInv, TypeOK
<1>3. stored + 1 \in MsgIds /\ stored' \in 0..MaxMsgs
  BY <1>1, <1>2 DEF MsgIds
<1>4. [id |-> stored + 1, mine |-> TRUE, chat |-> TRUE] \in Message
  BY <1>3 DEF Message
<1>5. chain' \in Seq(Message)
  BY <1>1, <1>2, <1>4
<1>6. j \in {Idle} \cup Sending
  BY <1>3 DEF Sending
<1> HIDE DEF j
<1>7. rows' = rows /\ UNCHANGED <<logs, conv, unread, active, arrived, upsets>>
  BY <1>1 DEF device
<1>8. job' \in [Workers -> {Idle} \cup Sending \cup Sync] /\ Jobs' /\ Paid
  BY <1>1, <1>6, <1>7, Leaves DEF Idle
<1>9. TypeOK' /\ OneRowEach' /\ logs' <= upsets'
  BY <1>3, <1>5, <1>7, <1>8 DEF IInv, TypeOK, OneRowEach
<1> QED
  BY <1>8, <1>9 DEF IInv

LEMMA SentStep ==
  ASSUME IInv, NEW w \in Workers, Sent(w)
  PROVE  IInv' /\ Paid
<1>1. /\ job[w] \in Sending /\ job[w].at = "send" /\ InsertIfAbsent(job[w].id, TRUE)
      /\ SetJob(w, Idle)
      /\ UNCHANGED <<server, logs, conv, unread, active, arrived, upsets>>
  BY JobKinds DEF Sent
<1>2. job[w].id \in MsgIds \cup LogIds
  BY <1>1 DEF Sending
<1>3. /\ rows' \in Seq(Row) /\ OneRowEach'
      /\ Ids(rows') = Ids(rows) \cup {job[w].id}
  BY <1>1, <1>2, Inserted
<1>4. job' \in [Workers -> {Idle} \cup Sending \cup Sync] /\ Jobs' /\ Paid
  BY <1>1, <1>3, Leaves
<1> QED
  BY <1>1, <1>3, <1>4, SameRest DEF IInv, TypeOK

\* A failure or a kill: a worker stops where it was.
LEMMA FailedStep ==
  ASSUME IInv, NEW w \in Workers, SyncFailed(w) \/ SendFailed(w)
  PROVE  IInv' /\ (upsets' = upsets => Paid)
<1>1. /\ SetJob(w, Idle) /\ Upset /\ UNCHANGED <<server, device>>
      /\ job[w].at \in {"wait", "send"}
  BY DEF SyncFailed, SendFailed
<1>2. /\ rows' = rows /\ UNCHANGED <<server, logs, conv, unread, active, arrived>>
      /\ upsets' = upsets + 1 /\ upsets < MaxUpsets
      /\ upsets \in 0..MaxUpsets /\ logs \in 0..MaxUpsets /\ logs <= upsets
      /\ MaxUpsets \in Nat
  BY <1>1, LimitsAssumption DEF device, Upset, IInv, TypeOK
<1>3. job' \in [Workers -> {Idle} \cup Sending \cup Sync] /\ Jobs' /\ Paid
  BY <1>1, <1>2, Leaves
<1>4. upsets' \in 0..MaxUpsets /\ logs' <= upsets'
  BY <1>2
<1>5. TypeOK' /\ OneRowEach'
  BY <1>2, <1>3, <1>4 DEF IInv, TypeOK, OneRowEach, server
<1> QED
  BY <1>3, <1>4, <1>5 DEF IInv

\* What is forgotten with the rows is owed of the page only.
LEMMA ForgottenJobs ==
  ASSUME IInv, job' = Forgotten
  PROVE  job' \in [Workers -> {Idle} \cup Sending \cup Sync] /\ Jobs'
<1>1. ASSUME NEW w \in Workers
      PROVE  job'[w] \in {Idle} \cup Sending \cup Sync /\ Tidy(job'[w], Ids(rows'))
  <2>1. Tidy(job[w], Ids(rows)) /\ job[w] \in {Idle} \cup Sending \cup Sync
    BY JobKinds
  <2>2. CASE job[w].at \in {"idle", "send"}
    <3>1. job'[w] = job[w] /\ job[w] \in {Idle} \cup Sending
      BY <2>2, JobKinds DEF Forgotten
    <3> QED
      BY <3>1 DEF Tidy
  <2>3. CASE job[w].at \notin {"idle", "send"}
    <3> DEFINE j == job[w]
               n == [j EXCEPT !.owed = ChatIds(j.page)]
    <3>1. job'[w] = n
      BY <2>3 DEF Forgotten
    <3>2. j \in Sync
      BY <2>1, <2>3 DEF Idle, Sending
    <3>3. ChatIds(j.page) \in SUBSET MsgIds
      BY <3>2, SyncFields, ChatType
    <3>4. n \in Sync /\ n.at = j.at /\ n.page = j.page /\ n.owed = ChatIds(j.page)
      BY <3>2, <3>3 DEF Sync
    <3>5. /\ j.at \in {"ask", "wait"} => j.page = <<>>
          /\ j.at = "ingest" => j.page # <<>>
      BY <2>1, <3>2, SyncFields DEF Tidy
    <3> HIDE DEF n
    <3>6. Tidy(n, Ids(rows'))
      BY <3>4, <3>5, ChatNone DEF Tidy
    <3> QED
      BY <3>1, <3>4, <3>6
  <2> QED
    BY <2>2, <2>3
<1>2. job' = [w \in Workers |-> job'[w]]
  BY DEF Forgotten
<1> QED
  BY <1>1, <1>2 DEF Jobs

\* Steps of the server, of the user and of the system: upsets may go up,
\* and the jobs stay or are forgotten.
LEMMA OtherStep ==
  ASSUME IInv,
         chain' \in Seq(Message), stored' \in 0..MaxMsgs,
         rows' \in Seq(Row), OneRowEach',
         logs' \in 0..MaxUpsets, conv' \in {"none", "shown", "muted"},
         unread' \in Nat, active' \in BOOLEAN, arrived' \in Nat,
         upsets' \in 0..MaxUpsets, logs' <= upsets',
         \/ job' = job /\ Ids(rows) \subseteq Ids(rows')
         \/ job' = Forgotten /\ upsets' # upsets
         \/ job' = [w \in Workers |-> Idle] /\ upsets' # upsets
  PROVE  IInv' /\ (upsets' = upsets => Paid)
<1>1. job' \in [Workers -> {Idle} \cup Sending \cup Sync] /\ Jobs'
  <2>1. CASE job' = job /\ Ids(rows) \subseteq Ids(rows')
    BY <2>1, MoreRows DEF IInv, TypeOK, Jobs
  <2>2. CASE job' = Forgotten
    BY <2>2, ForgottenJobs
  <2>3. CASE job' = [w \in Workers |-> Idle]
    BY <2>3 DEF Jobs, Tidy
  <2> QED
    BY <2>1, <2>2, <2>3
<1>2. upsets' = upsets => Paid
  BY DEF Paid, Owed
<1> QED
  BY <1>1, <1>2 DEF IInv, TypeOK

LEMMA ReceiveStep ==
  ASSUME IInv, NEW chat \in BOOLEAN, Receive(chat)
  PROVE  IInv' /\ (upsets' = upsets => Paid)
<1>1. /\ stored < MaxMsgs /\ stored' = stored + 1
      /\ chain' = Append(chain, [id |-> stored + 1, mine |-> FALSE, chat |-> chat])
      /\ UNCHANGED <<rows, logs, conv, unread, active, arrived, job, upsets>>
  BY DEF Receive, StoreMessage, device
<1>2. stored \in 0..MaxMsgs /\ chain \in Seq(Message) /\ MaxMsgs \in Nat
  BY LimitsAssumption DEF IInv, TypeOK
<1>3. stored + 1 \in MsgIds /\ stored' \in 0..MaxMsgs
  BY <1>1, <1>2 DEF MsgIds
<1>4. [id |-> stored + 1, mine |-> FALSE, chat |-> chat] \in Message
  BY <1>3 DEF Message
<1>5. chain' \in Seq(Message)
  BY <1>1, <1>2, <1>4
<1> QED
  BY <1>1, <1>3, <1>5, OtherStep DEF IInv, TypeOK, OneRowEach

\* The count of upsets goes up and stays in its bound.
LEMMA Upsets ==
  ASSUME IInv, Upset
  PROVE  /\ upsets' \in 0..MaxUpsets /\ upsets' # upsets
         /\ logs <= upsets' /\ logs + 1 <= upsets'
         /\ logs \in Nat /\ logs + 1 \in 0..MaxUpsets
<1>1. /\ upsets \in 0..MaxUpsets /\ logs \in 0..MaxUpsets /\ logs <= upsets
      /\ MaxUpsets \in Nat /\ upsets < MaxUpsets /\ upsets' = upsets + 1
  BY LimitsAssumption DEF IInv, TypeOK, Upset
<1> QED
  BY <1>1

LEMMA ServerStep ==
  ASSUME IInv, RecallMessage \/ ServerRestart
  PROVE  IInv' /\ (upsets' = upsets => Paid)
<1>1. Upset /\ UNCHANGED <<stored, rows, logs, conv, unread, active, arrived, job>>
  BY DEF RecallMessage, ServerRestart, device
<1>2. chain \in Seq(Message)
  BY DEF IInv, TypeOK
<1>3. chain' \in Seq(Message)
  <2>1. CASE RecallMessage
    BY <1>2, <2>1, WithoutType DEF RecallMessage
  <2>2. CASE ServerRestart
    BY <2>2 DEF ServerRestart
  <2> QED
    BY <2>1, <2>2
<1> QED
  BY <1>1, <1>3, Upsets, OtherStep DEF IInv, TypeOK, OneRowEach

LEMMA CallLogStep ==
  ASSUME IInv, CallLog
  PROVE  IInv' /\ (upsets' = upsets => Paid)
<1>1. /\ Upset /\ logs' = logs + 1 /\ InsertIfAbsent(-(logs + 1), TRUE)
      /\ UNCHANGED <<chain, stored, conv, unread, active, arrived, job>>
  BY DEF CallLog, server
<1>2. -(logs + 1) \in MsgIds \cup LogIds
  <2>1. logs + 1 \in 1..MaxUpsets
    BY <1>1, Upsets
  <2> QED
    BY <2>1 DEF LogIds
<1>3. /\ rows' \in Seq(Row) /\ OneRowEach' /\ Ids(rows) \subseteq Ids(rows')
  BY <1>1, <1>2, Inserted
<1> QED
  BY <1>1, <1>3, Upsets, OtherStep DEF IInv, TypeOK

LEMMA UserStep ==
  ASSUME IInv, OpenChat \/ CloseChat \/ SetPeerMuted \/ AddSession
  PROVE  IInv' /\ (upsets' = upsets => Paid)
<1>1. /\ UNCHANGED <<chain, stored, rows, logs, arrived, job>>
      /\ upsets' = upsets \/ Upset
  BY DEF OpenChat, CloseChat, SetPeerMuted, AddSession, server
<1>2. unread' \in Nat /\ active' \in BOOLEAN /\ conv' \in {"none", "shown", "muted"}
  <2>0. unread \in Nat /\ active \in BOOLEAN /\ conv \in {"none", "shown", "muted"}
    BY DEF IInv, TypeOK
  <2>1. CASE OpenChat
    BY <2>0, <2>1 DEF OpenChat
  <2>2. CASE CloseChat
    BY <2>0, <2>2 DEF CloseChat
  <2>3. CASE SetPeerMuted
    BY <2>0, <2>3 DEF SetPeerMuted
  <2>4. CASE AddSession
    BY <2>0, <2>4 DEF AddSession
  <2> QED
    BY <2>1, <2>2, <2>3, <2>4
<1>3. upsets' \in 0..MaxUpsets /\ logs' <= upsets'
  BY <1>1, Upsets DEF IInv, TypeOK
<1> QED
  BY <1>1, <1>2, <1>3, OtherStep DEF IInv, TypeOK, OneRowEach

LEMMA DeleteStep ==
  ASSUME IInv, ClearHistory \/ RemoveSession
  PROVE  IInv' /\ (upsets' = upsets => Paid)
<1>1. /\ Upset /\ rows' = <<>> /\ job' = Forgotten
      /\ UNCHANGED <<chain, stored, logs, active, arrived>>
      /\ unread' \in Nat /\ conv' \in {"none", "shown", "muted"}
  BY DEF ClearHistory, RemoveSession, server, IInv, TypeOK
<1>2. rows' \in Seq(Row) /\ OneRowEach'
  BY <1>1 DEF OneRowEach
<1> QED
  BY <1>1, <1>2, Upsets, OtherStep DEF IInv, TypeOK

LEMMA KillStep ==
  ASSUME IInv, Kill
  PROVE  IInv' /\ (upsets' = upsets => Paid)
<1>1. /\ Upset /\ job' = [w \in Workers |-> Idle] /\ active' = FALSE
      /\ UNCHANGED <<chain, stored, rows, logs, conv, unread, arrived>>
  BY DEF Kill, server
<1> QED
  BY <1>1, Upsets, OtherStep DEF IInv, TypeOK, OneRowEach

LEMMA IInv_Next ==
  ASSUME IInv, [Next]_vars
  PROVE  IInv' /\ (upsets' = upsets => Paid)
<1>1. ASSUME NEW w \in Workers, Step(w)
      PROVE  IInv' /\ Paid
  BY <1>1, AskStep, AnsweredStep, IngestStep, CountStep, SentStep DEF Step
<1>2. CASE UNCHANGED vars
  <2>1. /\ UNCHANGED <<chain, stored, rows, logs, conv, unread, active, arrived>>
        /\ UNCHANGED <<job, upsets>>
    BY <1>2 DEF vars, server, device
  <2> QED
    BY <2>1, OtherStep DEF IInv, TypeOK, OneRowEach
<1>3. ASSUME NEW w \in Senders, Send(w)
      PROVE  IInv' /\ Paid
  BY <1>3, WorkersAssumption, SendStep
<1> QED
  BY <1>1, <1>2, <1>3, ReceiveStep, ServerStep, StartStep, FailedStep, CallLogStep,
     UserStep, DeleteStep, KillStep
  DEF Next, User

-----------------------------------------------------------------------------
(* The unread count.                                                       *)

Counting == {w \in Workers : job[w].at = "count"}

\* Whoever is about to write a count has read one that leaves room for the
\* rows of all who are: the count is not newer, but never too high.
CountInv ==
  /\ IsFiniteSet(Counting)
  /\ unread + Cardinality(Counting) <= arrived
  /\ \A w \in Counting : job[w].was + Cardinality(Counting) <= arrived

LEMMA CountTypes ==
  ASSUME IInv
  PROVE  /\ unread \in Nat /\ arrived \in Nat
         /\ \A w \in Counting : job[w] \in Sync /\ job[w].was \in Nat
<1>1. \A w \in Counting : job[w] \in Sync
  BY JobKinds DEF Counting
<1>2. \A j \in Sync : j.was \in Nat
  BY DEF Sync
<1> QED
  BY <1>1, <1>2 DEF IInv, TypeOK

\* Counts are only taken back or given up.
LEMMA NoneMore ==
  ASSUME IInv, IInv', CountInv,
         Counting' \in SUBSET Counting, \A w \in Counting' : job'[w].was = job[w].was,
         arrived <= arrived', unread' <= unread
  PROVE  CountInv'
<1>1. /\ IsFiniteSet(Counting) /\ IsFiniteSet(Counting')
      /\ Cardinality(Counting) \in Nat /\ Cardinality(Counting') \in Nat
      /\ Cardinality(Counting') <= Cardinality(Counting)
  BY FS_Subset, FS_CardinalityType DEF CountInv
<1>2. unread' + Cardinality(Counting') <= arrived'
  <2>1. /\ unread \in Nat /\ unread' \in Nat /\ arrived \in Nat /\ arrived' \in Nat
        /\ unread + Cardinality(Counting) <= arrived
    BY DEF CountInv, IInv, TypeOK
  <2> QED
    BY <1>1, <2>1
<1>3. ASSUME NEW w \in Counting'
      PROVE  job'[w].was + Cardinality(Counting') <= arrived'
  <2>1. w \in Counting /\ job[w].was + Cardinality(Counting) <= arrived
    BY DEF CountInv
  <2>2. /\ job[w].was \in Nat /\ job'[w].was = job[w].was
        /\ arrived \in Nat /\ arrived' \in Nat
    BY <2>1, CountTypes DEF IInv, TypeOK
  <2> QED
    BY <1>1, <2>1, <2>2
<1> QED
  BY <1>1, <1>2, <1>3 DEF CountInv

\* A step of one worker that neither starts nor ends a count.
LEMMA OneGoesOn ==
  ASSUME IInv, NEW w \in Workers, NEW j, SetJob(w, j), j.at # "count"
  PROVE  /\ Counting' = Counting \ {w}
         /\ \A v \in Counting' : job'[v].was = job[v].was
<1>1. job'[w] = j /\ \A v \in Workers : v # w => job'[v] = job[v]
  BY DEF SetJob, IInv, TypeOK
<1> QED
  BY <1>1 DEF Counting

LEMMA SettledElsewhere ==
  ASSUME NEW j \in Sync
  PROVE  Settle(j).at # "count"
BY Settled DEF Idle

\* A message of the peer came in, and its worker has read the count.
LEMMA CountStarts ==
  ASSUME IInv, IInv', CountInv, NEW w \in Workers, NEW j,
         SetJob(w, j), j.at = "count", j.was = unread, w \notin Counting,
         arrived' = arrived + 1, unread' = unread
  PROVE  CountInv'
<1>1. job'[w] = j /\ \A v \in Workers : v # w => job'[v] = job[v]
  BY DEF SetJob, IInv, TypeOK
<1>2. Counting' = Counting \cup {w}
  BY <1>1 DEF Counting
<1>3. /\ IsFiniteSet(Counting') /\ Cardinality(Counting) \in Nat
      /\ Cardinality(Counting') = Cardinality(Counting) + 1
  BY <1>2, FS_AddElement, FS_CardinalityType DEF CountInv
<1>4. unread' + Cardinality(Counting') <= arrived'
  BY <1>3, CountTypes DEF CountInv
<1>5. ASSUME NEW v \in Counting'
      PROVE  job'[v].was + Cardinality(Counting') <= arrived'
  <2>1. CASE v = w
    BY <1>1, <1>4, <2>1
  <2>2. CASE v # w
    <3>1. v \in Counting /\ job'[v] = job[v]
      BY <1>1, <1>2, <2>2 DEF Counting
    <3>2. job[v].was \in Nat /\ job[v].was + Cardinality(Counting) <= arrived
      BY <3>1, CountTypes DEF CountInv
    <3> QED
      BY <1>3, <3>1, <3>2, CountTypes
  <2> QED
    BY <2>1, <2>2
<1> QED
  BY <1>3, <1>4, <1>5 DEF CountInv

\* The count that was read, and one more, takes the place of whatever it is now.
LEMMA CountEnds ==
  ASSUME IInv, IInv', CountInv, NEW w \in Workers, Count(w)
  PROVE  CountInv'
<1> DEFINE n == [job[w] EXCEPT !.was = 0]
<1>1. w \in Counting /\ job[w] \in Sync /\ job[w].was \in Nat
  BY CountTypes DEF Counting, Count
<1>2. SetJob(w, Settle(n)) /\ unread' = job[w].was + 1 /\ arrived' = arrived
  BY DEF Count
<1>3. n \in Sync
  BY <1>1 DEF Sync
<1> HIDE DEF n
<1>4. /\ Counting' = Counting \ {w}
      /\ \A v \in Counting' : job'[v].was = job[v].was
  BY <1>2, <1>3, SettledElsewhere, OneGoesOn
<1>5. /\ IsFiniteSet(Counting') /\ Cardinality(Counting) \in Nat
      /\ Cardinality(Counting') = Cardinality(Counting) - 1
  BY <1>1, <1>4, FS_RemoveElement, FS_CardinalityType DEF CountInv
<1>6. unread' + Cardinality(Counting') <= arrived'
  <2>1. job[w].was + Cardinality(Counting) <= arrived
    BY <1>1 DEF CountInv
  <2> QED
    BY <1>1, <1>2, <1>5, <2>1, CountTypes
<1>7. ASSUME NEW v \in Counting'
      PROVE  job'[v].was + Cardinality(Counting') <= arrived'
  <2>1. v \in Counting /\ job'[v].was = job[v].was
    BY <1>4
  <2>2. job[v].was \in Nat /\ job[v].was + Cardinality(Counting) <= arrived
    BY <2>1, CountTypes DEF CountInv
  <2> QED
    BY <1>2, <1>5, <2>1, <2>2, CountTypes
<1> QED
  BY <1>5, <1>6, <1>7 DEF CountInv

LEMMA CountIngest ==
  ASSUME IInv, IInv', CountInv, NEW w \in Workers, IngestRow(w)
  PROVE  CountInv'
<1> DEFINE m == Head(job[w].page)
           rest == [job[w] EXCEPT !.page = Tail(@), !.news = @ \/ New(m)]
           counts == New(m) /\ ~m.mine /\ ~job[w].seen /\ conv = "shown"
           pause == [rest EXCEPT !.at = "count", !.was = unread]
<1>1. /\ job[w] \in Sync /\ job[w].at = "ingest" /\ job[w].page # <<>>
  BY JobKinds, SyncFields DEF IngestRow, Tidy, Idle, Sending
<1>2. /\ SetJob(w, IF counts THEN pause ELSE Settle(rest))
      /\ arrived' = IF m.id \notin Ids(rows) /\ m.chat /\ ~m.mine THEN arrived + 1 ELSE arrived
      /\ unread' = unread
  BY DEF IngestRow
<1>3. rest \in Sync
  <2>1. job[w].page \in Seq(Message) /\ job[w].news \in BOOLEAN
    BY <1>1, SyncFields
  <2>2. m \in Message /\ Tail(job[w].page) \in Seq(Message)
    BY <1>1, <2>1, ChatHead
  <2>3. (job[w].news \/ New(m)) \in BOOLEAN
    BY <2>1, <2>2 DEF New, Message
  <2> HIDE DEF m
  <2> QED
    BY <1>1, <2>2, <2>3 DEF Sync
<1>4. w \notin Counting /\ arrived \in Nat /\ unread \in Nat
  BY <1>1, CountTypes DEF Counting
<1>5. pause.at = "count" /\ pause.was = unread
  <2> HIDE DEF rest
  <2> QED
    BY <1>3 DEF Sync
<1>6. CASE counts
  <2>1. arrived' = arrived + 1
    BY <1>2, <1>6 DEF New
  <2>2. SetJob(w, pause)
    BY <1>2, <1>6
  <2> HIDE DEF pause
  <2> QED
    BY <1>2, <1>4, <1>5, <2>1, <2>2, CountStarts
<1>7. CASE ~counts
  <2>1. SetJob(w, Settle(rest))
    BY <1>2, <1>7
  <2>2. arrived <= arrived' /\ unread' <= unread
    BY <1>2, <1>4
  <2> HIDE DEF rest
  <2>3. /\ Counting' = Counting \ {w}
        /\ \A v \in Counting' : job'[v].was = job[v].was
    BY <1>3, <2>1, SettledElsewhere, OneGoesOn
  <2> QED
    BY <2>2, <2>3, NoneMore
<1> QED
  BY <1>6, <1>7

LEMMA CountElsewhere ==
  ASSUME IInv, IInv', CountInv, NEW w \in Workers,
         \/ Ask(w) \/ Answered(w) \/ Sent(w) \/ Send(w)
         \/ SyncFailed(w) \/ SendFailed(w)
         \/ \E head \in BOOLEAN : StartSync(w, head)
  PROVE  CountInv'
<1>1. unread' = unread /\ arrived' = arrived
  BY DEF Ask, Answered, Sent, Send, SyncFailed, SendFailed, StartSync, device
<1>2. \E j : SetJob(w, j) /\ j.at # "count"
  <2>1. CASE Ask(w)
    <3>1. job[w] \in Sync
      BY <2>1, JobKinds DEF Ask
    <3>2. NextPhase(job[w]).at # "count"
      BY <3>1 DEF NextPhase, Sync, Idle
    <3>3. \A c : [job[w] EXCEPT !.at = "wait", !.cursor = c].at = "wait"
      BY <3>1 DEF Sync
    <3> QED
      BY <2>1, <3>2, <3>3 DEF Ask
  <2>2. CASE Answered(w)
    <3> DEFINE page == Answer(job[w].cursor)
               n == [job[w] EXCEPT !.cursor = Initial, !.page = page,
                                   !.full = Len(page) >= Page, !.seen = active,
                                   !.owed = ChatIds(page)]
    <3>1. SetJob(w, Settle(n)) /\ job[w] \in Sync
      BY <2>2, JobKinds DEF Answered
    <3>2. page \in Seq(Message) /\ ChatIds(page) \in SUBSET MsgIds
      BY AnswerType, ChatType DEF IInv, TypeOK
    <3>3. active \in BOOLEAN /\ (Len(page) >= Page) \in BOOLEAN
      BY DEF IInv, TypeOK
    <3> HIDE DEF page
    <3>4. n \in Sync
      BY <3>1, <3>2, <3>3 DEF Sync
    <3> HIDE DEF n
    <3> QED
      BY <3>1, <3>4, SettledElsewhere
  <2>3. CASE Sent(w) \/ SyncFailed(w) \/ SendFailed(w)
    <3>1. SetJob(w, Idle)
      BY <2>3 DEF Sent, SyncFailed, SendFailed
    <3>2. Idle.at = "idle"
      BY DEF Idle
    <3> QED
      BY <3>1, <3>2
  <2>4. CASE Send(w)
    BY <2>4 DEF Send
  <2>5. CASE \E head \in BOOLEAN : StartSync(w, head)
    BY <2>5 DEF StartSync, Begin
  <2> QED
    BY <2>1, <2>2, <2>3, <2>4, <2>5
<1>3. PICK j : SetJob(w, j) /\ j.at # "count"
  BY <1>2
<1>4. /\ Counting' = Counting \ {w}
      /\ \A v \in Counting' : job'[v].was = job[v].was
  BY <1>3, OneGoesOn
<1> QED
  BY <1>1, <1>4, NoneMore, CountTypes

\* Steps that change no job, or drop what is owed, or all jobs.
LEMMA CountOther ==
  ASSUME IInv, IInv', CountInv,
         job' = job \/ job' = Forgotten \/ job' = [w \in Workers |-> Idle],
         unread' = unread \/ unread' = 0, arrived' = arrived
  PROVE  CountInv'
<1>1. /\ Counting' \in SUBSET Counting
      /\ \A w \in Counting' : job'[w].was = job[w].was
  <2>1. CASE job' = job
    BY <2>1 DEF Counting
  <2>2. CASE job' = Forgotten
    <3>1. ASSUME NEW w \in Workers
          PROVE  job'[w].at = job[w].at /\ (job[w].at = "count" => job'[w].was = job[w].was)
      <4>1. CASE job[w].at \in {"idle", "send"}
        BY <2>2, <4>1 DEF Forgotten
      <4>2. CASE job[w].at \notin {"idle", "send"}
        <5>1. job[w] \in Sync
          BY <4>2, JobKinds DEF Idle, Sending
        <5>2. job'[w] = [job[w] EXCEPT !.owed = ChatIds(job[w].page)]
          BY <2>2, <4>2 DEF Forgotten
        <5> QED
          BY <5>1, <5>2 DEF Sync
      <4> QED
        BY <4>1, <4>2
    <3> QED
      BY <3>1 DEF Counting
  <2>3. CASE job' = [w \in Workers |-> Idle]
    BY <2>3 DEF Counting, Idle
  <2> QED
    BY <2>1, <2>2, <2>3
<1>2. arrived <= arrived' /\ unread' <= unread
  BY CountTypes
<1> QED
  BY <1>1, <1>2, NoneMore

LEMMA CountNext ==
  ASSUME IInv, IInv', CountInv, [Next]_vars
  PROVE  CountInv'
<1>1. ASSUME NEW w \in Workers, Step(w)
      PROVE  CountInv'
  BY <1>1, CountElsewhere, CountIngest, CountEnds DEF Step
<1>2. ASSUME NEW w \in Senders, Send(w)
      PROVE  CountInv'
  BY <1>2, WorkersAssumption, CountElsewhere
<1>3. CASE \/ \E chat \in BOOLEAN : Receive(chat)
           \/ RecallMessage \/ ServerRestart \/ CallLog \/ User \/ Kill
           \/ UNCHANGED vars
  <2>1. /\ job' = job \/ job' = Forgotten \/ job' = [w \in Workers |-> Idle]
        /\ unread' = unread \/ unread' = 0
        /\ arrived' = arrived
    BY <1>3 DEF Receive, RecallMessage, ServerRestart, CallLog, User, OpenChat,
       CloseChat, SetPeerMuted, ClearHistory, RemoveSession, AddSession, Kill,
       vars, device
  <2> QED
    BY <2>1, CountOther
<1> QED
  BY <1>1, <1>2, <1>3, CountElsewhere DEF Next

-----------------------------------------------------------------------------
(* The theorems.                                                           *)

\* Jobs are in order: what a sync owes is in the rows or in the rest of its
\* page (IInv), and so are the rows.
THEOREM Inductive == Spec => []IInv
<1> QED
  BY Init_IInv, IInv_Next, PTL DEF Spec

\* A message has one row (WellFormed), however many workers fetch it at once
\* and whether its own send or a sync inserts it first.
THEOREM WellFormedHolds == Spec => []WellFormed
<1>1. IInv => WellFormed
  BY DEF IInv, WellFormed
<1> QED
  BY <1>1, Inductive, PTL

\* A sync is done with an answer only when every chat message of it is in
\* the database, unless it is cut short or the rows are deleted
\* (AnswersIngested), for any sizes of windows, pages and frames.
THEOREM AnswersIngestedHolds == Spec => AnswersIngested
<1>1. ASSUME IInv, [Next]_vars
      PROVE  [upsets' = upsets => \A w \in Workers : Owed(w) \ Owed(w)' \subseteq Ids(rows')]_vars
  BY <1>1, IInv_Next DEF Paid
<1> QED
  BY <1>1, Inductive, PTL DEF Spec, AnswersIngested

\* The unread count stays below what arrived, with the counts under way
\* (CountInv), although its two halves are not atomic and several workers,
\* the screens and the user change it in between.
THEOREM CountsInductive == Spec => []CountInv
<1>1. Init => CountInv
  <2> SUFFICES ASSUME Init PROVE CountInv
    OBVIOUS
  <2>1. Counting = {} /\ unread = 0 /\ arrived = 0
    BY DEF Init, Counting, Idle
  <2> QED
    BY <2>1, FS_EmptySet DEF CountInv
<1>2. IInv /\ IInv' /\ CountInv /\ [Next]_vars => CountInv'
  BY CountNext
<1> QED
  BY <1>1, <1>2, Inductive, PTL DEF Spec

\* Unread never exceeds the messages of the peer that came into the database
\* (UnreadArrived), for any number of workers.
THEOREM UnreadArrivedHolds == Spec => []UnreadArrived
<1>1. CountInv => UnreadArrived
  BY DEF CountInv, Counting, UnreadArrived
<1> QED
  BY <1>1, CountsInductive, PTL

=============================================================================

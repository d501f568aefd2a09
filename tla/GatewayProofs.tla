---------------------------- MODULE GatewayProofs ----------------------------
(* Proofs about Gateway, for every value of its constants.                 *)
EXTENDS Gateway, FiniteSetTheorems, TLAPS

(***************************************************************************)
(* What the handlers know between two of their steps: a handler that has   *)
(* a frame in hand knows its frame, one that forwards knows a channel that *)
(* has authenticated as the addressee, one that drains has a user.         *)
(***************************************************************************)
Handlers ==
  \A c \in Chans :
    /\ pc[c] \in {"find", "enqueue", "forward"} => hand[c] \in Msgs
    /\ pc[c] = "forward" =>
         target[c] \in Chans /\ To[hand[c]] \in authed[target[c]]
    /\ pc[c] \in {"drain", "draining"} => authUser[c] \in Users
    /\ authUser[c] \in Users => authUser[c] \in authed[c]

Routes == \A u \in Users : registry[u] \in Chans => u \in authed[registry[u]]

\* Addressed, element by element.
QueueMail == \A u \in Users : \A i \in DOMAIN queue[u] : To[queue[u][i]] = u
BatchMail == \A c \in Chans : \A i \in DOMAIN batch[c] : To[batch[c][i]] \in authed[c]
TaskMail  == \A c \in Chans : \A i \in DOMAIN tasks[c] : To[tasks[c][i]] \in authed[c]
WireMail  == \A c \in Chans : \A i \in DOMAIN wire[c] : To[wire[c][i]] \in authed[c]

IInv ==
  TypeOK /\ Handlers /\ Routes /\ QueueMail /\ BatchMail /\ TaskMail /\ WireMail

-----------------------------------------------------------------------------
LEMMA InitIInv == Init => IInv
  BY RoutingAssumption, MaxAuthsAssumption, NoneAssumption
  DEF Init, IInv, TypeOK, Handlers, Routes, QueueMail, BatchMail, TaskMail,
      WireMail, ConnState, PC

LEMMA ConnStep ==
  ASSUME IInv, NEW c \in Chans, Connect(c) \/ Close(c) \/ ChannelInactive(c)
  PROVE  IInv'
  <1>1. CASE Connect(c) \/ Close(c)
    BY <1>1 DEF Connect, Close, IInv, TypeOK, Handlers, Routes, QueueMail,
                BatchMail, TaskMail, WireMail, ConnState
  <1>2. CASE ChannelInactive(c)
    <2>1. /\ registry' \in [Users -> Chans \cup {None}]
          /\ \A u \in Users : registry'[u] \in Chans => registry'[u] = registry[u]
      BY <1>2, NoneAssumption DEF ChannelInactive, Unregister, IInv, TypeOK
    <2>2. TypeOK'
      BY <1>2, <2>1 DEF ChannelInactive, IInv, TypeOK, ConnState
    <2>3. Routes'
      BY <1>2, <2>1 DEF ChannelInactive, IInv, Routes
    <2>4. (Handlers /\ QueueMail /\ BatchMail /\ TaskMail /\ WireMail)'
      BY <1>2 DEF ChannelInactive, IInv, Handlers, QueueMail, BatchMail,
                  TaskMail, WireMail
    <2> QED  BY <2>2, <2>3, <2>4 DEF IInv
  <1> QED  BY <1>1, <1>2

LEMMA LogoutStep ==
  ASSUME IInv, NEW c \in Chans, Logout(c)
  PROVE  IInv'
  <1>1. /\ registry' \in [Users -> Chans \cup {None}]
        /\ \A u \in Users : registry'[u] \in Chans => registry'[u] = registry[u]
    BY NoneAssumption DEF Logout, Unregister, IInv, TypeOK
  <1>2. /\ authUser' = [authUser EXCEPT ![c] = None]
        /\ UNCHANGED <<pc, hand, target, batch, queue, tasks, wire, authed>>
        /\ pc[c] = "ready"
    BY DEF Logout, Dispatching, Free
  <1>3. TypeOK'
    BY <1>1 DEF Logout, IInv, TypeOK, ConnState
  <1>4. Handlers'
    BY <1>2, NoneAssumption DEF IInv, TypeOK, Handlers
  <1>5. Routes'
    BY <1>1, <1>2 DEF IInv, Routes
  <1>6. (QueueMail /\ BatchMail /\ TaskMail /\ WireMail)'
    BY <1>2 DEF IInv, QueueMail, BatchMail, TaskMail, WireMail
  <1> QED  BY <1>3, <1>4, <1>5, <1>6 DEF IInv

LEMMA AuthStep ==
  ASSUME IInv, NEW c \in Chans, NEW u \in Users, Auth(c, u)
  PROVE  IInv'
  <1>1. /\ authUser' = [authUser EXCEPT ![c] = u]
        /\ authed' = [authed EXCEPT ![c] = authed[c] \cup {u}]
        /\ registry' = [registry EXCEPT ![u] = c]
        /\ pc' = [pc EXCEPT ![c] = "drain"]
        /\ pc[c] = "ready"
        /\ UNCHANGED <<hand, target, batch, queue, tasks, wire>>
    BY DEF Auth, Register, Dispatching, Free
  <1>2. TypeOK'
    BY <1>1, MaxAuthsAssumption DEF Auth, IInv, TypeOK, PC
  <1>3. \A d \in Chans : authed[d] \subseteq authed'[d]
    BY <1>1 DEF IInv, TypeOK
  <1>4. Handlers'
    BY <1>1, <1>3 DEF IInv, TypeOK, Handlers
  <1>5. Routes'
    BY <1>1, <1>3 DEF IInv, TypeOK, Routes
  <1>6. (QueueMail /\ BatchMail /\ TaskMail /\ WireMail)'
    BY <1>1, <1>3 DEF IInv, QueueMail, BatchMail, TaskMail, WireMail
  <1> QED  BY <1>2, <1>4, <1>5, <1>6 DEF IInv

LEMMA ReceiveStep ==
  ASSUME IInv, NEW c \in Chans, NEW m \in Msgs, Receive(c, m)
  PROVE  IInv'
  BY RoutingAssumption, MaxAuthsAssumption, NoneAssumption
  DEF Receive, connVars, Dispatching, Free, IInv, TypeOK, Handlers, Routes,
      QueueMail, BatchMail, TaskMail, WireMail, ConnState, PC

LEMMA FindStep ==
  ASSUME IInv, NEW c \in Chans, Find(c)
  PROVE  IInv'
  <1> DEFINE ch == registry[Recipient(hand[c])]
  <1>1. hand[c] \in Msgs /\ To[hand[c]] \in Users
    BY RoutingAssumption DEF Find, IInv, Handlers
  <1>2. ch \in Chans \cup {None} /\ (ch \in Chans => To[hand[c]] \in authed[ch])
    BY <1>1 DEF Recipient, IInv, TypeOK, Routes
  <1>3. CASE Usable(ch)
    <2>1. /\ target' = [target EXCEPT ![c] = ch]
          /\ pc' = [pc EXCEPT ![c] = "forward"]
      BY <1>3 DEF Find
    <2>2. TypeOK'
      BY <1>2, <1>3, <2>1 DEF Find, Usable, connVars, IInv, TypeOK, PC
    <2>3. Handlers'
      BY <1>1, <1>2, <1>3, <2>1 DEF Find, Usable, connVars, IInv, TypeOK, Handlers
    <2> QED  BY <2>2, <2>3 DEF Find, connVars, IInv, Routes, QueueMail,
                               BatchMail, TaskMail, WireMail
  <1>4. CASE ~Usable(ch)
    <2>1. pc' = [pc EXCEPT ![c] = "enqueue"] /\ target' = target
      BY <1>4 DEF Find
    <2>2. TypeOK'
      BY <2>1 DEF Find, connVars, IInv, TypeOK, PC
    <2>3. Handlers'
      BY <1>1, <2>1 DEF Find, connVars, IInv, TypeOK, Handlers
    <2> QED  BY <2>2, <2>3 DEF Find, connVars, IInv, Routes, QueueMail,
                               BatchMail, TaskMail, WireMail
  <1> QED  BY <1>3, <1>4

LEMMA DrainTakeStep ==
  ASSUME IInv, NEW c \in Chans, DrainTake(c)
  PROVE  IInv'
  BY RoutingAssumption, MaxAuthsAssumption, NoneAssumption
  DEF DrainTake, RemoveQueue, connVars, IInv, TypeOK, Handlers, Routes,
      QueueMail, BatchMail, TaskMail, WireMail, ConnState, PC

LEMMA DrainDoneStep ==
  ASSUME IInv, NEW c \in Chans, DrainDone(c)
  PROVE  IInv'
  BY RoutingAssumption, MaxAuthsAssumption, NoneAssumption
  DEF DrainDone, connVars, IInv, TypeOK, Handlers, Routes,
      QueueMail, BatchMail, TaskMail, WireMail, ConnState, PC

(***************************************************************************)
(* The element-wise invariants need only to know where an element of a     *)
(* sequence after Append or Tail comes from.                               *)
(***************************************************************************)
LEMMA AppendFrom ==
  ASSUME NEW S, NEW s \in Seq(S), NEW e \in S
  PROVE  /\ Append(s, e) \in Seq(S)
         /\ \A i \in DOMAIN Append(s, e) :
              Append(s, e)[i] = e \/ \E j \in DOMAIN s : Append(s, e)[i] = s[j]
  OBVIOUS

LEMMA TailFrom ==
  ASSUME NEW S, NEW s \in Seq(S), s # <<>>
  PROVE  /\ Head(s) \in S
         /\ \E j \in DOMAIN s : Head(s) = s[j]
         /\ Tail(s) \in Seq(S)
         /\ \A i \in DOMAIN Tail(s) : \E j \in DOMAIN s : Tail(s)[i] = s[j]
  <1>1. Head(s) \in S /\ Tail(s) \in Seq(S) /\ 1 \in DOMAIN s /\ Head(s) = s[1]
    OBVIOUS
  <1>2. ASSUME NEW i \in DOMAIN Tail(s)
        PROVE  i + 1 \in DOMAIN s /\ Tail(s)[i] = s[i + 1]
    OBVIOUS
  <1> QED  BY <1>1, <1>2

\* A write on the loop of c, of mail for a user c has authenticated as.
LEMMA WriteOnMail ==
  ASSUME IInv, NEW c \in Chans, NEW m \in Msgs, To[m] \in authed[c],
         WriteOn(c, m), authed' = authed
  PROVE  /\ wire' \in [Chans -> Seq(Msgs)]
         /\ lost' \subseteq Msgs
         /\ WireMail'
  <1>1. CASE Active(c)
    <2>1. wire[c] \in Seq(Msgs)
      BY DEF IInv, TypeOK
    <2>2. wire' = [wire EXCEPT ![c] = Append(wire[c], m)] /\ lost' = lost
      BY <1>1 DEF WriteOn
    <2>3. wire' \in [Chans -> Seq(Msgs)] /\ lost' \subseteq Msgs
      BY <2>1, <2>2, AppendFrom DEF IInv, TypeOK
    <2>4. ASSUME NEW d \in Chans, NEW i \in DOMAIN wire'[d]
          PROVE  To[wire'[d][i]] \in authed[d]
      <3>1. CASE d = c
        <4>1. wire'[d] = Append(wire[c], m)
          BY <2>2, <3>1 DEF IInv, TypeOK
        <4> QED  BY <3>1, <4>1, <2>1, <2>4, AppendFrom DEF IInv, WireMail
      <3>2. CASE d # c
        BY <2>2, <2>4, <3>2 DEF IInv, TypeOK, WireMail
      <3> QED  BY <3>1, <3>2
    <2> QED  BY <2>3, <2>4 DEF WireMail
  <1>2. CASE ~Active(c)
    BY <1>2 DEF WriteOn, IInv, TypeOK, WireMail
  <1> QED  BY <1>1, <1>2

LEMMA RunTaskStep ==
  ASSUME IInv, NEW c \in Chans, RunTask(c)
  PROVE  IInv'
  <1> DEFINE s == tasks[c]
  <1>1. s \in Seq(Msgs) /\ s # <<>> /\ WriteOn(c, Head(s))
        /\ tasks' = [tasks EXCEPT ![c] = Tail(s)]
    BY DEF RunTask, IInv, TypeOK
  <1>2. Head(s) \in Msgs /\ To[Head(s)] \in authed[c] /\ Tail(s) \in Seq(Msgs)
    BY <1>1, TailFrom DEF IInv, TaskMail
  <1>3. /\ wire' \in [Chans -> Seq(Msgs)] /\ lost' \subseteq Msgs /\ WireMail'
    BY <1>1, <1>2, WriteOnMail DEF RunTask, connVars
  <1>4. TypeOK'
    <2>1. tasks' \in [Chans -> Seq(Msgs)]
      BY <1>1, <1>2 DEF IInv, TypeOK
    <2> QED  BY <1>3, <2>1 DEF RunTask, connVars, IInv, TypeOK
  <1>5. ASSUME NEW d \in Chans, NEW i \in DOMAIN tasks'[d]
        PROVE  To[tasks'[d][i]] \in authed[d]
    <2>1. CASE d = c
      <3>1. tasks'[d] = Tail(s)
        BY <1>1, <2>1 DEF IInv, TypeOK
      <3> QED  BY <2>1, <3>1, <1>1, <1>5, TailFrom DEF IInv, TaskMail
    <2>2. CASE d # c
      BY <1>1, <1>5, <2>2 DEF IInv, TypeOK, TaskMail
    <2> QED  BY <2>1, <2>2
  <1>6. TaskMail'
    BY <1>5 DEF RunTask, connVars, TaskMail
  <1>7. (Handlers /\ Routes /\ QueueMail /\ BatchMail)'
    BY DEF RunTask, connVars, IInv, Handlers, Routes, QueueMail, BatchMail
  <1> QED  BY <1>3, <1>4, <1>6, <1>7 DEF IInv

LEMMA DrainWriteStep ==
  ASSUME IInv, NEW c \in Chans, DrainWrite(c)
  PROVE  IInv'
  <1> DEFINE s == batch[c]
  <1>1. s \in Seq(Msgs) /\ s # <<>> /\ WriteOn(c, Head(s))
        /\ batch' = [batch EXCEPT ![c] = Tail(s)]
    BY DEF DrainWrite, IInv, TypeOK
  <1>2. Head(s) \in Msgs /\ To[Head(s)] \in authed[c] /\ Tail(s) \in Seq(Msgs)
    BY <1>1, TailFrom DEF IInv, BatchMail
  <1>3. /\ wire' \in [Chans -> Seq(Msgs)] /\ lost' \subseteq Msgs /\ WireMail'
    BY <1>1, <1>2, WriteOnMail DEF DrainWrite, connVars
  <1>4. TypeOK'
    <2>1. batch' \in [Chans -> Seq(Msgs)]
      BY <1>1, <1>2 DEF IInv, TypeOK
    <2> QED  BY <1>3, <2>1 DEF DrainWrite, connVars, IInv, TypeOK
  <1>5. ASSUME NEW d \in Chans, NEW i \in DOMAIN batch'[d]
        PROVE  To[batch'[d][i]] \in authed[d]
    <2>1. CASE d = c
      <3>1. batch'[d] = Tail(s)
        BY <1>1, <2>1 DEF IInv, TypeOK
      <3> QED  BY <2>1, <3>1, <1>1, <1>5, TailFrom DEF IInv, BatchMail
    <2>2. CASE d # c
      BY <1>1, <1>5, <2>2 DEF IInv, TypeOK, BatchMail
    <2> QED  BY <2>1, <2>2
  <1>6. BatchMail'
    BY <1>5 DEF DrainWrite, connVars, BatchMail
  <1>7. (Handlers /\ Routes /\ QueueMail /\ TaskMail)'
    BY DEF DrainWrite, connVars, IInv, Handlers, Routes, QueueMail, TaskMail
  <1> QED  BY <1>3, <1>4, <1>6, <1>7 DEF IInv

LEMMA EnqueueStep ==
  ASSUME IInv, NEW c \in Chans, Enqueue(c)
  PROVE  IInv'
  <1> DEFINE m == hand[c]
             u == Recipient(m)
             q == queue[u]
  <1>1. m \in Msgs /\ u = To[m] /\ u \in Users /\ q \in Seq(Msgs)
    BY RoutingAssumption DEF Enqueue, Recipient, IInv, Handlers, TypeOK
  <1>2. /\ queue' \in [Users -> Seq(Msgs)]
        /\ evicted' \subseteq Msgs
        /\ QueueMail'
    <2>1. PICK r \in Seq(Msgs) :
             /\ queue' = [queue EXCEPT ![u] = Append(r, m)]
             /\ evicted' \subseteq Msgs
             /\ \A i \in DOMAIN r : \E j \in DOMAIN q : r[i] = q[j]
      <3>1. CASE QueueFull(u)
        <4>1. q # <<>>
          BY <3>1, <1>1, QueueMaxAssumption DEF QueueFull
        <4>2. queue' = [queue EXCEPT ![u] = Append(Tail(q), m)]
              /\ evicted' = evicted \cup {Head(q)}
          BY <3>1 DEF Enqueue
        <4>3. /\ Head(q) \in Msgs /\ Tail(q) \in Seq(Msgs)
              /\ \A i \in DOMAIN Tail(q) : \E j \in DOMAIN q : Tail(q)[i] = q[j]
          BY <4>1, <1>1, TailFrom
        <4>4. evicted' \subseteq Msgs
          BY <4>2, <4>3 DEF IInv, TypeOK
        <4> QED  BY <4>2, <4>3, <4>4
      <3>2. CASE ~QueueFull(u)
        BY <3>2, <1>1 DEF Enqueue, IInv, TypeOK
      <3> QED  BY <3>1, <3>2
    <2>2. queue' \in [Users -> Seq(Msgs)]
      BY <2>1, <1>1, AppendFrom DEF IInv, TypeOK
    <2>3. ASSUME NEW v \in Users, NEW i \in DOMAIN queue'[v]
          PROVE  To[queue'[v][i]] = v
      <3>1. CASE v = u
        <4>1. queue'[v] = Append(r, m)
          BY <2>1, <3>1 DEF IInv, TypeOK
        <4>2. queue'[v][i] = m \/ \E j \in DOMAIN r : queue'[v][i] = r[j]
          BY <4>1, <2>3, <1>1, AppendFrom
        <4> QED  BY <4>2, <3>1, <2>1, <1>1 DEF IInv, QueueMail
      <3>2. CASE v # u
        BY <2>1, <2>3, <3>2 DEF IInv, TypeOK, QueueMail
      <3> QED  BY <3>1, <3>2
    <2> QED  BY <2>1, <2>2, <2>3 DEF QueueMail
  <1>3. TypeOK'
    BY <1>2 DEF Enqueue, connVars, IInv, TypeOK, PC
  <1>4. Handlers'
    BY DEF Enqueue, connVars, IInv, TypeOK, Handlers
  <1>5. (Routes /\ BatchMail /\ TaskMail /\ WireMail)'
    BY DEF Enqueue, connVars, IInv, Routes, BatchMail, TaskMail, WireMail
  <1> QED  BY <1>2, <1>3, <1>4, <1>5 DEF IInv

LEMMA ForwardStep ==
  ASSUME IInv, NEW c \in Chans, Forward(c)
  PROVE  IInv'
  <1> DEFINE m == hand[c]
             dst == target[c]
  <1>1. m \in Msgs /\ dst \in Chans /\ To[m] \in authed[dst]
    BY DEF Forward, IInv, Handlers
  <1>2. authed' = authed
    BY DEF Forward, connVars
  <1>3. /\ tasks' \in [Chans -> Seq(Msgs)] /\ wire' \in [Chans -> Seq(Msgs)]
        /\ lost' \subseteq Msgs /\ TaskMail' /\ WireMail'
    <2>1. CASE lost' = lost \cup {m} /\ UNCHANGED <<tasks, wire>>
      BY <1>1, <1>2, <2>1 DEF IInv, TypeOK, TaskMail, WireMail
    <2>2. CASE dst = c /\ WriteOn(c, m) /\ UNCHANGED tasks
      BY <1>1, <1>2, <2>2, WriteOnMail DEF IInv, TypeOK, TaskMail
    <2>3. CASE tasks' = [tasks EXCEPT ![dst] = Append(tasks[dst], m)]
               /\ UNCHANGED <<wire, lost>>
      <3>1. tasks[dst] \in Seq(Msgs)
        BY <1>1 DEF IInv, TypeOK
      <3>2. tasks' \in [Chans -> Seq(Msgs)]
        BY <1>1, <2>3, <3>1, AppendFrom DEF IInv, TypeOK
      <3>3. ASSUME NEW d \in Chans, NEW i \in DOMAIN tasks'[d]
            PROVE  To[tasks'[d][i]] \in authed[d]
        <4>1. CASE d = dst
          <5>1. tasks'[d] = Append(tasks[dst], m)
            BY <2>3, <4>1 DEF IInv, TypeOK
          <5> QED  BY <5>1, <4>1, <3>1, <3>3, <1>1, AppendFrom DEF IInv, TaskMail
        <4>2. CASE d # dst
          BY <2>3, <3>3, <4>2 DEF IInv, TypeOK, TaskMail
        <4> QED  BY <4>1, <4>2
      <3> QED  BY <2>3, <3>2, <3>3, <1>2 DEF IInv, TypeOK, TaskMail, WireMail
    <2> QED  BY <2>1, <2>2, <2>3 DEF Forward
  <1>4. TypeOK'
    BY <1>3 DEF Forward, connVars, IInv, TypeOK, PC
  <1>5. Handlers'
    BY DEF Forward, connVars, IInv, TypeOK, Handlers
  <1>6. (Routes /\ QueueMail /\ BatchMail)'
    BY DEF Forward, connVars, IInv, Routes, QueueMail, BatchMail
  <1> QED  BY <1>3, <1>4, <1>5, <1>6 DEF IInv

LEMMA NextIInv == IInv /\ [Next]_vars => IInv'
  <1> SUFFICES ASSUME IInv, [Next]_vars PROVE IInv'
    OBVIOUS
  <1>1. CASE UNCHANGED vars
    BY <1>1 DEF vars, connVars, IInv, TypeOK, Handlers, Routes, QueueMail,
                BatchMail, TaskMail, WireMail
  <1>2. ASSUME NEW c \in Chans, LoopStep(c) PROVE IInv'
    BY <1>2, RunTaskStep, DrainTakeStep, DrainWriteStep, DrainDoneStep,
       FindStep, EnqueueStep, ForwardStep DEF LoopStep
  <1>3. CASE Next
    BY <1>2, <1>3, ConnStep, AuthStep, LogoutStep, ReceiveStep DEF Next
  <1> QED  BY <1>1, <1>3

\* IInv is an inductive invariant of the relay.
THEOREM Inductive == Spec => []IInv
  BY InitIInv, NextIInv, PTL DEF Spec

\* Every relayed frame travels only towards its addressee.
THEOREM AddressedHolds == Spec => []Addressed
  <1>1. IInv => Addressed
    BY DEF IInv, QueueMail, BatchMail, TaskMail, WireMail, Addressed, Elems,
           Mail, TypeOK
  <1> QED  BY <1>1, Inductive, PTL

-----------------------------------------------------------------------------
(* The size of an offline queue, and the registry.                         *)

Bounded == \A u \in Users : Len(queue[u]) <= QueueMax

LEMMA BoundedStep == IInv /\ Bounded /\ [Next]_vars => Bounded'
  <1> SUFFICES ASSUME IInv, Bounded, [Next]_vars, NEW u \in Users
               PROVE  Len(queue'[u]) <= QueueMax
    BY DEF Bounded
  <1>1. queue[u] \in Seq(Msgs) /\ Len(queue[u]) <= QueueMax /\ QueueMax \in Nat \ {0}
    BY QueueMaxAssumption DEF IInv, TypeOK, Bounded
  <1>2. CASE queue' = queue
    BY <1>1, <1>2
  <1>3. ASSUME NEW c \in Chans, DrainTake(c)
        PROVE  Len(queue'[u]) <= QueueMax
    <2>1. queue'[u] = queue[u] \/ queue'[u] = <<>>
      BY <1>3 DEF DrainTake, RemoveQueue, IInv, TypeOK
    <2> QED  BY <2>1, <1>1
  <1>4. ASSUME NEW c \in Chans, Enqueue(c)
        PROVE  Len(queue'[u]) <= QueueMax
    <2> DEFINE m == hand[c]
               v == Recipient(m)
    <2>1. CASE u # v
      BY <1>1, <1>4, <2>1 DEF Enqueue, IInv, TypeOK
    <2>2. CASE u = v /\ QueueFull(v)
      <3>1. queue'[u] = Append(Tail(queue[u]), m) /\ queue[u] # <<>>
        BY <1>1, <1>4, <2>2 DEF Enqueue, QueueFull, IInv, TypeOK
      <3>2. Len(Append(Tail(queue[u]), m)) = Len(queue[u])
        BY <1>1, <3>1
      <3> QED  BY <1>1, <3>1, <3>2
    <2>3. CASE u = v /\ ~QueueFull(v)
      <3>1. queue'[u] = Append(queue[u], m) /\ Len(queue[u]) < QueueMax
        BY <1>1, <1>4, <2>3 DEF Enqueue, QueueFull, IInv, TypeOK
      <3> QED  BY <1>1, <3>1
    <2> QED  BY <2>1, <2>2, <2>3
  <1>5. CASE UNCHANGED vars
    BY <1>2, <1>5 DEF vars
  <1>6. ASSUME NEW c \in Chans, LoopStep(c) PROVE Len(queue'[u]) <= QueueMax
    BY <1>2, <1>3, <1>4, <1>6
    DEF LoopStep, RunTask, DrainWrite, DrainDone, Find, Forward
  <1>7. CASE Next
    BY <1>2, <1>6, <1>7
    DEF Next, Connect, Close, ChannelInactive, Auth, Logout, Receive
  <1> QED  BY <1>5, <1>7

\* An offline queue never outgrows offline-queue-max-per-user.
THEOREM WellFormedHolds == Spec => []WellFormed
  <1>1. Init => Bounded
    BY QueueMaxAssumption DEF Init, Bounded
  <1>2. IInv /\ Bounded => WellFormed
    BY DEF IInv, Bounded, WellFormed
  <1> QED  BY <1>1, <1>2, Inductive, BoundedStep, PTL DEF Spec

\* Only register, unregister and the steps named here touch the registry.
LEMMA RegistryStep ==
  ASSUME IInv, [Next]_vars
  PROVE  \/ UNCHANGED <<registry, lastAuth, authUser, conn>>
         \/ \E c \in Chans : Connect(c) \/ Close(c) \/ ChannelInactive(c) \/ Logout(c)
         \/ \E c \in Chans, u \in Users : Auth(c, u)
  <1>1. CASE UNCHANGED vars
    BY <1>1 DEF vars, connVars
  <1>2. ASSUME NEW c \in Chans, LoopStep(c)
        PROVE  UNCHANGED <<registry, lastAuth, authUser, conn>>
    BY <1>2 DEF LoopStep, RunTask, DrainTake, DrainWrite, DrainDone, Find,
                Enqueue, Forward, connVars
  <1>3. ASSUME NEW c \in Chans, NEW m \in Msgs, Receive(c, m)
        PROVE  UNCHANGED <<registry, lastAuth, authUser, conn>>
    BY <1>3 DEF Receive, connVars
  <1>4. CASE Next
    BY <1>2, <1>3, <1>4 DEF Next
  <1> QED  BY <1>1, <1>4

\* The registry never leads to a connection a later AUTH has replaced.
THEOREM LatestConnectionHolds == Spec => []LatestConnection
  <1>1. Init => LatestConnection
    BY DEF Init, LatestConnection
  <1>2. IInv /\ LatestConnection /\ [Next]_vars => LatestConnection'
    <2> SUFFICES ASSUME IInv, LatestConnection, [Next]_vars, NEW u \in Users
                 PROVE  registry'[u] \in {None, lastAuth'[u]}
      BY DEF LatestConnection
    <2>1. registry[u] \in {None, lastAuth[u]}
      BY DEF LatestConnection
    <2>2. ASSUME NEW c \in Chans,
                 Connect(c) \/ Close(c) \/ ChannelInactive(c) \/ Logout(c)
          PROVE  lastAuth' = lastAuth /\ registry'[u] \in {None, registry[u]}
      BY <2>2 DEF Connect, Close, ChannelInactive, Logout, Unregister, IInv, TypeOK
    <2>3. ASSUME NEW c \in Chans, NEW v \in Users, Auth(c, v)
          PROVE  registry'[u] \in {None, lastAuth'[u]}
      BY <2>1, <2>3 DEF Auth, Register, IInv, TypeOK
    <2> QED  BY <2>1, <2>2, <2>3, RegistryStep
  <1> QED  BY <1>1, <1>2, Inductive, PTL DEF Spec

-----------------------------------------------------------------------------
(* Where a frame is.                                                       *)

Places == {"hand", "queue", "batch", "task", "wire", "evicted", "lost"}

\* The members of a family of sequences in which m occurs.
Having(f, m) == {x \in DOMAIN f : m \in Elems(f[x])}

Spot(p, m) ==
  CASE p = "hand"    -> {c \in Chans : hand[c] = m}
    [] p = "queue"   -> Having(queue, m)
    [] p = "batch"   -> Having(batch, m)
    [] p = "task"    -> Having(tasks, m)
    [] p = "wire"    -> Having(wire, m)
    [] p = "evicted" -> {m} \cap evicted
    [] p = "lost"    -> {m} \cap lost

InOneSpot(m) ==
  \E p \in Places :
    /\ \E x \in Spot(p, m) : Spot(p, m) = {x}
    /\ \A q \in Places \ {p} : Spot(q, m) = {}

NoTwice(s) == \A i, j \in DOMAIN s : s[i] = s[j] => i = j

\* A handler that is not relaying has no frame in hand, one that is not
\* draining has no deque: neither is ever overwritten.
EmptyHanded ==
  \A c \in Chans :
    /\ pc[c] \notin {"find", "enqueue", "forward"} => hand[c] = None
    /\ pc[c] # "draining" => batch[c] = <<>>

NoRepeats ==
  /\ \A u \in Users : NoTwice(queue[u])
  /\ \A c \in Chans : NoTwice(batch[c]) /\ NoTwice(tasks[c]) /\ NoTwice(wire[c])

Located ==
  \A m \in Msgs : IF m \in stored THEN InOneSpot(m)
                  ELSE \A p \in Places : Spot(p, m) = {}

PInv == IInv /\ EmptyHanded /\ NoRepeats /\ Located

-----------------------------------------------------------------------------
(* Sequences without repetitions.                                          *)

LEMMA AppendElems ==
  ASSUME NEW S, NEW s \in Seq(S), NEW e \in S
  PROVE  /\ Append(s, e) \in Seq(S)
         /\ Elems(Append(s, e)) = Elems(s) \cup {e}
         /\ NoTwice(s) /\ e \notin Elems(s) => NoTwice(Append(s, e))
  <1>1. /\ Append(s, e) \in Seq(S)
        /\ DOMAIN Append(s, e) = 1..(Len(s) + 1) /\ DOMAIN s = 1..Len(s)
        /\ Append(s, e)[Len(s) + 1] = e
        /\ \A i \in DOMAIN s : Append(s, e)[i] = s[i]
        /\ Len(s) \in Nat
    OBVIOUS
  <1>2. Elems(Append(s, e)) = Elems(s) \cup {e}
    <2>1. \A i \in DOMAIN Append(s, e) : i \in DOMAIN s \/ i = Len(s) + 1
      BY <1>1
    <2>2. DOMAIN s \subseteq DOMAIN Append(s, e) /\ Len(s) + 1 \in DOMAIN Append(s, e)
      BY <1>1
    <2> QED  BY <1>1, <2>1, <2>2 DEF Elems
  <1>3. ASSUME NoTwice(s), e \notin Elems(s),
               NEW i \in DOMAIN Append(s, e), NEW j \in DOMAIN Append(s, e),
               Append(s, e)[i] = Append(s, e)[j]
        PROVE  i = j
    <2>1. /\ i \in DOMAIN s \/ i = Len(s) + 1
          /\ j \in DOMAIN s \/ j = Len(s) + 1
      BY <1>1
    <2> QED  BY <1>1, <1>3, <2>1 DEF NoTwice, Elems
  <1> QED  BY <1>1, <1>2, <1>3 DEF NoTwice

LEMMA TailElems ==
  ASSUME NEW S, NEW s \in Seq(S), s # <<>>, NoTwice(s)
  PROVE  /\ Head(s) \in S /\ Head(s) \in Elems(s)
         /\ Tail(s) \in Seq(S)
         /\ Elems(Tail(s)) = Elems(s) \ {Head(s)}
         /\ NoTwice(Tail(s))
  <1>1. /\ Len(s) \in Nat \ {0} /\ DOMAIN s = 1..Len(s)
        /\ Head(s) \in S /\ Head(s) = s[1] /\ 1 \in DOMAIN s
        /\ Tail(s) \in Seq(S) /\ DOMAIN Tail(s) = 1..(Len(s) - 1)
        /\ \A i \in DOMAIN Tail(s) : i + 1 \in DOMAIN s /\ Tail(s)[i] = s[i + 1]
    OBVIOUS
  <1>2. \A i \in DOMAIN s : i = 1 \/ (i - 1 \in DOMAIN Tail(s) /\ (i - 1) + 1 = i)
    BY <1>1
  <1>3. \A i \in DOMAIN Tail(s) : i + 1 # 1
    BY <1>1
  <1>4. ASSUME NEW e PROVE e \in Elems(Tail(s)) <=> e \in Elems(s) \ {Head(s)}
    <2>1. ASSUME e \in Elems(Tail(s)) PROVE e \in Elems(s) \ {Head(s)}
      <3>1. PICK i \in DOMAIN Tail(s) : Tail(s)[i] = e
        BY <2>1 DEF Elems
      <3> QED  BY <1>1, <1>3, <3>1 DEF Elems, NoTwice
    <2>2. ASSUME e \in Elems(s), e # Head(s) PROVE e \in Elems(Tail(s))
      <3>1. PICK i \in DOMAIN s : s[i] = e
        BY <2>2 DEF Elems
      <3>2. i - 1 \in DOMAIN Tail(s) /\ Tail(s)[i - 1] = s[i]
        BY <1>1, <1>2, <3>1, <2>2
      <3> QED  BY <3>1, <3>2 DEF Elems
    <2> QED  BY <2>1, <2>2
  <1>5. ASSUME NEW i \in DOMAIN Tail(s), NEW j \in DOMAIN Tail(s), Tail(s)[i] = Tail(s)[j]
        PROVE  i = j
    <2>1. i + 1 = j + 1
      BY <1>1, <1>5 DEF NoTwice
    <2> QED  BY <1>1, <2>1
  <1>6. Head(s) \in Elems(s)
    BY <1>1 DEF Elems
  <1> QED  BY <1>1, <1>4, <1>5, <1>6 DEF NoTwice

\* g is the family f after e was appended to, or the head left, its member x.
Pushed(f, g, x, e) ==
  /\ x \in DOMAIN f /\ DOMAIN g = DOMAIN f
  /\ f[x] \in Seq(Msgs) /\ e \in Msgs /\ g[x] = Append(f[x], e)
  /\ \A y \in DOMAIN f : y # x => g[y] = f[y]

Popped(f, g, x) ==
  /\ x \in DOMAIN f /\ DOMAIN g = DOMAIN f
  /\ f[x] \in Seq(Msgs) /\ f[x] # <<>> /\ g[x] = Tail(f[x])
  /\ \A y \in DOMAIN f : y # x => g[y] = f[y]
  /\ \A y \in DOMAIN f : NoTwice(f[y])

LEMMA PushedHaving ==
  ASSUME NEW f, NEW g, NEW x, NEW e, Pushed(f, g, x, e)
  PROVE  Having(g, e) = Having(f, e) \cup {x}
  <1>1. Elems(Append(f[x], e)) = Elems(f[x]) \cup {e}
    BY AppendElems DEF Pushed
  <1> QED  BY <1>1 DEF Having, Pushed

LEMMA PushedOthers ==
  ASSUME NEW f, NEW g, NEW x, NEW e, Pushed(f, g, x, e)
  PROVE  \A n : n # e => Having(g, n) = Having(f, n)
  <1>1. Elems(Append(f[x], e)) = Elems(f[x]) \cup {e}
    BY AppendElems DEF Pushed
  <1> QED  BY <1>1 DEF Having, Pushed

LEMMA PushedTwice ==
  ASSUME NEW f, NEW g, NEW x, NEW e, Pushed(f, g, x, e),
         \A y \in DOMAIN f : NoTwice(f[y]), Having(f, e) = {}
  PROVE  \A y \in DOMAIN f : NoTwice(g[y])
  <1>1. e \notin Elems(f[x])
    BY DEF Having, Pushed
  <1>2. NoTwice(Append(f[x], e))
    BY <1>1, AppendElems DEF Pushed
  <1> QED  BY <1>2 DEF Pushed

LEMMA PoppedHead ==
  ASSUME NEW f, NEW g, NEW x, Popped(f, g, x)
  PROVE  Head(f[x]) \in Msgs /\ x \in Having(f, Head(f[x]))
  <1>1. Head(f[x]) \in Msgs /\ Head(f[x]) \in Elems(f[x])
    BY TailElems DEF Popped
  <1> QED  BY <1>1 DEF Having, Popped

LEMMA PoppedHaving ==
  ASSUME NEW f, NEW g, NEW x, Popped(f, g, x)
  PROVE  Having(g, Head(f[x])) = Having(f, Head(f[x])) \ {x}
  <1>1. Elems(Tail(f[x])) = Elems(f[x]) \ {Head(f[x])}
    BY TailElems DEF Popped
  <1> QED  BY <1>1 DEF Having, Popped

LEMMA PoppedOthers ==
  ASSUME NEW f, NEW g, NEW x, Popped(f, g, x)
  PROVE  \A n : n # Head(f[x]) => Having(g, n) = Having(f, n)
  <1>1. Elems(Tail(f[x])) = Elems(f[x]) \ {Head(f[x])}
    BY TailElems DEF Popped
  <1> QED  BY <1>1 DEF Having, Popped

LEMMA PoppedTwice ==
  ASSUME NEW f, NEW g, NEW x, Popped(f, g, x)
  PROVE  \A y \in DOMAIN f : NoTwice(g[y])
  <1>1. NoTwice(Tail(f[x]))
    BY TailElems DEF Popped
  <1> QED  BY <1>1 DEF Popped

-----------------------------------------------------------------------------
(* A frame that is moved.                                                  *)

LEMMA SpotDef ==
  \A m : /\ Spot("hand", m) = {c \in Chans : hand[c] = m}
         /\ Spot("queue", m) = Having(queue, m)
         /\ Spot("batch", m) = Having(batch, m)
         /\ Spot("task", m) = Having(tasks, m)
         /\ Spot("wire", m) = Having(wire, m)
         /\ Spot("evicted", m) = {m} \cap evicted
         /\ Spot("lost", m) = {m} \cap lost
  BY DEF Spot

LEMMA OnlySpot ==
  ASSUME Located, NEW m \in Msgs, NEW p \in Places, Spot(p, m) # {}
  PROVE  /\ m \in stored
         /\ \E x : Spot(p, m) = {x}
         /\ \A q \in Places \ {p} : Spot(q, m) = {}
  BY DEF Located, InOneSpot

LEMMA Moved ==
  ASSUME Located, NEW m \in Msgs, NEW p \in Places, NEW q \in Places \ {p}, NEW y,
         Spot(p, m) # {}, Spot(p, m)' = {}, Spot(q, m)' = {y},
         \A r \in Places \ {p, q} : Spot(r, m)' = Spot(r, m)
  PROVE  InOneSpot(m)'
  BY OnlySpot DEF InOneSpot

LEMMA Stayed ==
  ASSUME Located, NEW m \in Msgs, m \in stored <=> m \in stored',
         \A p \in Places : Spot(p, m)' = Spot(p, m)
  PROVE  IF m \in stored' THEN InOneSpot(m)' ELSE \A p \in Places : Spot(p, m)' = {}
  BY DEF Located, InOneSpot

SpotVars == <<stored, hand, queue, batch, tasks, wire, evicted, lost>>

LEMMA Standing ==
  ASSUME NEW m \in Msgs, NEW p \in Places,
         p = "hand" => hand' = hand, p = "queue" => queue' = queue,
         p = "batch" => batch' = batch, p = "task" => tasks' = tasks,
         p = "wire" => wire' = wire, p = "evicted" => evicted' = evicted,
         p = "lost" => lost' = lost
  PROVE  Spot(p, m)' = Spot(p, m)
  BY DEF Spot, Having, Places

LEMMA PlaceUnchanged ==
  ASSUME PInv, UNCHANGED SpotVars
  PROVE  NoRepeats' /\ Located'
  <1>1. \A m \in Msgs, p \in Places : Spot(p, m)' = Spot(p, m)
    BY Standing DEF SpotVars
  <1>2. Located'
    BY <1>1 DEF PInv, Located, InOneSpot, SpotVars
  <1>3. NoRepeats'
    BY DEF PInv, NoRepeats, SpotVars
  <1> QED  BY <1>2, <1>3

\* A frame in hand belongs to a handler in the middle of relaying it.
LEMMA HandUpdate ==
  ASSUME IInv, NEW c \in Chans, NEW h \in Msgs \cup {None}, NEW m \in Msgs,
         hand' = [hand EXCEPT ![c] = h]
  PROVE  /\ hand[c] = m /\ h # m => Spot("hand", m)' = Spot("hand", m) \ {c}
         /\ h = m => Spot("hand", m)' = Spot("hand", m) \cup {c}
         /\ hand[c] # m /\ h # m => Spot("hand", m)' = Spot("hand", m)
  BY DEF Spot, IInv, TypeOK

LEMMA ReceivePlace ==
  ASSUME PInv, NEW c \in Chans, NEW m \in Msgs, Receive(c, m)
  PROVE  EmptyHanded' /\ NoRepeats' /\ Located'
  <1>1. /\ stored' = stored \cup {m} /\ m \notin stored
        /\ hand' = [hand EXCEPT ![c] = m] /\ pc' = [pc EXCEPT ![c] = "find"]
        /\ pc[c] = "ready"
        /\ UNCHANGED <<queue, batch, tasks, wire, evicted, lost>>
    BY DEF Receive, Dispatching, Free
  <1>2. hand[c] = None /\ None \notin Msgs
    BY <1>1, NoneAssumption DEF PInv, EmptyHanded
  <1>3. EmptyHanded'
    BY <1>1 DEF PInv, IInv, TypeOK, EmptyHanded
  <1>4. NoRepeats'
    BY <1>1 DEF PInv, NoRepeats
  <1>5. \A n \in Msgs, p \in Places \ {"hand"} : Spot(p, n)' = Spot(p, n)
    BY <1>1, Standing
  <1>6. ASSUME NEW n \in Msgs \ {m} PROVE Spot("hand", n)' = Spot("hand", n)
    <2>1. hand[c] # n /\ m # n /\ IInv
      BY <1>2 DEF PInv
    <2> QED  BY <1>1, <2>1, HandUpdate
  <1>7. InOneSpot(m)'
    <2>1. \A p \in Places : Spot(p, m) = {}
      BY <1>1 DEF PInv, Located
    <2>2. Spot("hand", m)' = {c}
      <3>1. Spot("hand", m) = {} /\ IInv
        BY <2>1 DEF Places, PInv
      <3>2. Spot("hand", m)' = Spot("hand", m) \cup {c}
        BY <1>1, <3>1, HandUpdate
      <3> QED  BY <3>1, <3>2
    <2> QED  BY <1>5, <2>1, <2>2 DEF InOneSpot, Places
  <1>8. ASSUME NEW n \in Msgs \ {m}
        PROVE  IF n \in stored' THEN InOneSpot(n)' ELSE \A p \in Places : Spot(p, n)' = {}
    BY <1>1, <1>5, <1>6, Stayed DEF PInv
  <1>9. Located'
    BY <1>1, <1>7, <1>8 DEF Located
  <1> QED  BY <1>3, <1>4, <1>9

(***************************************************************************)
(* A write of the frame m, which is in place p and leaves it, on the loop  *)
(* of c.                                                                   *)
(***************************************************************************)
LEMMA WritePlace ==
  ASSUME PInv, NEW c \in Chans, NEW m \in Msgs, WriteOn(c, m),
         NEW p \in {"hand", "batch", "task"}, Spot(p, m) # {}, Spot(p, m)' = {},
         \A n \in Msgs \ {m} : Spot(p, n)' = Spot(p, n),
         \A n \in Msgs, q \in Places \ {p, "wire", "lost"} : Spot(q, n)' = Spot(q, n),
         stored' = stored
  PROVE  (\A d \in Chans : NoTwice(wire'[d])) /\ Located'
  <1>1. /\ p \in Places /\ "wire" \in Places \ {p} /\ "lost" \in Places \ {p}
        /\ "wire" # "lost"
    BY DEF Places
  <1>2. /\ Spot("wire", m) = {} /\ Spot("lost", m) = {}
        /\ m \in stored
    BY <1>1, OnlySpot DEF PInv
  <1>3. Having(wire, m) = {} /\ m \notin lost
    BY <1>2, SpotDef
  <1>4. PICK q \in {"wire", "lost"} :
          /\ \E y : Spot(q, m)' = {y}
          /\ \A r \in {"wire", "lost"} \ {q} : Spot(r, m)' = Spot(r, m)
          /\ \A n \in Msgs \ {m}, r \in {"wire", "lost"} : Spot(r, n)' = Spot(r, n)
          /\ \A d \in Chans : NoTwice(wire'[d])
    <2>1. CASE Active(c)
      <3>1. wire' = [wire EXCEPT ![c] = Append(wire[c], m)] /\ lost' = lost
        BY <2>1 DEF WriteOn
      <3>2. wire \in [Chans -> Seq(Msgs)] /\ \A d \in Chans : NoTwice(wire[d])
        BY DEF PInv, IInv, TypeOK, NoRepeats
      <3>3. /\ Having(wire', m) = Having(wire, m) \cup {c}
            /\ \A n : n # m => Having(wire', n) = Having(wire, n)
            /\ \A d \in Chans : NoTwice(wire'[d])
        <4>1. Pushed(wire, wire', c, m) /\ DOMAIN wire = Chans
          BY <3>1, <3>2 DEF Pushed
        <4> QED  BY <1>3, <3>2, <4>1, PushedHaving, PushedOthers, PushedTwice
      <3>4. /\ Spot("wire", m)' = {c}
            /\ \A n \in Msgs \ {m} : Spot("wire", n)' = Spot("wire", n)
        BY <1>3, <3>3 DEF Spot
      <3>5. \A n \in Msgs : Spot("lost", n)' = Spot("lost", n)
        BY <3>1 DEF Spot
      <3> WITNESS "wire" \in {"wire", "lost"}
      <3> QED  BY <3>3, <3>4, <3>5
    <2>2. CASE ~Active(c)
      <3>1. lost' = lost \cup {m} /\ wire' = wire
        BY <2>2 DEF WriteOn
      <3>2. /\ Spot("lost", m)' = {m}
            /\ \A n \in Msgs \ {m} : Spot("lost", n)' = Spot("lost", n)
        BY <3>1 DEF Spot
      <3>3. \A n \in Msgs : Spot("wire", n)' = Spot("wire", n)
        BY <3>1 DEF Spot, Having
      <3>4. \A d \in Chans : NoTwice(wire'[d])
        BY <3>1 DEF PInv, NoRepeats
      <3> WITNESS "lost" \in {"wire", "lost"}
      <3> QED  BY <3>2, <3>3, <3>4
    <2> QED  BY <2>1, <2>2
  <1>5. InOneSpot(m)'
    <2>1. q \in Places \ {p}
      BY <1>1
    <2>2. PICK y : Spot(q, m)' = {y}
      BY <1>4
    <2>3. \A r \in Places \ {p, q} : Spot(r, m)' = Spot(r, m)
      BY <1>4
    <2> QED  BY <1>1, <2>1, <2>2, <2>3, Moved DEF PInv
  <1>6. ASSUME NEW n \in Msgs \ {m}
        PROVE  IF n \in stored' THEN InOneSpot(n)' ELSE \A r \in Places : Spot(r, n)' = {}
    <2>1. \A r \in Places : Spot(r, n)' = Spot(r, n)
      BY <1>4
    <2> QED  BY <2>1, Stayed DEF PInv
  <1>7. Located'
    BY <1>2, <1>5, <1>6 DEF Located
  <1> QED  BY <1>4, <1>7

\* The head of a family of which each member holds a frame once leaves it.
LEMMA HeadLeaves ==
  ASSUME Located, NEW p \in Places, NEW f, NEW g, NEW x, Popped(f, g, x),
         NEW m, m = Head(f[x]),
         \A n \in Msgs : Spot(p, n) = Having(f, n) /\ Spot(p, n)' = Having(g, n)
  PROVE  /\ m \in Msgs /\ Spot(p, m) # {} /\ Spot(p, m)' = {}
         /\ \A n \in Msgs \ {m} : Spot(p, n)' = Spot(p, n)
  <1>1. m \in Msgs /\ x \in Spot(p, m)
    BY PoppedHead
  <1>2. Spot(p, m)' = Spot(p, m) \ {x}
    BY <1>1, PoppedHaving
  <1>3. Spot(p, m) = {x}
    BY <1>1, OnlySpot
  <1>4. \A n \in Msgs : n # m => Spot(p, n)' = Spot(p, n)
    BY PoppedOthers
  <1> QED  BY <1>1, <1>2, <1>3, <1>4

LEMMA RunTaskPlace ==
  ASSUME PInv, NEW c \in Chans, RunTask(c)
  PROVE  EmptyHanded' /\ NoRepeats' /\ Located'
  <1>0. PICK m : m = Head(tasks[c])
    OBVIOUS
  <1>1. /\ tasks[c] # <<>> /\ tasks' = [tasks EXCEPT ![c] = Tail(tasks[c])]
        /\ WriteOn(c, m)
        /\ UNCHANGED <<pc, stored, hand, queue, batch, evicted>>
    BY <1>0 DEF RunTask
  <1>2. tasks \in [Chans -> Seq(Msgs)] /\ \A d \in Chans : NoTwice(tasks[d])
    BY DEF PInv, IInv, TypeOK, NoRepeats
  <1>3. Popped(tasks, tasks', c)
    BY <1>1, <1>2 DEF Popped
  <1>4. /\ m \in Msgs /\ Spot("task", m) # {} /\ Spot("task", m)' = {}
        /\ \A n \in Msgs \ {m} : Spot("task", n)' = Spot("task", n)
    <2>1. "task" \in Places
      BY DEF Places
    <2>2. \A n \in Msgs : Spot("task", n) = Having(tasks, n)
                       /\ Spot("task", n)' = Having(tasks', n)
      BY DEF Spot, Having
    <2> QED  BY <1>0, <1>3, <2>1, <2>2, HeadLeaves DEF PInv
  <1>5. \A n \in Msgs, q \in Places \ {"task", "wire", "lost"} : Spot(q, n)' = Spot(q, n)
    BY <1>1, Standing
  <1>6. (\A d \in Chans : NoTwice(wire'[d])) /\ Located'
    BY <1>1, <1>4, <1>5, WritePlace
  <1>7. \A d \in Chans : NoTwice(tasks'[d])
    BY <1>2, <1>3, PoppedTwice
  <1>8. EmptyHanded'
    BY <1>1 DEF PInv, EmptyHanded
  <1> QED  BY <1>1, <1>6, <1>7, <1>8 DEF PInv, NoRepeats

LEMMA DrainWritePlace ==
  ASSUME PInv, NEW c \in Chans, DrainWrite(c)
  PROVE  EmptyHanded' /\ NoRepeats' /\ Located'
  <1>0. PICK m : m = Head(batch[c])
    OBVIOUS
  <1>1. /\ batch[c] # <<>> /\ batch' = [batch EXCEPT ![c] = Tail(batch[c])]
        /\ pc[c] = "draining" /\ WriteOn(c, m)
        /\ UNCHANGED <<pc, stored, hand, queue, tasks, evicted>>
    BY <1>0 DEF DrainWrite
  <1>2. batch \in [Chans -> Seq(Msgs)] /\ \A d \in Chans : NoTwice(batch[d])
    BY DEF PInv, IInv, TypeOK, NoRepeats
  <1>3. Popped(batch, batch', c)
    BY <1>1, <1>2 DEF Popped
  <1>4. /\ m \in Msgs /\ Spot("batch", m) # {} /\ Spot("batch", m)' = {}
        /\ \A n \in Msgs \ {m} : Spot("batch", n)' = Spot("batch", n)
    <2>1. "batch" \in Places
      BY DEF Places
    <2>2. \A n \in Msgs : Spot("batch", n) = Having(batch, n)
                       /\ Spot("batch", n)' = Having(batch', n)
      BY DEF Spot, Having
    <2> QED  BY <1>0, <1>3, <2>1, <2>2, HeadLeaves DEF PInv
  <1>5. \A n \in Msgs, q \in Places \ {"batch", "wire", "lost"} : Spot(q, n)' = Spot(q, n)
    BY <1>1, Standing
  <1>6. (\A d \in Chans : NoTwice(wire'[d])) /\ Located'
    BY <1>1, <1>4, <1>5, WritePlace
  <1>7. \A d \in Chans : NoTwice(batch'[d])
    BY <1>2, <1>3, PoppedTwice
  <1>8. EmptyHanded'
    BY <1>1, <1>2 DEF PInv, EmptyHanded
  <1> QED  BY <1>1, <1>6, <1>7, <1>8 DEF PInv, NoRepeats

\* A handler that is relaying m holds it, and lets go of it.
LEMMA HandLeaves ==
  ASSUME PInv, NEW c \in Chans, pc[c] \in {"find", "enqueue", "forward"},
         NEW m, m = hand[c], hand' = [hand EXCEPT ![c] = None]
  PROVE  /\ m \in Msgs /\ Spot("hand", m) # {} /\ Spot("hand", m)' = {}
         /\ \A n \in Msgs \ {m} : Spot("hand", n)' = Spot("hand", n)
  <1>1. m \in Msgs /\ IInv /\ Located
    BY DEF PInv, IInv, Handlers
  <1>2. c \in Spot("hand", m)
    BY DEF Spot
  <1>3. None \notin Msgs
    BY NoneAssumption
  <1>4. Spot("hand", m)' = Spot("hand", m) \ {c}
    <2>1. None \in Msgs \cup {None} /\ None # m /\ hand[c] = m
      BY <1>1, <1>3
    <2> QED  BY <1>1, <2>1, HandUpdate
  <1>5. Spot("hand", m) = {c}
    <2>1. "hand" \in Places
      BY DEF Places
    <2> QED  BY <1>1, <1>2, <2>1, OnlySpot
  <1>6. ASSUME NEW n \in Msgs, n # m PROVE Spot("hand", n)' = Spot("hand", n)
    <2>1. None \in Msgs \cup {None} /\ None # n /\ hand[c] # n
      BY <1>1, <1>3, <1>6
    <2> QED  BY <1>1, <2>1, HandUpdate
  <1> QED  BY <1>1, <1>2, <1>4, <1>5, <1>6

LEMMA ForwardPlace ==
  ASSUME PInv, NEW c \in Chans, Forward(c)
  PROVE  EmptyHanded' /\ NoRepeats' /\ Located'
  <1>0. PICK m, dst : m = hand[c] /\ dst = target[c]
    OBVIOUS
  <1>1. /\ hand' = [hand EXCEPT ![c] = None] /\ pc[c] = "forward"
        /\ pc' = [pc EXCEPT ![c] = "ready"]
        /\ UNCHANGED <<stored, queue, batch, evicted>>
    BY DEF Forward
  <1>2. /\ m \in Msgs /\ Spot("hand", m) # {} /\ Spot("hand", m)' = {}
        /\ \A n \in Msgs \ {m} : Spot("hand", n)' = Spot("hand", n)
    BY <1>0, <1>1, HandLeaves
  <1>3. /\ "hand" \in Places /\ "task" \in Places \ {"hand"}
        /\ "lost" \in Places \ {"hand"}
    BY DEF Places
  <1>4. /\ m \in stored /\ \A q \in Places \ {"hand"} : Spot(q, m) = {}
    BY <1>2, <1>3, OnlySpot DEF PInv
  <1>5. EmptyHanded'
    BY <1>1, NoneAssumption DEF PInv, IInv, TypeOK, EmptyHanded
  <1>6. (\A d \in Chans : NoTwice(tasks'[d]) /\ NoTwice(wire'[d])) /\ Located'
    <2>1. CASE lost' = lost \cup {m} /\ UNCHANGED <<tasks, wire>>
      <3>1. /\ Spot("lost", m)' = {m}
            /\ \A n \in Msgs \ {m} : Spot("lost", n)' = Spot("lost", n)
        BY <2>1 DEF Spot
      <3>2. \A n \in Msgs, q \in Places \ {"hand", "lost"} : Spot(q, n)' = Spot(q, n)
        BY <1>1, <2>1, Standing
      <3>3. InOneSpot(m)'
        BY <1>2, <1>3, <3>1, <3>2, Moved DEF PInv
      <3>4. ASSUME NEW n \in Msgs \ {m}
            PROVE  IF n \in stored' THEN InOneSpot(n)' ELSE \A q \in Places : Spot(q, n)' = {}
        <4>1. \A q \in Places : Spot(q, n)' = Spot(q, n)
          BY <1>2, <3>1, <3>2
        <4> QED  BY <1>1, <4>1, Stayed DEF PInv
      <3>5. Located'
        BY <1>1, <1>4, <3>3, <3>4 DEF Located
      <3> QED  BY <2>1, <3>5 DEF PInv, NoRepeats
    <2>2. CASE WriteOn(c, m) /\ UNCHANGED tasks
      <3>1. \A n \in Msgs, q \in Places \ {"hand", "wire", "lost"} : Spot(q, n)' = Spot(q, n)
        BY <1>1, <2>2, Standing
      <3>2. (\A d \in Chans : NoTwice(wire'[d])) /\ Located'
        BY <1>1, <1>2, <2>2, <3>1, WritePlace
      <3> QED  BY <2>2, <3>2 DEF PInv, NoRepeats
    <2>3. CASE tasks' = [tasks EXCEPT ![dst] = Append(tasks[dst], m)]
               /\ UNCHANGED <<wire, lost>>
      <3>1. dst \in Chans /\ tasks \in [Chans -> Seq(Msgs)]
        BY <1>0, <1>1 DEF PInv, IInv, Handlers, TypeOK
      <3>2. Pushed(tasks, tasks', dst, m)
        BY <1>2, <2>3, <3>1 DEF Pushed
      <3>3. Having(tasks, m) = {}
        BY <1>3, <1>4, SpotDef
      <3>4. /\ Spot("task", m)' = {dst}
            /\ \A n \in Msgs \ {m} : Spot("task", n)' = Spot("task", n)
        <4>1. \A n : Spot("task", n) = Having(tasks, n)
                     /\ Spot("task", n)' = Having(tasks', n)
          BY DEF Spot, Having
        <4> QED  BY <3>2, <3>3, <4>1, PushedHaving, PushedOthers
      <3>5. \A n \in Msgs, q \in Places \ {"hand", "task"} : Spot(q, n)' = Spot(q, n)
        BY <1>1, <2>3, Standing
      <3>6. InOneSpot(m)'
        BY <1>2, <1>3, <3>4, <3>5, Moved DEF PInv
      <3>7. ASSUME NEW n \in Msgs \ {m}
            PROVE  IF n \in stored' THEN InOneSpot(n)' ELSE \A q \in Places : Spot(q, n)' = {}
        <4>1. \A q \in Places : Spot(q, n)' = Spot(q, n)
          BY <1>2, <3>4, <3>5
        <4> QED  BY <1>1, <4>1, Stayed DEF PInv
      <3>8. Located'
        BY <1>1, <1>4, <3>6, <3>7 DEF Located
      <3>9. \A d \in Chans : NoTwice(tasks'[d])
        BY <3>1, <3>2, <3>3, PushedTwice DEF PInv, NoRepeats
      <3> QED  BY <2>3, <3>8, <3>9 DEF PInv, NoRepeats
    <2> QED  BY <1>0, <2>1, <2>2, <2>3 DEF Forward
  <1> QED  BY <1>1, <1>5, <1>6 DEF PInv, NoRepeats

LEMMA EnqueuePlace ==
  ASSUME PInv, NEW c \in Chans, Enqueue(c)
  PROVE  EmptyHanded' /\ NoRepeats' /\ Located'
  <1>0. PICK m, u : m = hand[c] /\ u = Recipient(hand[c])
    OBVIOUS
  <1>1. /\ hand' = [hand EXCEPT ![c] = None] /\ pc[c] = "enqueue"
        /\ pc' = [pc EXCEPT ![c] = "ready"]
        /\ UNCHANGED <<stored, batch, tasks, wire, lost>>
    BY DEF Enqueue
  <1>2. /\ m \in Msgs /\ Spot("hand", m) # {} /\ Spot("hand", m)' = {}
        /\ \A n \in Msgs \ {m} : Spot("hand", n)' = Spot("hand", n)
    BY <1>0, <1>1, HandLeaves
  <1>3. /\ u \in Users /\ queue \in [Users -> Seq(Msgs)]
        /\ \A v \in Users : NoTwice(queue[v])
    BY <1>0, <1>2, RoutingAssumption
    DEF Recipient, PInv, IInv, TypeOK, NoRepeats
  <1>4. /\ "hand" \in Places /\ "queue" \in Places \ {"hand"}
        /\ "evicted" \in Places \ {"queue"} /\ "queue" \in Places
    BY DEF Places
  <1>5. /\ m \in stored /\ \A q \in Places \ {"hand"} : Spot(q, m) = {}
    BY <1>2, <1>4, OnlySpot DEF PInv
  <1>6. Having(queue, m) = {}
    BY <1>4, <1>5, SpotDef
  <1>7. EmptyHanded'
    BY <1>1, NoneAssumption DEF PInv, IInv, TypeOK, EmptyHanded
  <1>8. \A n \in Msgs, q \in Places \ {"hand", "queue", "evicted"} :
          Spot(q, n)' = Spot(q, n)
    BY <1>1, Standing
  <1>9. \A n : Spot("queue", n) = Having(queue, n)
                /\ Spot("queue", n)' = Having(queue', n)
    BY DEF Spot, Having
  <1>10. (\A v \in Users : NoTwice(queue'[v])) /\ Located'
    <2>1. CASE ~QueueFull(u)
      <3>1. /\ queue' = [queue EXCEPT ![u] = Append(queue[u], m)]
            /\ evicted' = evicted
        BY <1>0, <2>1 DEF Enqueue
      <3>2. Pushed(queue, queue', u, m)
        BY <1>2, <1>3, <3>1 DEF Pushed
      <3>3. /\ Spot("queue", m)' = {u}
            /\ \A n \in Msgs \ {m} : Spot("queue", n)' = Spot("queue", n)
        BY <1>6, <1>9, <3>2, PushedHaving, PushedOthers
      <3>4. \A n \in Msgs : Spot("evicted", n)' = Spot("evicted", n)
        BY <3>1 DEF Spot
      <3>5. InOneSpot(m)'
        BY <1>2, <1>4, <1>8, <3>3, <3>4, Moved DEF PInv
      <3>6. ASSUME NEW n \in Msgs \ {m}
            PROVE  IF n \in stored' THEN InOneSpot(n)' ELSE \A q \in Places : Spot(q, n)' = {}
        <4>1. \A q \in Places : Spot(q, n)' = Spot(q, n)
          BY <1>2, <1>8, <3>3, <3>4
        <4> QED  BY <1>1, <4>1, Stayed DEF PInv
      <3>7. Located'
        BY <1>1, <1>5, <3>5, <3>6 DEF Located
      <3>8. \A v \in Users : NoTwice(queue'[v])
        BY <1>3, <1>6, <3>2, PushedTwice
      <3> QED  BY <3>7, <3>8
    <2>2. CASE QueueFull(u)
      <3>1. PICK e, q0 : e = Head(queue[u]) /\ q0 = [queue EXCEPT ![u] = Tail(queue[u])]
        OBVIOUS
      <3>2. /\ queue' = [queue EXCEPT ![u] = Append(Tail(queue[u]), m)]
            /\ evicted' = evicted \cup {e}
        BY <1>0, <2>2, <3>1 DEF Enqueue
      <3>3. queue[u] # <<>> /\ queue[u] \in Seq(Msgs)
        <4>1. queue[u] \in Seq(Msgs) /\ Len(queue[u]) >= QueueMax /\ QueueMax \in Nat \ {0}
          BY <1>3, <2>2, QueueMaxAssumption DEF QueueFull
        <4> QED  BY <4>1
      <3>4. Popped(queue, q0, u)
        BY <1>3, <3>1, <3>3 DEF Popped
      <3>5. e \in Msgs /\ u \in Having(queue, e) /\ e # m
        BY <1>6, <3>1, <3>4, PoppedHead
      <3>6. /\ Having(q0, e) = Having(queue, e) \ {u}
            /\ \A n : n # e => Having(q0, n) = Having(queue, n)
            /\ \A v \in Users : NoTwice(q0[v])
        <4>1. Having(q0, e) = Having(queue, e) \ {u}
          BY <3>1, <3>4, PoppedHaving
        <4>2. \A n : n # e => Having(q0, n) = Having(queue, n)
          BY <3>1, <3>4, PoppedOthers
        <4>3. \A v \in Users : NoTwice(q0[v])
          BY <1>3, <3>4, PoppedTwice
        <4> QED  BY <4>1, <4>2, <4>3
      <3>7. Pushed(q0, queue', u, m) /\ DOMAIN q0 = Users
        <4>1. /\ DOMAIN q0 = Users /\ q0[u] = Tail(queue[u])
              /\ \A v \in Users : v # u => q0[v] = queue[v]
          BY <1>3, <3>1
        <4>2. /\ DOMAIN queue' = Users /\ queue'[u] = Append(Tail(queue[u]), m)
              /\ \A v \in Users : v # u => queue'[v] = queue[v]
          BY <1>3, <3>2
        <4>3. Tail(queue[u]) \in Seq(Msgs)
          BY <3>3
        <4> QED  BY <1>2, <1>3, <4>1, <4>2, <4>3 DEF Pushed
      <3>8. /\ Having(queue', m) = Having(q0, m) \cup {u}
            /\ \A n : n # m => Having(queue', n) = Having(q0, n)
        BY <3>7, PushedHaving, PushedOthers
      <3>9. \A v \in Users : NoTwice(queue'[v])
        <4>1. Having(q0, m) = {}
          BY <1>6, <3>5, <3>6
        <4> QED  BY <3>6, <3>7, <4>1, PushedTwice
      <3>10. Spot("queue", e) = {u} /\ \A q \in Places \ {"queue"} : Spot(q, e) = {}
        <4>1. u \in Spot("queue", e)
          BY <1>9, <3>5
        <4> QED  BY <1>4, <3>5, <4>1, OnlySpot DEF PInv
      <3>11. /\ Spot("queue", m)' = {u} /\ Spot("queue", e)' = {}
             /\ \A n \in Msgs \ {m, e} : Spot("queue", n)' = Spot("queue", n)
        BY <1>6, <1>9, <3>5, <3>6, <3>8, <3>10
      <3>12. /\ Spot("evicted", e)' = {e}
             /\ \A n \in Msgs \ {e} : Spot("evicted", n)' = Spot("evicted", n)
        BY <3>2 DEF Spot
      <3>13. InOneSpot(m)'
        <4>1. \A q \in Places \ {"hand", "queue"} : Spot(q, m)' = Spot(q, m)
          BY <1>2, <1>8, <3>5, <3>12
        <4> QED  BY <1>2, <1>4, <3>11, <4>1, Moved DEF PInv
      <3>14. InOneSpot(e)' /\ e \in stored
        <4>1. \A q \in Places \ {"queue", "evicted"} : Spot(q, e)' = Spot(q, e)
          BY <1>2, <1>8, <3>5
        <4>2. Spot("queue", e) # {}
          BY <3>10
        <4>3. InOneSpot(e)'
          BY <1>4, <3>5, <3>11, <3>12, <4>1, <4>2, Moved DEF PInv
        <4> QED  BY <1>4, <3>5, <4>2, <4>3, OnlySpot DEF PInv
      <3>15. ASSUME NEW n \in Msgs \ {m, e}
             PROVE  IF n \in stored' THEN InOneSpot(n)' ELSE \A q \in Places : Spot(q, n)' = {}
        <4>1. \A q \in Places : Spot(q, n)' = Spot(q, n)
          BY <1>2, <1>8, <3>11, <3>12
        <4> QED  BY <1>1, <4>1, Stayed DEF PInv
      <3>16. Located'
        BY <1>1, <1>5, <3>13, <3>14, <3>15 DEF Located
      <3> QED  BY <3>9, <3>16
    <2> QED  BY <2>1, <2>2
  <1> QED  BY <1>1, <1>7, <1>10 DEF PInv, NoRepeats

LEMMA DrainTakePlace ==
  ASSUME PInv, NEW c \in Chans, DrainTake(c)
  PROVE  EmptyHanded' /\ NoRepeats' /\ Located'
  <1>0. PICK u, s : u = authUser[c] /\ s = queue[u]
    OBVIOUS
  <1>1. /\ batch' = [batch EXCEPT ![c] = s] /\ queue' = [queue EXCEPT ![u] = <<>>]
        /\ pc[c] = "drain" /\ pc' = [pc EXCEPT ![c] = "draining"]
        /\ UNCHANGED <<stored, hand, tasks, wire, evicted, lost>>
    BY <1>0 DEF DrainTake, RemoveQueue
  <1>2. /\ u \in Users /\ queue \in [Users -> Seq(Msgs)] /\ s \in Seq(Msgs)
        /\ batch \in [Chans -> Seq(Msgs)] /\ batch[c] = <<>>
        /\ NoTwice(s)
    BY <1>0, <1>1 DEF PInv, IInv, Handlers, TypeOK, EmptyHanded, NoRepeats
  <1>3. EmptyHanded'
    BY <1>1, <1>2 DEF PInv, IInv, TypeOK, EmptyHanded
  <1>4. NoRepeats'
    <2>1. NoTwice(<<>>)
      BY DEF NoTwice
    <2> QED  BY <1>1, <1>2, <2>1 DEF PInv, NoRepeats
  <1>5. \A n \in Msgs, q \in Places \ {"queue", "batch"} : Spot(q, n)' = Spot(q, n)
    BY <1>1, Standing
  <1>6. Elems(<<>>) = {}
    BY DEF Elems
  <1>7. /\ \A n : Spot("queue", n) = Having(queue, n)
                  /\ Spot("queue", n)' = Having(queue', n)
        /\ \A n : Spot("batch", n) = Having(batch, n)
                  /\ Spot("batch", n)' = Having(batch', n)
    BY DEF Spot, Having
  <1>8. /\ \A n : Having(queue', n) = Having(queue, n) \ {u}
        /\ \A n \in Elems(s) : Having(batch', n) = Having(batch, n) \cup {c}
        /\ \A n : n \notin Elems(s) => Having(batch', n) = Having(batch, n)
        /\ \A n : u \in Having(queue, n) <=> n \in Elems(s)
    <2>1. /\ DOMAIN queue' = Users /\ queue'[u] = <<>> /\ DOMAIN queue = Users
          /\ \A v \in Users : v # u => queue'[v] = queue[v]
      BY <1>1, <1>2
    <2>2. /\ DOMAIN batch' = Chans /\ batch'[c] = s /\ DOMAIN batch = Chans
          /\ \A d \in Chans : d # c => batch'[d] = batch[d]
      BY <1>1, <1>2
    <2>3. \A n : Having(queue', n) = Having(queue, n) \ {u}
      BY <1>6, <2>1 DEF Having
    <2>4. \A n \in Elems(s) : Having(batch', n) = Having(batch, n) \cup {c}
      BY <2>2 DEF Having
    <2>5. \A n : n \notin Elems(s) => Having(batch', n) = Having(batch, n)
      BY <1>2, <1>6, <2>2 DEF Having
    <2>6. \A n : u \in Having(queue, n) <=> n \in Elems(s)
      BY <1>0, <1>2 DEF Having
    <2> QED  BY <2>3, <2>4, <2>5, <2>6
  <1>9. "queue" \in Places /\ "batch" \in Places \ {"queue"}
    BY DEF Places
  <1>10. ASSUME NEW n \in Msgs
         PROVE  IF n \in stored' THEN InOneSpot(n)' ELSE \A q \in Places : Spot(q, n)' = {}
    <2>1. CASE n \in Elems(s)
      <3>1. u \in Spot("queue", n)
        BY <1>7, <1>8, <2>1
      <3>2. /\ Spot("queue", n) = {u} /\ n \in stored
            /\ \A q \in Places \ {"queue"} : Spot(q, n) = {}
        BY <1>9, <3>1, OnlySpot DEF PInv
      <3>3. Spot("queue", n)' = {} /\ Spot("batch", n)' = {c}
        BY <1>7, <1>8, <1>9, <2>1, <3>2
      <3>4. InOneSpot(n)'
        BY <1>5, <1>9, <3>1, <3>3, Moved DEF PInv
      <3> QED  BY <1>1, <3>2, <3>4
    <2>2. CASE n \notin Elems(s)
      <3>1. \A q \in Places : Spot(q, n)' = Spot(q, n)
        <4>1. Spot("queue", n)' = Spot("queue", n)
          <5>1. u \notin Having(queue, n)
            BY <1>8, <2>2
          <5>2. Having(queue', n) = Having(queue, n)
            BY <1>8, <5>1
          <5> QED  BY <1>7, <5>2
        <4>2. Spot("batch", n)' = Spot("batch", n)
          BY <1>7, <1>8, <2>2
        <4> QED  BY <1>5, <4>1, <4>2
      <3> QED  BY <1>1, <3>1, Stayed DEF PInv
    <2> QED  BY <2>1, <2>2
  <1>11. Located'
    BY <1>10 DEF Located
  <1> QED  BY <1>3, <1>4, <1>11

\* The steps that move no frame.
LEMMA OtherPlace ==
  ASSUME PInv, NEW c \in Chans,
         \/ Connect(c) \/ Close(c) \/ ChannelInactive(c) \/ Logout(c)
         \/ \E u \in Users : Auth(c, u)
         \/ Find(c) \/ DrainDone(c)
  PROVE  EmptyHanded' /\ NoRepeats' /\ Located'
  <1>1. UNCHANGED SpotVars
    BY DEF SpotVars, Connect, Close, ChannelInactive, Logout, Auth, Find, DrainDone,
           connVars
  <1>2. EmptyHanded'
    <2>1. CASE Connect(c) \/ Close(c) \/ ChannelInactive(c) \/ Logout(c)
      BY <1>1, <2>1 DEF SpotVars, Connect, Close, ChannelInactive, Logout, PInv, EmptyHanded
    <2>2. CASE \E u \in Users : Auth(c, u)
      BY <1>1, <2>2 DEF SpotVars, Auth, Dispatching, Free, PInv, IInv, TypeOK, EmptyHanded
    <2>3. CASE Find(c)
      <3>1. pc[c] = "find" /\ \E x \in {"forward", "enqueue"} : pc' = [pc EXCEPT ![c] = x]
        BY <2>3 DEF Find
      <3> QED  BY <1>1, <3>1 DEF SpotVars, PInv, IInv, TypeOK, EmptyHanded
    <2>4. CASE DrainDone(c)
      BY <1>1, <2>4 DEF SpotVars, DrainDone, PInv, IInv, TypeOK, EmptyHanded
    <2> QED  BY <2>1, <2>2, <2>3, <2>4
  <1> QED  BY <1>1, <1>2, PlaceUnchanged

LEMMA InitPInv == Init => PInv
  <1> SUFFICES ASSUME Init PROVE PInv
    OBVIOUS
  <1>1. IInv
    BY InitIInv
  <1>2. Elems(<<>>) = {} /\ NoTwice(<<>>)
    BY DEF Elems, NoTwice
  <1>3. EmptyHanded /\ NoRepeats
    BY <1>2 DEF Init, EmptyHanded, NoRepeats
  <1>4. ASSUME NEW m \in Msgs, NEW p \in Places PROVE Spot(p, m) = {}
    BY <1>2, NoneAssumption DEF Init, Spot, Having, Places
  <1>5. Located
    BY <1>4 DEF Init, Located
  <1> QED  BY <1>1, <1>3, <1>5 DEF PInv

LEMMA NextPInv == PInv /\ [Next]_vars => PInv'
  <1> SUFFICES ASSUME PInv, [Next]_vars PROVE PInv'
    OBVIOUS
  <1>1. IInv'
    BY NextIInv DEF PInv
  <1>2. CASE UNCHANGED vars
    <2>1. UNCHANGED SpotVars /\ pc' = pc
      BY <1>2 DEF vars, SpotVars
    <2>2. EmptyHanded'
      BY <2>1 DEF SpotVars, PInv, EmptyHanded
    <2> QED  BY <1>1, <2>1, <2>2, PlaceUnchanged DEF PInv
  <1>3. ASSUME NEW c \in Chans, LoopStep(c) PROVE EmptyHanded' /\ NoRepeats' /\ Located'
    BY <1>3, RunTaskPlace, DrainTakePlace, DrainWritePlace, EnqueuePlace,
       ForwardPlace, OtherPlace DEF LoopStep
  <1>4. CASE Next
    <2>1. EmptyHanded' /\ NoRepeats' /\ Located'
      BY <1>3, <1>4, ReceivePlace, OtherPlace DEF Next
    <2> QED  BY <1>1, <2>1 DEF PInv
  <1> QED  BY <1>2, <1>4

\* Every accepted frame is in one place, and no sequence holds one twice.
THEOREM PlacesInductive == Spec => []PInv
  BY InitPInv, NextPInv, PTL DEF Spec

LEMMA OccursNot ==
  ASSUME NEW f, NEW m, Having(f, m) = {}
  PROVE  Occurrences(f, m) = 0
  <1>1. UNION {{<<x, i>> : i \in {j \in DOMAIN f[x] : f[x][j] = m}} : x \in DOMAIN f} = {}
    BY DEF Having, Elems
  <1> QED  BY <1>1, FS_EmptySet DEF Occurrences

LEMMA OccursOnce ==
  ASSUME NEW f, NEW m, NEW x, Having(f, m) = {x}, NoTwice(f[x])
  PROVE  Occurrences(f, m) = 1
  <1> DEFINE At(y) == {<<y, i>> : i \in {j \in DOMAIN f[y] : f[y][j] = m}}
             All == UNION {At(y) : y \in DOMAIN f}
  <1>1. x \in DOMAIN f /\ m \in Elems(f[x])
    BY DEF Having
  <1>2. PICK i \in DOMAIN f[x] : f[x][i] = m
    BY <1>1 DEF Elems
  <1>3. At(x) = {<<x, i>>}
    BY <1>2 DEF NoTwice
  <1>4. ASSUME NEW y \in DOMAIN f, y # x PROVE At(y) = {}
    BY <1>4 DEF Having, Elems
  <1>5. All = {<<x, i>>}
    <2> HIDE DEF At
    <2> QED  BY <1>1, <1>3, <1>4
  <1>6. Cardinality(All) = 1
    BY <1>5, FS_Singleton
  <1> QED  BY <1>6 DEF Occurrences

\* Every accepted frame is in exactly one place.
THEOREM OnePlaceHolds == Spec => []OnePlace
  <1>1. PInv => OnePlace
    <2> SUFFICES ASSUME PInv, NEW m \in stored
                 PROVE  1 = Cardinality({c \in Chans : hand[c] = m})
                            + Occurrences(queue, m) + Occurrences(batch, m)
                            + Occurrences(tasks, m) + Occurrences(wire, m)
                            + (IF m \in evicted THEN 1 ELSE 0)
                            + (IF m \in lost THEN 1 ELSE 0)
      BY DEF OnePlace
    <2>1. m \in Msgs /\ InOneSpot(m)
      BY DEF PInv, IInv, TypeOK, Located
    <2>2. PICK p \in Places : /\ \E x : Spot(p, m) = {x}
                              /\ \A q \in Places \ {p} : Spot(q, m) = {}
      BY <2>1 DEF InOneSpot
    <2> DEFINE One(q) == IF p = q THEN 1 ELSE 0
    <2>3. Cardinality({c \in Chans : hand[c] = m}) = One("hand")
      <3>1. Spot("hand", m) = {c \in Chans : hand[c] = m} /\ "hand" \in Places
        BY DEF Spot, Places
      <3> QED  BY <2>2, <3>1, FS_EmptySet, FS_Singleton
    <2>4. ASSUME NEW f, NEW q \in Places, Spot(q, m) = Having(f, m),
                 \A x \in DOMAIN f : NoTwice(f[x])
          PROVE  Occurrences(f, m) = One(q)
      <3>1. CASE p = q
        <4>1. PICK x : Having(f, m) = {x}
          BY <2>2, <2>4, <3>1
        <4>2. x \in DOMAIN f
          BY <4>1 DEF Having
        <4> QED  BY <2>4, <3>1, <4>1, <4>2, OccursOnce
      <3>2. CASE p # q
        BY <2>2, <2>4, <3>2, OccursNot
      <3> QED  BY <3>1, <3>2
    <2>5. /\ Occurrences(queue, m) = One("queue")
          /\ Occurrences(batch, m) = One("batch")
          /\ Occurrences(tasks, m) = One("task")
          /\ Occurrences(wire, m) = One("wire")
      <3> HIDE DEF One
      <3>1. /\ \A x \in DOMAIN queue : NoTwice(queue[x])
            /\ \A x \in DOMAIN batch : NoTwice(batch[x])
            /\ \A x \in DOMAIN tasks : NoTwice(tasks[x])
            /\ \A x \in DOMAIN wire : NoTwice(wire[x])
        BY DEF PInv, IInv, TypeOK, NoRepeats
      <3>2. {"queue", "batch", "task", "wire"} \subseteq Places
        BY DEF Places
      <3> QED  BY <2>4, <3>1, <3>2, SpotDef
    <2>6. (IF m \in evicted THEN 1 ELSE 0) = One("evicted")
      <3>1. Spot("evicted", m) = {m} \cap evicted /\ "evicted" \in Places
        BY DEF Spot, Places
      <3> QED  BY <2>2, <3>1
    <2>7. (IF m \in lost THEN 1 ELSE 0) = One("lost")
      <3>1. Spot("lost", m) = {m} \cap lost /\ "lost" \in Places
        BY DEF Spot, Places
      <3> QED  BY <2>2, <3>1
    <2>8. One("hand") + One("queue") + One("batch") + One("task") + One("wire")
          + One("evicted") + One("lost") = 1
      BY DEF Places
    <2> QED
      <3> HIDE DEF One
      <3> QED  BY <2>3, <2>5, <2>6, <2>7, <2>8
  <1> QED  BY <1>1, PlacesInductive, PTL

-----------------------------------------------------------------------------
(* Why a frame is given up.                                                *)

\* Only a channel that was accepted authenticates, and an accepted channel
\* is never new again.
Used == \A c \in Chans : authed[c] # {} => conn[c] # "new"

LostCause ==
  \A m \in lost :
    \E c \in Chans : conn[c] \in {"closing", "closed"} /\ To[m] \in authed[c]

EvictedCause ==
  \A m \in evicted :
    Cardinality({x \in stored \ {m} : To[x] = To[m]}) >= QueueMax

CInv == PInv /\ Used /\ LostCause /\ IsFiniteSet(stored) /\ EvictedCause

LEMMA UsedStep ==
  ASSUME IInv, Used, [Next]_vars
  PROVE  /\ Used'
         /\ \A c \in Chans : authed[c] \subseteq authed'[c]
         /\ \A c \in Chans : conn[c] \in {"closing", "closed"}
                               => conn'[c] \in {"closing", "closed"}
  <1>1. CASE UNCHANGED <<conn, authed>>
    BY <1>1 DEF Used
  <1>2. ASSUME NEW c \in Chans, Connect(c) \/ Close(c) \/ ChannelInactive(c) \/ Logout(c)
        PROVE  /\ authed' = authed
               /\ conn[c] # "new" => conn'[c] \in {"closing", "closed"}
               /\ conn[c] = "new" => conn'[c] # "new"
               /\ \A d \in Chans \ {c} : conn'[d] = conn[d]
    BY <1>2 DEF Connect, Close, ChannelInactive, Logout, Dispatching, Free, IInv, TypeOK
  <1>3. ASSUME NEW c \in Chans, NEW u \in Users, Auth(c, u)
        PROVE  /\ conn' = conn /\ conn[c] # "new"
               /\ \A d \in Chans \ {c} : authed'[d] = authed[d]
               /\ authed[c] \subseteq authed'[c]
    BY <1>3 DEF Auth, Dispatching, Free, IInv, TypeOK
  <1>4. \/ UNCHANGED <<conn, authed>>
        \/ \E c \in Chans : Connect(c) \/ Close(c) \/ ChannelInactive(c) \/ Logout(c)
        \/ \E c \in Chans, u \in Users : Auth(c, u)
    <2>1. CASE UNCHANGED vars
      BY <2>1 DEF vars, connVars
    <2>2. ASSUME NEW c \in Chans, LoopStep(c) PROVE UNCHANGED <<conn, authed>>
      BY <2>2 DEF LoopStep, RunTask, DrainTake, DrainWrite, DrainDone, Find,
                  Enqueue, Forward, connVars
    <2>3. ASSUME NEW c \in Chans, NEW m \in Msgs, Receive(c, m)
          PROVE  UNCHANGED <<conn, authed>>
      BY <2>3 DEF Receive, connVars
    <2>4. CASE Next
      BY <2>2, <2>3, <2>4 DEF Next
    <2> QED  BY <2>1, <2>4
  <1>5. CASE \E c \in Chans : Connect(c) \/ Close(c) \/ ChannelInactive(c) \/ Logout(c)
    <2>1. PICK c \in Chans : Connect(c) \/ Close(c) \/ ChannelInactive(c) \/ Logout(c)
      BY <1>5
    <2>2. /\ authed' = authed
          /\ conn[c] # "new" => conn'[c] \in {"closing", "closed"}
          /\ conn[c] = "new" => conn'[c] # "new"
          /\ \A d \in Chans \ {c} : conn'[d] = conn[d]
      BY <2>1, <1>2
    <2>3. ASSUME NEW d \in Chans PROVE authed'[d] # {} => conn'[d] # "new"
      BY <2>2 DEF Used
    <2>4. ASSUME NEW d \in Chans, conn[d] \in {"closing", "closed"}
          PROVE  conn'[d] \in {"closing", "closed"}
      BY <2>2, <2>4
    <2> QED  BY <2>2, <2>3, <2>4 DEF Used
  <1>6. CASE \E c \in Chans, u \in Users : Auth(c, u)
    <2>1. PICK c \in Chans, u \in Users : Auth(c, u)
      BY <1>6
    <2>2. /\ conn' = conn /\ conn[c] # "new"
          /\ \A d \in Chans \ {c} : authed'[d] = authed[d]
          /\ authed[c] \subseteq authed'[c]
      BY <2>1, <1>3
    <2>3. ASSUME NEW d \in Chans PROVE authed'[d] # {} => conn'[d] # "new"
      BY <2>2 DEF Used
    <2>4. \A d \in Chans : authed[d] \subseteq authed'[d]
      BY <2>2
    <2> QED  BY <2>2, <2>3, <2>4 DEF Used
  <1> QED  BY <1>1, <1>4, <1>5, <1>6

\* What a step may add to lost, and why.
LEMMA LostStep ==
  ASSUME IInv, Used, [Next]_vars, NEW m \in lost', m \notin lost
  PROVE  \E c \in Chans : conn[c] \in {"closing", "closed"} /\ To[m] \in authed[c]
  <1>1. ASSUME NEW c \in Chans, NEW n, WriteOn(c, n), n \in Msgs, To[n] \in authed[c]
        PROVE  conn[c] \in {"closing", "closed"} /\ m = n
    <2>1. ~Active(c) /\ m = n
      BY <1>1 DEF WriteOn
    <2> QED  BY <1>1, <2>1 DEF Active, Used, IInv, TypeOK, ConnState
  <1>2. ASSUME NEW c \in Chans, RunTask(c)
        PROVE  \E d \in Chans : conn[d] \in {"closing", "closed"} /\ To[m] \in authed[d]
    <2>1. PICK n : n = Head(tasks[c])
      OBVIOUS
    <2>2. WriteOn(c, n) /\ tasks[c] # <<>> /\ tasks[c] \in Seq(Msgs)
      BY <1>2, <2>1 DEF RunTask, IInv, TypeOK
    <2>3. n \in Msgs /\ To[n] \in authed[c]
      BY <2>1, <2>2, TailFrom DEF IInv, TaskMail
    <2> QED  BY <1>1, <2>2, <2>3
  <1>3. ASSUME NEW c \in Chans, DrainWrite(c)
        PROVE  \E d \in Chans : conn[d] \in {"closing", "closed"} /\ To[m] \in authed[d]
    <2>1. PICK n : n = Head(batch[c])
      OBVIOUS
    <2>2. WriteOn(c, n) /\ batch[c] # <<>> /\ batch[c] \in Seq(Msgs)
      BY <1>3, <2>1 DEF DrainWrite, IInv, TypeOK
    <2>3. n \in Msgs /\ To[n] \in authed[c]
      BY <2>1, <2>2, TailFrom DEF IInv, BatchMail
    <2> QED  BY <1>1, <2>2, <2>3
  <1>4. ASSUME NEW c \in Chans, Forward(c)
        PROVE  \E d \in Chans : conn[d] \in {"closing", "closed"} /\ To[m] \in authed[d]
    <2>1. PICK n, dst : n = hand[c] /\ dst = target[c]
      OBVIOUS
    <2>2. n \in Msgs /\ dst \in Chans /\ To[n] \in authed[dst]
      BY <1>4, <2>1 DEF Forward, IInv, Handlers
    <2>3. \/ conn[dst] = "closed" /\ lost' = lost \cup {n}
          \/ dst = c /\ WriteOn(c, n)
          \/ lost' = lost
      BY <1>4, <2>1 DEF Forward
    <2> QED  BY <1>1, <2>2, <2>3
  <1>5. ASSUME NEW c \in Chans, LoopStep(c)
        PROVE  \E d \in Chans : conn[d] \in {"closing", "closed"} /\ To[m] \in authed[d]
    <2>1. CASE DrainTake(c) \/ DrainDone(c) \/ Find(c) \/ Enqueue(c)
      BY <2>1 DEF DrainTake, DrainDone, Find, Enqueue
    <2> QED  BY <1>2, <1>3, <1>4, <1>5, <2>1 DEF LoopStep
  <1>6. CASE UNCHANGED vars
    BY <1>6 DEF vars
  <1>7. ASSUME NEW c \in Chans,
               \/ Connect(c) \/ Close(c) \/ ChannelInactive(c) \/ Logout(c)
               \/ \E u \in Users : Auth(c, u)
               \/ \E n \in Msgs : Receive(c, n)
        PROVE  lost' = lost
    BY <1>7 DEF Connect, Close, ChannelInactive, Logout, Auth, Receive
  <1> QED  BY <1>5, <1>6, <1>7 DEF Next

LEMMA LengthIsSize ==
  ASSUME NEW S, NEW s \in Seq(S), NoTwice(s)
  PROVE  IsFiniteSet(Elems(s)) /\ Cardinality(Elems(s)) = Len(s)
  <1>1. Len(s) \in Nat /\ DOMAIN s = 1..Len(s) /\ s = [i \in 1..Len(s) |-> s[i]]
    OBVIOUS
  <1>2. s \in Surjection(1..Len(s), Elems(s))
    BY <1>1 DEF Elems, Surjection
  <1>3. s \in Injection(1..Len(s), Elems(s))
    BY <1>1, <1>2 DEF NoTwice, Injection, IsInjective, Surjection
  <1>4. IsFiniteSet(1..Len(s)) /\ Cardinality(1..Len(s)) = Len(s)
    <2>1. 1 \in Int /\ Len(s) \in Int
      BY <1>1
    <2>2. /\ IsFiniteSet(1..Len(s))
          /\ Cardinality(1..Len(s)) = IF 1 > Len(s) THEN 0 ELSE Len(s) - 1 + 1
      BY <2>1, FS_Interval
    <2> QED  BY <1>1, <2>2
  <1> QED  BY <1>2, <1>3, <1>4, FS_Surjection

\* The later frames of the same user that pushed a frame out of its queue.
LEMMA EvictStep ==
  ASSUME CInv, NEW c \in Chans, Enqueue(c), NEW e \in evicted', e \notin evicted
  PROVE  Cardinality({x \in stored \ {e} : To[x] = To[e]}) >= QueueMax
  <1>1. PICK m, u, s : m = hand[c] /\ u = Recipient(hand[c]) /\ s = queue[u]
    OBVIOUS
  <1>2. pc[c] = "enqueue" /\ QueueFull(u) /\ e = Head(s)
    BY <1>1 DEF Enqueue
  <1>3. m \in Msgs /\ u = To[m] /\ u \in Users
    BY <1>1, <1>2, RoutingAssumption DEF Recipient, CInv, PInv, IInv, Handlers
  <1>4. /\ s \in Seq(Msgs) /\ NoTwice(s)
        /\ \A x \in Elems(s) : x \in Msgs /\ To[x] = u
    BY <1>1, <1>3 DEF CInv, PInv, IInv, TypeOK, QueueMail, NoRepeats, Elems
  <1>5. Len(s) \in Nat /\ Len(s) >= QueueMax /\ QueueMax \in Nat \ {0}
    BY <1>1, <1>2, <1>4, QueueMaxAssumption DEF QueueFull
  <1>6. e \in Elems(s)
    BY <1>2, <1>4, <1>5, TailElems
  <1>7. "hand" \in Places /\ "queue" \in Places \ {"hand"} /\ Located
    BY DEF Places, CInv, PInv
  <1>8. m \in stored /\ m \notin Elems(s)
    <2>1. c \in Spot("hand", m)
      BY <1>1 DEF Spot
    <2>2. m \in stored /\ Spot("queue", m) = {}
      BY <1>3, <1>7, <2>1, OnlySpot
    <2>3. u \notin Having(queue, m) /\ u \in DOMAIN queue
      BY <1>3, <2>2, SpotDef DEF CInv, PInv, IInv, TypeOK
    <2> QED  BY <1>1, <2>2, <2>3 DEF Having
  <1>9. ASSUME NEW x \in Elems(s) PROVE x \in stored
    <2>1. x \in Msgs /\ u \in DOMAIN queue
      BY <1>3, <1>4 DEF CInv, PInv, IInv, TypeOK
    <2>2. u \in Spot("queue", x)
      BY <1>1, <2>1, SpotDef DEF Having
    <2> QED  BY <1>7, <2>1, <2>2, OnlySpot
  <1>10. /\ IsFiniteSet(Elems(s)) /\ Cardinality(Elems(s)) = Len(s)
    BY <1>4, LengthIsSize
  <1> DEFINE E == Elems(s)
             Later == {x \in stored \ {e} : To[x] = To[e]}
  <1>11. IsFiniteSet((E \cup {m}) \ {e}) /\ Cardinality((E \cup {m}) \ {e}) = Len(s)
    <2>1. /\ IsFiniteSet(E \cup {m}) /\ Cardinality(E \cup {m}) = Len(s) + 1
      BY <1>8, <1>10, FS_AddElement
    <2>2. e \in E \cup {m}
      BY <1>6
    <2>3. Cardinality((E \cup {m}) \ {e}) = (Len(s) + 1) - 1
      BY <2>1, <2>2, FS_RemoveElement
    <2> QED  BY <1>5, <2>1, <2>3, FS_RemoveElement
  <1>12. (E \cup {m}) \ {e} \in SUBSET Later
    BY <1>3, <1>4, <1>6, <1>8, <1>9
  <1>13. IsFiniteSet(Later) /\ Cardinality(Later) \in Nat
    BY FS_Subset, FS_CardinalityType DEF CInv
  <1>14. Len(s) <= Cardinality(Later)
    BY <1>11, <1>12, <1>13, FS_Subset
  <1> QED  BY <1>5, <1>13, <1>14

LEMMA NextCInv == CInv /\ [Next]_vars => CInv'
  <1> SUFFICES ASSUME CInv, [Next]_vars PROVE CInv'
    OBVIOUS
  <1>1. PInv' /\ PInv /\ IInv
    BY NextPInv DEF CInv, PInv
  <1>2. /\ Used'
        /\ \A c \in Chans : authed[c] \subseteq authed'[c]
        /\ \A c \in Chans : conn[c] \in {"closing", "closed"}
                              => conn'[c] \in {"closing", "closed"}
    BY <1>1, UsedStep DEF CInv
  <1>3. LostCause'
    <2> SUFFICES ASSUME NEW m \in lost'
                 PROVE  \E c \in Chans : conn'[c] \in {"closing", "closed"}
                                         /\ To[m] \in authed'[c]
      BY DEF LostCause
    <2>1. \E c \in Chans : conn[c] \in {"closing", "closed"} /\ To[m] \in authed[c]
      BY <1>1, LostStep DEF CInv, LostCause
    <2> QED  BY <1>2, <2>1
  <1>4. /\ stored \subseteq stored' /\ IsFiniteSet(stored')
        /\ evicted' # evicted => \E c \in Chans : Enqueue(c)
    <2>1. \/ UNCHANGED <<stored, evicted>>
          \/ \E c \in Chans : Enqueue(c) /\ stored' = stored
          \/ \E m \in Msgs : stored' = stored \cup {m} /\ evicted' = evicted
      <3>1. CASE UNCHANGED vars
        BY <3>1 DEF vars
      <3>2. ASSUME NEW c \in Chans, LoopStep(c)
            PROVE  stored' = stored /\ (evicted' = evicted \/ Enqueue(c))
        BY <3>2 DEF LoopStep, RunTask, DrainTake, DrainWrite, DrainDone, Find,
                    Enqueue, Forward
      <3>3. ASSUME NEW c \in Chans,
                   \/ Connect(c) \/ Close(c) \/ ChannelInactive(c) \/ Logout(c)
                   \/ \E u \in Users : Auth(c, u)
            PROVE  UNCHANGED <<stored, evicted>>
        BY <3>3 DEF Connect, Close, ChannelInactive, Logout, Auth
      <3>4. ASSUME NEW c \in Chans, NEW m \in Msgs, Receive(c, m)
            PROVE  stored' = stored \cup {m} /\ evicted' = evicted
        BY <3>4 DEF Receive
      <3>5. CASE Next
        BY <3>2, <3>3, <3>4, <3>5 DEF Next
      <3> QED  BY <3>1, <3>5
    <2> QED  BY <2>1, FS_AddElement DEF CInv
  <1>5. EvictedCause'
    <2> SUFFICES ASSUME NEW m \in evicted'
                 PROVE  Cardinality({x \in stored' \ {m} : To[x] = To[m]}) >= QueueMax
      BY DEF EvictedCause
    <2> DEFINE Old == {x \in stored \ {m} : To[x] = To[m]}
               New == {x \in stored' \ {m} : To[x] = To[m]}
    <2>1. Cardinality(Old) >= QueueMax
      BY <1>4, EvictStep DEF CInv, EvictedCause
    <2>2. Old \in SUBSET New /\ IsFiniteSet(New) /\ IsFiniteSet(Old)
      BY <1>4, FS_Subset DEF CInv
    <2>3. Cardinality(Old) <= Cardinality(New)
      BY <2>2, FS_Subset
    <2>4. Cardinality(Old) \in Nat /\ Cardinality(New) \in Nat /\ QueueMax \in Nat
      BY <2>2, FS_CardinalityType, QueueMaxAssumption
    <2> QED  BY <2>1, <2>3, <2>4
  <1> QED  BY <1>1, <1>2, <1>3, <1>4, <1>5 DEF CInv

\* The relay gives up a frame only for a reason.
THEOREM LossHasCauseHolds == Spec => []LossHasCause
  <1>1. Init => CInv
    BY InitPInv, FS_EmptySet DEF Init, CInv, Used, LostCause, EvictedCause
  <1>2. CInv => LossHasCause
    BY DEF CInv, LostCause, EvictedCause, LossHasCause
  <1> QED  BY <1>1, <1>2, NextCInv, PTL DEF Spec

-----------------------------------------------------------------------------
(* A channel that is gone takes no frame accepted after that.              *)

\* The members of a family over channels were accepted before their channel
\* was torn down.
LiveIn(f, dead) == \A d \in Chans : \A m \in Elems(f[d]) : d \notin dead[m]

LostLive ==
  \A m \in lost :
    \E d \in Chans :
      conn[d] \in {"closing", "closed"} /\ To[m] \in authed[d] /\ d \notin deadAt[m]

\* What deadAt names is gone for good; a busy loop is not gone; a handler that
\* forwards aims at a channel that was there when its frame was accepted.
Aimed ==
  /\ \A m \in Msgs : \A d \in deadAt[m] : conn[d] = "closed"
  /\ \A d \in Chans : pc[d] # "ready" => conn[d] # "closed"
  /\ \A d \in Chans : pc[d] = "forward" => target[d] \notin deadAt[hand[d]]

Lively ==
  LiveIn(batch, deadAt) /\ LiveIn(tasks, deadAt) /\ LiveIn(wire, deadAt) /\ LostLive

DInv == CInv /\ Aimed /\ Lively

LEMMA PushedLive ==
  ASSUME NEW f, NEW g, NEW x \in Chans, NEW e \in Msgs, DOMAIN f = Chans,
         Pushed(f, g, x, e), NEW dead, LiveIn(f, dead), x \notin dead[e]
  PROVE  LiveIn(g, dead)
  <1>1. Elems(g[x]) = Elems(f[x]) \cup {e}
    BY AppendElems DEF Pushed
  <1> QED  BY <1>1 DEF LiveIn, Pushed

LEMMA PoppedLive ==
  ASSUME NEW f, NEW g, NEW x \in Chans, DOMAIN f = Chans, Popped(f, g, x),
         NEW dead, LiveIn(f, dead)
  PROVE  LiveIn(g, dead) /\ x \notin dead[Head(f[x])]
  <1>1. Elems(g[x]) = Elems(f[x]) \ {Head(f[x])} /\ Head(f[x]) \in Elems(f[x])
    BY TailElems DEF Popped
  <1> QED  BY <1>1 DEF LiveIn, Popped

LEMMA WriteOnLive ==
  ASSUME DInv, NEW c \in Chans, NEW m \in Msgs, To[m] \in authed[c],
         c \notin deadAt[m], WriteOn(c, m), UNCHANGED <<conn, authed, deadAt>>
  PROVE  LiveIn(wire', deadAt') /\ LostLive'
  <1>1. CASE Active(c)
    <2>1. lost' = lost /\ wire' = [wire EXCEPT ![c] = Append(wire[c], m)]
      BY <1>1 DEF WriteOn
    <2>2. wire \in [Chans -> Seq(Msgs)]
      BY DEF DInv, CInv, PInv, IInv, TypeOK
    <2>3. Pushed(wire, wire', c, m) /\ DOMAIN wire = Chans
      BY <2>1, <2>2 DEF Pushed
    <2>4. LiveIn(wire', deadAt)
      BY <2>3, PushedLive DEF DInv, Lively
    <2> QED  BY <2>1, <2>4 DEF DInv, Lively, LostLive
  <1>2. CASE ~Active(c)
    <2>1. lost' = lost \cup {m} /\ wire' = wire
      BY <1>2 DEF WriteOn
    <2>2. conn[c] \in {"closing", "closed"}
      BY <1>2 DEF Active, DInv, CInv, Used, PInv, IInv, TypeOK, ConnState
    <2> QED  BY <2>1, <2>2 DEF DInv, Lively, LostLive
  <1> QED  BY <1>1, <1>2

LEMMA LoopAimed ==
  ASSUME DInv, NEW c \in Chans, LoopStep(c)
  PROVE  Aimed'
  <1>1. UNCHANGED <<conn, deadAt>>
    BY DEF LoopStep, RunTask, DrainTake, DrainWrite, DrainDone, Find, Enqueue,
           Forward, connVars
  <1>2. ASSUME NEW d \in Chans, pc'[d] # "ready" PROVE pc[d] # "ready"
    BY <1>2 DEF LoopStep, RunTask, DrainTake, DrainWrite, DrainDone, Find, Enqueue,
                Forward, DInv, CInv, PInv, IInv, TypeOK
  <1>3. ASSUME NEW d \in Chans, pc'[d] = "forward"
        PROVE  target'[d] \notin deadAt[hand'[d]]
    <2>1. CASE Find(c) /\ d = c
      <3> DEFINE ch == registry[Recipient(hand[c])]
      <3>1. hand[c] \in Msgs /\ hand' = hand
        BY <2>1 DEF Find, DInv, CInv, PInv, IInv, Handlers
      <3>2. Usable(ch) /\ target' = [target EXCEPT ![c] = ch]
        BY <1>3, <2>1 DEF Find, DInv, CInv, PInv, IInv, TypeOK
      <3>3. target'[c] = ch /\ conn[ch] = "open"
        BY <3>2 DEF Usable, Active, DInv, CInv, PInv, IInv, TypeOK
      <3> QED  BY <2>1, <3>1, <3>3 DEF DInv, Aimed
    <2>2. CASE ~(Find(c) /\ d = c)
      <3>1. pc[d] = "forward" /\ target'[d] = target[d] /\ hand'[d] = hand[d]
        BY <1>3, <2>2 DEF LoopStep, RunTask, DrainTake, DrainWrite, DrainDone, Find,
                          Enqueue, Forward, DInv, CInv, PInv, IInv, TypeOK
      <3> QED  BY <3>1 DEF DInv, Aimed
    <2> QED  BY <2>1, <2>2
  <1> QED  BY <1>1, <1>2, <1>3 DEF DInv, Aimed

LEMMA LoopLively ==
  ASSUME DInv, NEW c \in Chans, LoopStep(c)
  PROVE  Lively'
  <1>1. UNCHANGED <<conn, authed, deadAt>>
    BY DEF LoopStep, RunTask, DrainTake, DrainWrite, DrainDone, Find, Enqueue,
           Forward, connVars
  <1>2. /\ batch \in [Chans -> Seq(Msgs)] /\ tasks \in [Chans -> Seq(Msgs)]
        /\ wire \in [Chans -> Seq(Msgs)]
        /\ \A d \in Chans : NoTwice(batch[d]) /\ NoTwice(tasks[d])
    BY DEF DInv, CInv, PInv, IInv, TypeOK, NoRepeats
  <1>3. CASE RunTask(c)
    <2>1. /\ tasks[c] # <<>> /\ tasks' = [tasks EXCEPT ![c] = Tail(tasks[c])]
          /\ WriteOn(c, Head(tasks[c])) /\ batch' = batch
      BY <1>3 DEF RunTask
    <2>2. Popped(tasks, tasks', c) /\ DOMAIN tasks = Chans
      BY <1>2, <2>1 DEF Popped
    <2>3. Head(tasks[c]) \in Msgs /\ To[Head(tasks[c])] \in authed[c]
      BY <1>2, <2>1, TailFrom DEF DInv, CInv, PInv, IInv, TaskMail
    <2>4. LiveIn(tasks', deadAt) /\ c \notin deadAt[Head(tasks[c])]
      BY <2>2, PoppedLive DEF DInv, Lively
    <2>5. LiveIn(wire', deadAt') /\ LostLive'
      BY <1>1, <2>1, <2>3, <2>4, WriteOnLive
    <2> QED  BY <1>1, <2>1, <2>4, <2>5 DEF DInv, Lively
  <1>4. CASE DrainWrite(c)
    <2>1. /\ batch[c] # <<>> /\ batch' = [batch EXCEPT ![c] = Tail(batch[c])]
          /\ WriteOn(c, Head(batch[c])) /\ tasks' = tasks
      BY <1>4 DEF DrainWrite
    <2>2. Popped(batch, batch', c) /\ DOMAIN batch = Chans
      BY <1>2, <2>1 DEF Popped
    <2>3. Head(batch[c]) \in Msgs /\ To[Head(batch[c])] \in authed[c]
      BY <1>2, <2>1, TailFrom DEF DInv, CInv, PInv, IInv, BatchMail
    <2>4. LiveIn(batch', deadAt) /\ c \notin deadAt[Head(batch[c])]
      BY <2>2, PoppedLive DEF DInv, Lively
    <2>5. LiveIn(wire', deadAt') /\ LostLive'
      BY <1>1, <2>1, <2>3, <2>4, WriteOnLive
    <2> QED  BY <1>1, <2>1, <2>4, <2>5 DEF DInv, Lively
  <1>5. CASE DrainTake(c)
    <2>1. /\ batch' = [batch EXCEPT ![c] = queue[authUser[c]]]
          /\ conn[c] # "closed" /\ UNCHANGED <<tasks, wire, lost>>
          /\ authUser[c] \in Users
      BY <1>5 DEF DrainTake, DInv, Aimed, CInv, PInv, IInv, Handlers
    <2>2. queue[authUser[c]] \in Seq(Msgs)
      BY <2>1 DEF DInv, CInv, PInv, IInv, TypeOK
    <2>3. \A m \in Elems(queue[authUser[c]]) : m \in Msgs
      BY <2>2 DEF Elems
    <2>4. LiveIn(batch', deadAt)
      BY <1>2, <2>1, <2>3 DEF LiveIn, DInv, Aimed, Lively
    <2> QED  BY <1>1, <2>1, <2>4 DEF DInv, Lively, LostLive
  <1>6. CASE Forward(c)
    <2> DEFINE m == hand[c]
               dst == target[c]
    <2>1. m \in Msgs /\ dst \in Chans /\ To[m] \in authed[dst] /\ dst \notin deadAt[m]
      BY <1>6 DEF Forward, DInv, Aimed, CInv, PInv, IInv, Handlers
    <2>2. batch' = batch
      BY <1>6 DEF Forward
    <2>3. CASE conn[dst] = "closed" /\ lost' = lost \cup {m} /\ UNCHANGED <<tasks, wire>>
      <3>1. LostLive'
        BY <1>1, <2>1, <2>3 DEF DInv, Lively, LostLive
      <3> QED  BY <1>1, <2>2, <2>3, <3>1 DEF DInv, Lively
    <2>4. CASE dst = c /\ WriteOn(c, m) /\ tasks' = tasks
      <3>1. LiveIn(wire', deadAt') /\ LostLive'
        BY <1>1, <2>1, <2>4, WriteOnLive
      <3> QED  BY <1>1, <2>2, <2>4, <3>1 DEF DInv, Lively
    <2>5. CASE tasks' = [tasks EXCEPT ![dst] = Append(tasks[dst], m)]
               /\ UNCHANGED <<wire, lost>>
      <3>1. Pushed(tasks, tasks', dst, m) /\ DOMAIN tasks = Chans
        BY <1>2, <2>1, <2>5 DEF Pushed
      <3>2. LiveIn(tasks', deadAt)
        BY <2>1, <3>1, PushedLive DEF DInv, Lively
      <3> QED  BY <1>1, <2>2, <2>5, <3>2 DEF DInv, Lively, LostLive
    <2> QED  BY <1>6, <2>3, <2>4, <2>5 DEF Forward
  <1>7. CASE DrainDone(c) \/ Find(c) \/ Enqueue(c)
    <2>1. UNCHANGED <<batch, tasks, wire, lost>>
      BY <1>7 DEF DrainDone, Find, Enqueue
    <2> QED  BY <1>1, <2>1 DEF DInv, Lively, LostLive
  <1> QED  BY <1>3, <1>4, <1>5, <1>6, <1>7 DEF LoopStep

\* A frame accepted now is nowhere yet: the new deadAt concerns no other handler.
LEMMA ReceiveLively ==
  ASSUME DInv, NEW c \in Chans, NEW m \in Msgs, Receive(c, m)
  PROVE  Aimed' /\ Lively'
  <1>1. /\ m \notin stored
        /\ deadAt' = [deadAt EXCEPT ![m] = {d \in Chans : conn[d] = "closed"}]
        /\ hand' = [hand EXCEPT ![c] = m]
        /\ pc' = [pc EXCEPT ![c] = "find"]
        /\ conn[c] # "closed"
        /\ UNCHANGED <<conn, authed, batch, tasks, wire, lost, target>>
    BY DEF Receive, Dispatching
  <1>2. \A p \in Places : Spot(p, m) = {}
    BY <1>1 DEF DInv, CInv, PInv, Located
  <1>3. /\ \A d \in Chans : hand[d] # m
        /\ Having(batch, m) = {} /\ Having(tasks, m) = {} /\ Having(wire, m) = {}
        /\ m \notin lost
    <2>1. {"hand", "batch", "task", "wire", "lost"} \subseteq Places
      BY DEF Places
    <2> QED  BY <1>2, <2>1, SpotDef
  <1>4. \A n \in Msgs : n # m => deadAt'[n] = deadAt[n]
    BY <1>1 DEF DInv, CInv, PInv, IInv, TypeOK
  <1>5. ASSUME NEW f \in [Chans -> Seq(Msgs)], Having(f, m) = {}, LiveIn(f, deadAt)
        PROVE  LiveIn(f, deadAt')
    <2>1. \A d \in Chans : \A n \in Elems(f[d]) : n \in Msgs
      BY DEF Elems
    <2>2. \A d \in Chans : m \notin Elems(f[d])
      BY <1>5 DEF Having
    <2> QED  BY <1>4, <1>5, <2>1, <2>2 DEF LiveIn
  <1>6. LiveIn(batch, deadAt') /\ LiveIn(tasks, deadAt') /\ LiveIn(wire, deadAt')
    BY <1>3, <1>5 DEF DInv, Lively, CInv, PInv, IInv, TypeOK
  <1>7. LostLive'
    BY <1>1, <1>3, <1>4 DEF DInv, Lively, LostLive, CInv, PInv, IInv, TypeOK
  <1>8. ASSUME NEW n \in Msgs, NEW d \in deadAt'[n] PROVE conn'[d] = "closed"
    BY <1>1, <1>8 DEF DInv, Aimed, CInv, PInv, IInv, TypeOK
  <1>9. ASSUME NEW d \in Chans, pc'[d] # "ready" PROVE conn'[d] # "closed"
    BY <1>1, <1>9 DEF DInv, Aimed, CInv, PInv, IInv, TypeOK
  <1>10. ASSUME NEW d \in Chans, pc'[d] = "forward"
         PROVE  target'[d] \notin deadAt'[hand'[d]]
    <2>1. d # c /\ pc[d] = "forward" /\ hand'[d] = hand[d] /\ target'[d] = target[d]
      BY <1>1, <1>10 DEF DInv, CInv, PInv, IInv, TypeOK
    <2>2. hand[d] \in Msgs
      BY <2>1 DEF DInv, CInv, PInv, IInv, Handlers
    <2> QED  BY <1>3, <1>4, <2>1, <2>2 DEF DInv, Aimed
  <1> QED  BY <1>1, <1>6, <1>7, <1>8, <1>9, <1>10 DEF Aimed, Lively

LEMMA ConnLively ==
  ASSUME DInv, [Next]_vars, NEW c \in Chans,
         \/ Connect(c) \/ Close(c) \/ ChannelInactive(c) \/ Logout(c)
         \/ \E u \in Users : Auth(c, u)
  PROVE  Aimed' /\ Lively'
  <1>1. UNCHANGED <<deadAt, batch, tasks, wire, lost, target, hand>>
    BY DEF Connect, Close, ChannelInactive, Logout, Auth
  <1>2. /\ \A d \in Chans : conn[d] = "closed" => conn'[d] = "closed"
        /\ \A d \in Chans : pc'[d] # "ready" => conn'[d] # "closed"
        /\ \A d \in Chans : pc'[d] = "forward" => pc[d] = "forward"
    BY DEF Connect, Close, ChannelInactive, Logout, Auth, Dispatching, Free,
           DInv, Aimed, CInv, PInv, IInv, TypeOK
  <1>3. /\ \A d \in Chans : authed[d] \subseteq authed'[d]
        /\ \A d \in Chans : conn[d] \in {"closing", "closed"}
                              => conn'[d] \in {"closing", "closed"}
    BY UsedStep DEF DInv, CInv, PInv
  <1>4. \A m \in Msgs : deadAt[m] \subseteq Chans
    BY DEF DInv, CInv, PInv, IInv, TypeOK
  <1>5. Aimed'
    BY <1>1, <1>2, <1>4 DEF DInv, Aimed
  <1>6. LostLive'
    BY <1>1, <1>3 DEF DInv, Lively, LostLive
  <1> QED  BY <1>1, <1>5, <1>6 DEF DInv, Lively

LEMMA NextDInv == DInv /\ [Next]_vars => DInv'
  <1> SUFFICES ASSUME DInv, [Next]_vars PROVE DInv'
    OBVIOUS
  <1>1. CInv'
    BY NextCInv DEF DInv
  <1>2. CASE UNCHANGED vars
    BY <1>1, <1>2 DEF vars, connVars, DInv, Aimed, Lively, LostLive
  <1>3. CASE Next
    BY <1>1, <1>3, LoopAimed, LoopLively, ReceiveLively, ConnLively DEF Next, DInv
  <1> QED  BY <1>2, <1>3

(***************************************************************************)
(* A channel that is gone takes no frame accepted after that, whatever     *)
(* entries the registry still holds for it: findChannel's answer is used   *)
(* only while isActive holds.                                              *)
(***************************************************************************)
THEOREM DeadReceiveNothingHolds == Spec => []DeadReceiveNothing
  <1>1. Init => DInv
    <2>1. Init => CInv
      BY InitPInv, FS_EmptySet DEF Init, CInv, Used, LostCause, EvictedCause
    <2>2. Init => Aimed /\ Lively
      BY DEF Init, Aimed, Lively, LiveIn, LostLive, Elems
    <2> QED  BY <2>1, <2>2 DEF DInv
  <1>2. DInv => DeadReceiveNothing
    BY DEF DInv, Lively, LiveIn, LostLive, DeadReceiveNothing
  <1> QED  BY <1>1, <1>2, NextDInv, PTL DEF Spec

-----------------------------------------------------------------------------
(* The gateway implements the safety part of Relay.                        *)

\* The variables of Relay, as Gateway's instance R computes them.
Carried == stored \ (Waiting \cup Delivered \cup lost \cup evicted)

LEMMA ParkedIsWaiting == R!Parked = Waiting
  BY DEF R!Parked, Waiting, Elems

LEMMA WaitingDef == \A m : m \in Waiting <=> \E u \in Users : m \in Elems(queue[u])
  BY DEF Waiting

LEMMA DeliveredDef == \A m : m \in Delivered <=> \E c \in Chans : m \in Elems(wire[c])
  BY DEF Delivered

\* A frame in one of a handler's places is carried.
LEMMA InCarried ==
  ASSUME PInv, NEW m \in Msgs, NEW p \in {"hand", "batch", "task"}, Spot(p, m) # {}
  PROVE  m \in Carried
  <1>1. /\ p \in Places
        /\ "queue" \in Places \ {p} /\ "wire" \in Places \ {p}
        /\ "lost" \in Places \ {p} /\ "evicted" \in Places \ {p}
    BY DEF Places
  <1>2. m \in stored /\ \A q \in Places \ {p} : Spot(q, m) = {}
    BY <1>1, OnlySpot DEF PInv
  <1>3. Having(queue, m) = {} /\ Having(wire, m) = {} /\ m \notin lost \cup evicted
    <2>1. /\ Spot("queue", m) = {} /\ Spot("wire", m) = {}
          /\ Spot("lost", m) = {} /\ Spot("evicted", m) = {}
      BY <1>1, <1>2
    <2> QED  BY <2>1, SpotDef
  <1>4. DOMAIN queue = Users /\ DOMAIN wire = Chans
    BY DEF PInv, IInv, TypeOK
  <1>5. m \notin Waiting /\ m \notin Delivered
    BY <1>3, <1>4, WaitingDef, DeliveredDef DEF Having
  <1> QED  BY <1>2, <1>3, <1>5 DEF Carried

\* A write of a frame m that is carried is a delivery or a drop.
LEMMA WriteRefines ==
  ASSUME PInv, NEW c \in Chans, NEW m \in Carried, m \in Msgs, WriteOn(c, m),
         UNCHANGED <<stored, queue, evicted>>
  PROVE  R!Deliver(m) \/ R!Drop(m)
  <1>1. Waiting' = Waiting
    BY DEF Waiting, Elems
  <1>2. CASE Active(c)
    <2>1. wire' = [wire EXCEPT ![c] = Append(wire[c], m)] /\ lost' = lost
      BY <1>2 DEF WriteOn
    <2>2. /\ DOMAIN wire = Chans /\ DOMAIN wire' = Chans
          /\ wire[c] \in Seq(Msgs) /\ wire'[c] = Append(wire[c], m)
          /\ \A d \in Chans : d # c => wire'[d] = wire[d]
      BY <2>1 DEF PInv, IInv, TypeOK
    <2>3. Elems(wire'[c]) = Elems(wire[c]) \cup {m}
      BY <2>2, AppendElems
    <2>4. Delivered' = UNION {Elems(wire'[d]) : d \in Chans}
      BY DEF Delivered, Elems
    <2>5. Delivered' = Delivered \cup {m}
      <3>1. \A n : n \in Delivered' <=> \E d \in Chans : n \in Elems(wire'[d])
        BY <2>4
      <3>2. ASSUME NEW n PROVE n \in Delivered' <=> n \in Delivered \/ n = m
        BY <2>2, <2>3, <3>1, DeliveredDef
      <3> QED  BY <3>2
    <2>6. Carried' = Carried \ {m}
      BY <1>1, <2>1, <2>5 DEF Carried
    <2> QED  BY <1>1, <2>1, <2>5, <2>6 DEF R!Deliver, Carried
  <1>3. CASE ~Active(c)
    <2>1. lost' = lost \cup {m} /\ wire' = wire
      BY <1>3 DEF WriteOn
    <2>2. Delivered' = Delivered
      BY <2>1 DEF Delivered, Elems
    <2>3. Carried' = Carried \ {m}
      BY <1>1, <2>1, <2>2 DEF Carried
    <2>4. (lost \cup evicted)' = (lost \cup evicted) \cup {m}
      BY <2>1
    <2> QED  BY <1>1, <2>1, <2>2, <2>3, <2>4 DEF R!Drop, Carried
  <1> QED  BY <1>2, <1>3

\* A step that changes none of these is invisible to Relay.
LEMMA Invisible ==
  ASSUME UNCHANGED <<stored, queue, wire, lost, evicted>>
  PROVE  UNCHANGED R!rvars
  <1>1. Waiting' = Waiting /\ Delivered' = Delivered
    BY DEF Waiting, Delivered, Elems
  <1> QED  BY <1>1 DEF R!rvars

LEMMA InitRefines == Init => R!Init
  <1> SUFFICES ASSUME Init PROVE R!Init
    OBVIOUS
  <1>1. Elems(<<>>) = {}
    BY DEF Elems
  <1>2. Waiting = {} /\ Delivered = {}
    BY <1>1 DEF Init, Waiting, Delivered
  <1> QED  BY <1>2 DEF Init, R!Init

LEMMA ReceiveRefines ==
  ASSUME PInv, NEW c \in Chans, NEW m \in Msgs, Receive(c, m)
  PROVE  R!Accept(m)
  <1>1. /\ m \notin stored /\ stored' = stored \cup {m}
        /\ UNCHANGED <<queue, wire, lost, evicted>>
    BY DEF Receive
  <1>2. Waiting' = Waiting /\ Delivered' = Delivered
    BY <1>1 DEF Waiting, Delivered, Elems
  <1>3. m \notin Waiting /\ m \notin Delivered /\ m \notin lost \cup evicted
    <2>1. \A p \in Places : Spot(p, m) = {}
      BY <1>1 DEF PInv, Located
    <2>2. /\ Spot("queue", m) = {} /\ Spot("wire", m) = {}
          /\ Spot("lost", m) = {} /\ Spot("evicted", m) = {}
      BY <2>1 DEF Places
    <2>3. Having(queue, m) = {} /\ Having(wire, m) = {} /\ m \notin lost \cup evicted
      BY <2>2, SpotDef
    <2>4. DOMAIN queue = Users /\ DOMAIN wire = Chans
      BY DEF PInv, IInv, TypeOK
    <2> QED  BY <2>3, <2>4, WaitingDef, DeliveredDef DEF Having
  <1>4. Carried' = Carried \cup {m} /\ m \notin Carried
    BY <1>1, <1>2, <1>3 DEF Carried
  <1> QED  BY <1>1, <1>2, <1>3, <1>4, ParkedIsWaiting DEF R!Accept, Carried

LEMMA EnqueueRefines ==
  ASSUME PInv, NEW c \in Chans, Enqueue(c)
  PROVE  \E m \in Msgs : R!Park(m)
  <1>0. PICK m, u : m = hand[c] /\ u = Recipient(hand[c])
    OBVIOUS
  <1>1. /\ hand' = [hand EXCEPT ![c] = None] /\ pc[c] = "enqueue"
        /\ UNCHANGED <<stored, wire, lost>>
    BY DEF Enqueue
  <1>2. m \in Msgs /\ Spot("hand", m) # {}
    BY <1>0, <1>1, HandLeaves
  <1>3. m \in Carried
    BY <1>2, InCarried
  <1>4. /\ u = To[m] /\ u \in Users /\ queue \in [Users -> Seq(Msgs)]
    BY <1>0, <1>2, RoutingAssumption DEF Recipient, PInv, IInv, TypeOK
  <1>5. /\ queue[u] \in Seq(Msgs) /\ Len(queue[u]) \in Nat /\ QueueMax \in Nat \ {0}
        /\ NoTwice(queue[u])
    BY <1>4, QueueMaxAssumption DEF PInv, NoRepeats
  <1>6. Delivered' = Delivered
    BY <1>1 DEF Delivered, Elems
  <1>7. \A n : n \in Waiting' <=> \E v \in Users : n \in Elems(queue'[v])
    BY DEF Waiting, Elems
  <1>8. CASE ~QueueFull(u)
    <2>1. /\ queue' = [queue EXCEPT ![u] = Append(queue[u], m)] /\ evicted' = evicted
          /\ Len(queue[u]) < QueueMax
      BY <1>0, <1>5, <1>8 DEF Enqueue, QueueFull
    <2>2. Elems(Append(queue[u], m)) = Elems(queue[u]) \cup {m}
      BY <1>2, <1>5, AppendElems
    <2>3. Waiting' = Waiting \cup {m}
      <3>1. /\ queue'[u] = Append(queue[u], m)
            /\ \A v \in Users : v # u => queue'[v] = queue[v]
        BY <1>4, <2>1
      <3>2. ASSUME NEW n PROVE n \in Waiting' <=> n \in Waiting \/ n = m
        BY <1>4, <1>7, <2>2, <3>1, WaitingDef
      <3> QED  BY <3>2
    <2>4. Carried' = Carried \ {m}
      BY <1>1, <1>6, <2>1, <2>3 DEF Carried
    <2>5. queue' = [queue EXCEPT ![To[m]] = Append(queue[To[m]], m)]
          /\ Len(queue[To[m]]) < QueueMax
      BY <1>4, <2>1
    <2>6. R!Park(m)
      BY <1>1, <1>3, <1>6, <2>1, <2>4, <2>5 DEF R!Park, Carried
    <2> QED  BY <1>2, <2>6
  <1>9. CASE QueueFull(u)
    <2>1. PICK e : e = Head(queue[u])
      OBVIOUS
    <2>2. /\ queue' = [queue EXCEPT ![u] = Append(Tail(queue[u]), m)]
          /\ evicted' = evicted \cup {e}
          /\ ~(Len(queue[u]) < QueueMax) /\ queue[u] # <<>>
      BY <1>0, <1>5, <1>9, <2>1 DEF Enqueue, QueueFull
    <2>3. /\ e \in Elems(queue[u]) /\ e \in Msgs /\ Tail(queue[u]) \in Seq(Msgs)
          /\ Elems(Tail(queue[u])) = Elems(queue[u]) \ {e}
      BY <1>5, <2>1, <2>2, TailElems
    <2>4. Elems(Append(Tail(queue[u]), m)) = (Elems(queue[u]) \ {e}) \cup {m}
      <3>1. PICK r \in Seq(Msgs) : r = Tail(queue[u])
        BY <2>3
      <3>2. Elems(Append(r, m)) = Elems(r) \cup {m}
        BY <1>2, AppendElems
      <3> QED  BY <2>3, <3>1, <3>2
    <2>5. \A v \in Users : v # u => e \notin Elems(queue[v])
      <3>1. DOMAIN queue = Users /\ "queue" \in Places
        BY <1>4 DEF Places
      <3>2. u \in Spot("queue", e)
        BY <1>4, <2>3, <3>1, SpotDef DEF Having
      <3>3. Spot("queue", e) = {u}
        BY <2>3, <3>1, <3>2, OnlySpot DEF PInv
      <3> QED  BY <3>1, <3>3, SpotDef DEF Having
    <2>6. Waiting' = (Waiting \ {e}) \cup {m}
      <3>1. /\ queue'[u] = Append(Tail(queue[u]), m)
            /\ \A v \in Users : v # u => queue'[v] = queue[v]
        BY <1>4, <2>2
      <3>2. ASSUME NEW n PROVE n \in Waiting' <=> (n \in Waiting /\ n # e) \/ n = m
        <4>1. n \in Waiting' => (n \in Waiting /\ n # e) \/ n = m
          <5>1. ASSUME NEW v \in Users, n \in Elems(queue'[v])
                PROVE  (\E w \in Users : n \in Elems(queue[w]) /\ n # e) \/ n = m
            <6>1. CASE v = u
              BY <1>4, <2>4, <3>1, <5>1, <6>1
            <6>2. CASE v # u
              BY <2>5, <3>1, <5>1, <6>2
            <6> QED  BY <6>1, <6>2
          <5> QED  BY <1>7, <5>1, WaitingDef
        <4>2. n = m => n \in Waiting'
          BY <1>4, <1>7, <2>4, <3>1
        <4>3. n \in Waiting /\ n # e => n \in Waiting'
          BY <1>4, <1>7, <2>4, <3>1, WaitingDef
        <4> QED  BY <4>1, <4>2, <4>3
      <3> QED  BY <3>2
    <2>7. e \in Waiting
      BY <1>4, <2>3, WaitingDef
    <2>8. Carried' = Carried \ {m}
      BY <1>1, <1>6, <2>2, <2>6, <2>7 DEF Carried
    <2>9. /\ queue' = [queue EXCEPT ![To[m]] = Append(Tail(queue[To[m]]), m)]
          /\ ~(Len(queue[To[m]]) < QueueMax)
          /\ (lost \cup evicted)' = (lost \cup evicted) \cup {Head(queue[To[m]])}
      BY <1>1, <1>4, <2>1, <2>2
    <2>10. R!Park(m)
      BY <1>3, <1>6, <2>8, <2>9 DEF R!Park, Carried
    <2> QED  BY <1>2, <2>10
  <1> QED  BY <1>8, <1>9

LEMMA DrainTakeRefines ==
  ASSUME PInv, NEW c \in Chans, DrainTake(c)
  PROVE  \E u \in Users : R!Collect(u)
  <1>0. PICK u : u = authUser[c]
    OBVIOUS
  <1>1. /\ queue' = [queue EXCEPT ![u] = <<>>] /\ pc[c] = "drain"
        /\ UNCHANGED <<stored, wire, evicted, lost>>
    BY <1>0 DEF DrainTake, RemoveQueue
  <1>2. u \in Users /\ queue \in [Users -> Seq(Msgs)]
    BY <1>0, <1>1 DEF PInv, IInv, Handlers, TypeOK
  <1>3. Delivered' = Delivered /\ Elems(<<>>) = {}
    BY <1>1 DEF Delivered, Elems
  <1>4. \A n : n \in Waiting' <=> \E v \in Users : n \in Elems(queue'[v])
    BY DEF Waiting, Elems
  <1>5. /\ queue'[u] = <<>>
        /\ \A v \in Users : v # u => queue'[v] = queue[v]
        /\ DOMAIN queue = Users /\ DOMAIN wire = Chans
        /\ \A x \in Elems(queue[u]) : x \in Msgs
    BY <1>1, <1>2 DEF PInv, IInv, TypeOK, Elems
  <1>6. ASSUME NEW n \in Elems(queue[u])
        PROVE  /\ n \in stored /\ n \notin lost \cup evicted /\ n \notin Delivered
               /\ \A v \in Users : v # u => n \notin Elems(queue[v])
    <2>1. /\ "queue" \in Places /\ "wire" \in Places \ {"queue"}
          /\ "lost" \in Places \ {"queue"} /\ "evicted" \in Places \ {"queue"}
      BY DEF Places
    <2>2. u \in Spot("queue", n) /\ n \in Msgs
      BY <1>2, <1>5, SpotDef DEF Having
    <2>3. /\ n \in stored /\ Spot("queue", n) = {u}
          /\ Spot("wire", n) = {} /\ Spot("lost", n) = {} /\ Spot("evicted", n) = {}
      BY <2>1, <2>2, OnlySpot DEF PInv
    <2>4. Having(queue, n) = {u} /\ Having(wire, n) = {} /\ n \notin lost \cup evicted
      BY <2>3, SpotDef
    <2> QED  BY <1>5, <2>3, <2>4, DeliveredDef DEF Having
  <1>7. Waiting' = Waiting \ Elems(queue[u])
    <2>1. ASSUME NEW n PROVE n \in Waiting' <=> n \in Waiting /\ n \notin Elems(queue[u])
      BY <1>2, <1>3, <1>4, <1>5, <1>6, WaitingDef
    <2> QED  BY <2>1
  <1>8. Elems(queue[u]) \subseteq Waiting
    BY <1>2, WaitingDef
  <1>9. Carried' = Carried \cup Elems(queue[u])
    BY <1>1, <1>3, <1>6, <1>7, <1>8 DEF Carried
  <1>10. (lost \cup evicted)' = lost \cup evicted
    BY <1>1
  <1>11. Elems(queue[u]) = {queue[u][i] : i \in DOMAIN queue[u]}
    BY DEF Elems
  <1>12. R!Collect(u)
    BY <1>1, <1>3, <1>9, <1>10, <1>11 DEF R!Collect, Carried
  <1> QED  BY <1>2, <1>12

LEMMA LoopRefines ==
  ASSUME PInv, NEW c \in Chans, LoopStep(c)
  PROVE  R!Next \/ UNCHANGED R!rvars
  <1>1. ASSUME NEW m \in Msgs, NEW p \in {"hand", "batch", "task"}, Spot(p, m) # {},
               WriteOn(c, m), UNCHANGED <<stored, queue, evicted>>
        PROVE  R!Next
    <2>1. m \in Carried
      BY <1>1, InCarried
    <2> QED  BY <1>1, <2>1, WriteRefines DEF R!Next
  <1>2. CASE RunTask(c)
    <2>1. PICK m : m = Head(tasks[c])
      OBVIOUS
    <2>2. /\ tasks[c] # <<>> /\ WriteOn(c, m) /\ UNCHANGED <<stored, queue, evicted>>
      BY <1>2, <2>1 DEF RunTask
    <2>3. tasks[c] \in Seq(Msgs) /\ NoTwice(tasks[c]) /\ DOMAIN tasks = Chans
      BY DEF PInv, IInv, TypeOK, NoRepeats
    <2>4. m \in Msgs /\ m \in Elems(tasks[c])
      BY <2>1, <2>2, <2>3, TailElems
    <2>5. Spot("task", m) # {}
      BY <2>3, <2>4 DEF Spot, Having
    <2> QED  BY <1>1, <2>2, <2>4, <2>5
  <1>3. CASE DrainWrite(c)
    <2>1. PICK m : m = Head(batch[c])
      OBVIOUS
    <2>2. /\ batch[c] # <<>> /\ WriteOn(c, m) /\ UNCHANGED <<stored, queue, evicted>>
      BY <1>3, <2>1 DEF DrainWrite
    <2>3. batch[c] \in Seq(Msgs) /\ NoTwice(batch[c]) /\ DOMAIN batch = Chans
      BY DEF PInv, IInv, TypeOK, NoRepeats
    <2>4. m \in Msgs /\ m \in Elems(batch[c])
      BY <2>1, <2>2, <2>3, TailElems
    <2>5. Spot("batch", m) # {}
      BY <2>3, <2>4 DEF Spot, Having
    <2> QED  BY <1>1, <2>2, <2>4, <2>5
  <1>4. CASE Forward(c)
    <2>1. PICK m, dst : m = hand[c] /\ dst = target[c]
      OBVIOUS
    <2>2. /\ pc[c] = "forward" /\ hand' = [hand EXCEPT ![c] = None]
          /\ UNCHANGED <<stored, queue, evicted>>
      BY <1>4 DEF Forward
    <2>3. m \in Msgs /\ Spot("hand", m) # {}
      BY <2>1, <2>2, HandLeaves
    <2>4. \/ lost' = lost \cup {m} /\ wire' = wire
          \/ WriteOn(c, m)
          \/ UNCHANGED <<wire, lost>>
      BY <1>4, <2>1 DEF Forward
    <2>5. CASE lost' = lost \cup {m} /\ wire' = wire
      <3>1. m \in Carried
        BY <2>3, InCarried
      <3>2. Waiting' = Waiting /\ Delivered' = Delivered
        BY <2>2, <2>5 DEF Waiting, Delivered, Elems
      <3>3. Carried' = Carried \ {m} /\ (lost \cup evicted)' = (lost \cup evicted) \cup {m}
        BY <2>2, <2>5, <3>2 DEF Carried
      <3>4. R!Drop(m)
        BY <2>2, <3>1, <3>2, <3>3 DEF R!Drop, Carried
      <3> QED  BY <2>3, <3>4 DEF R!Next
    <2>6. CASE WriteOn(c, m)
      BY <1>1, <2>2, <2>3, <2>6
    <2>7. CASE UNCHANGED <<wire, lost>>
      BY <2>2, <2>7, Invisible
    <2> QED  BY <2>4, <2>5, <2>6, <2>7
  <1>5. CASE DrainTake(c)
    BY <1>5, DrainTakeRefines DEF R!Next
  <1>6. CASE Enqueue(c)
    BY <1>6, EnqueueRefines DEF R!Next
  <1>7. CASE DrainDone(c) \/ Find(c)
    BY <1>7, Invisible DEF DrainDone, Find
  <1> QED  BY <1>2, <1>3, <1>4, <1>5, <1>6, <1>7 DEF LoopStep

LEMMA StepRefines == PInv /\ [Next]_vars => [R!Next]_(R!rvars)
  <1> SUFFICES ASSUME PInv, [Next]_vars PROVE R!Next \/ UNCHANGED R!rvars
    OBVIOUS
  <1>1. CASE UNCHANGED vars
    BY <1>1, Invisible DEF vars
  <1>2. ASSUME NEW c \in Chans,
               \/ Connect(c) \/ Close(c) \/ ChannelInactive(c) \/ Logout(c)
               \/ \E u \in Users : Auth(c, u)
        PROVE  UNCHANGED R!rvars
    BY <1>2, Invisible DEF Connect, Close, ChannelInactive, Logout, Auth
  <1>3. ASSUME NEW c \in Chans, NEW m \in Msgs, Receive(c, m)
        PROVE  R!Next
    BY <1>3, ReceiveRefines DEF R!Next
  <1>4. CASE Next
    BY <1>2, <1>3, <1>4, LoopRefines DEF Next
  <1> QED  BY <1>1, <1>4

(***************************************************************************)
(* The gateway implements the relay's promise, all of it but that a        *)
(* carried frame settles in the end.                                       *)
(***************************************************************************)
THEOREM RelaysSafely == Spec => R!SafeSpec
  BY PlacesInductive, InitRefines, StepRefines, PTL DEF Spec, R!SafeSpec

=============================================================================

--------------------------- MODULE VoiceCallProofs ---------------------------
(***************************************************************************)
(* Proofs about VoiceCall, for any peers, and for any number of signals,   *)
(* intents, activities and sessions.  The session signals are given to is  *)
(* the one its activity has because a session gives way in the step that   *)
(* makes another one current, and because every task of the main looper is *)
(* about a session that there is.  A session releases its media because    *)
(* whatever takes it from its activity gives it a disposal in that step,   *)
(* and no task of a session but its end drops what it was given.           *)
(***************************************************************************)
EXTENDS VoiceCall, SequenceTheorems, TLAPS

-----------------------------------------------------------------------------
(* The session signals are given to (WellFormed).  An activity and its     *)
(* sessions point at each other, and a session that gave way on glare is   *)
(* never the one its activity has.                                         *)

Doings == {"session", "accept", "same", "again", "update", "ring", "mark", "queue",
           "remote", "show", "intent", "dial", "resume", "ended", "refused", "failed",
           "glare", "connected", "caller", "callee", "local", "answer", "hangup",
           "dispose"}
Makings == {"local", "answer"}
Pcs == {"none", "stable", "local", "remote"}
TaskSet == [do : Doings, s : Nat, peer : Peers, kind : Kinds \cup {None}]
\* What a thread does next with its signal.
SignalSet == {task \in TaskSet : task.kind \in Kinds}
ActSet == [peer : Peers, ring : BOOLEAN, session : Nat,
           state : {"shown", "finishing", "destroyed"}, connected : BOOLEAN]
SessionSet == [peer : Peers, act : Nat, tasks : Seq(TaskSet), pc : Pcs,
               creating : Seq(Makings), remoteSet : BOOLEAN, disposed : BOOLEAN,
               shut : BOOLEAN, suppress : BOOLEAN]

Typed ==
  /\ phase \in Phases /\ with \in Peers \cup {None}
  /\ phase = "idle" <=> with = None
  /\ queue \in [Peers -> Seq(Kinds)]
  /\ dispatch \in [Threads -> SignalSet \cup {None}]
  /\ main \in Seq(TaskSet) /\ acts \in Seq(ActSet) /\ sess \in Seq(SessionSet)
  /\ notified \subseteq Peers /\ ongoing \in Peers \cup {None}
  /\ asking \in Peers \cup {None}

\* Tasks about a session there must be.
About == {"remote", "ended", "refused", "failed", "glare", "connected"}
Linked(task) == task.do \in About => task.s \in DOMAIN sess

Noticed(s) == \E i \in DOMAIN main : main[i].do \in {"ended", "refused"} /\ main[i].s = s

ActLinked(a) ==
  /\ acts[a].session \in 0..Len(sess)
  /\ acts[a].session # 0 => sess[acts[a].session].act = a
  /\ acts[a].state = "destroyed" \/ acts[a].ring => acts[a].session = 0

\* A session that has released its media, or is to.
ToDispose(x) == x.disposed \/ \E i \in DOMAIN x.tasks : x.tasks[i].do = "dispose"

SessionLinked(s) ==
  /\ sess[s].act \in DOMAIN acts
  /\ acts[sess[s].act].session = 0 => acts[sess[s].act].state = "destroyed"
  /\ sess[s].suppress => acts[sess[s].act].session # s
  /\ acts[sess[s].act].session = s \/ ToDispose(sess[s])

\* The active session is the one its activity has, and goes when it has ended.
ActiveLinked ==
  /\ active \in 0..Len(sess)
  /\ active # 0 =>
       /\ acts[sess[active].act].session = active
       /\ sess[active].disposed =>
            acts[sess[active].act].state = "finishing" \/ Noticed(active)

Links ==
  /\ \A a \in DOMAIN acts : ActLinked(a)
  /\ \A s \in DOMAIN sess : SessionLinked(s)
  /\ \A i \in DOMAIN main : Linked(main[i])
  /\ \A t \in Threads : dispatch[t] # None => Linked(dispatch[t])
  /\ ActiveLinked

-----------------------------------------------------------------------------
(* Lists and records.                                                      *)

LEMMA ListPut ==
  ASSUME NEW S, NEW q \in Seq(S), NEW k, NEW x \in S
  PROVE  /\ [q EXCEPT ![k] = x] \in Seq(S)
         /\ DOMAIN [q EXCEPT ![k] = x] = DOMAIN q
         /\ Len([q EXCEPT ![k] = x]) = Len(q)
         /\ \A i \in DOMAIN q : [q EXCEPT ![k] = x][i] = IF i = k THEN x ELSE q[i]
<1> DEFINE r == [q EXCEPT ![k] = x]
<1>1. Len(q) \in Nat /\ q \in [1..Len(q) -> S] /\ DOMAIN q = 1..Len(q)
  OBVIOUS
<1>2. r \in [1..Len(q) -> S] /\ \A i \in DOMAIN q : r[i] = IF i = k THEN x ELSE q[i]
  BY <1>1
<1> HIDE DEF r
<1>3. r \in Seq(S)
  BY <1>1, <1>2, SeqDef
<1>4. Len(r) = Len(q) /\ DOMAIN r = DOMAIN q
  BY <1>1, <1>2, <1>3, LenProperties
<1> QED
  BY <1>2, <1>3, <1>4 DEF r

LEMMA ListAdd ==
  ASSUME NEW S, NEW q \in Seq(S), NEW x \in S
  PROVE  /\ Append(q, x) \in Seq(S)
         /\ DOMAIN Append(q, x) = 1..(Len(q) + 1) /\ DOMAIN q = 1..Len(q) /\ Len(q) \in Nat
         /\ Len(Append(q, x)) = Len(q) + 1
         /\ \A i \in DOMAIN q : Append(q, x)[i] = q[i]
         /\ Append(q, x)[Len(q) + 1] = x
OBVIOUS

LEMMA ListRest ==
  ASSUME NEW S, NEW q \in Seq(S), q # <<>>
  PROVE  /\ Tail(q) \in Seq(S) /\ Head(q) = q[1] /\ Head(q) \in S /\ 1 \in DOMAIN q
         /\ \A i \in DOMAIN Tail(q) : i + 1 \in DOMAIN q /\ Tail(q)[i] = q[i + 1]
         /\ \A i \in DOMAIN q \ {1} : i - 1 \in DOMAIN Tail(q) /\ Tail(q)[i - 1] = q[i]
OBVIOUS

LEMMA TaskTyped ==
  ASSUME NEW do \in Doings, NEW s \in Nat, NEW p \in Peers, NEW kind \in Kinds \cup {None}
  PROVE  /\ Task(do, s, p, kind) \in TaskSet
         /\ Task(do, s, p, kind).do = do /\ Task(do, s, p, kind).s = s
         /\ Task(do, s, p, kind).peer = p /\ Task(do, s, p, kind).kind = kind
BY DEF Task, TaskSet

LEMMA DoTyped ==
  ASSUME Typed, NEW s \in DOMAIN sess, NEW do \in Doings
  PROVE  /\ Do(do, s) \in TaskSet /\ Linked(Do(do, s))
         /\ Do(do, s).do = do /\ Do(do, s).s = s /\ Do(do, s).peer = sess[s].peer
<1>1. s \in Nat /\ sess[s] \in SessionSet
  BY DEF Typed
<1>2. sess[s].peer \in Peers
  BY <1>1 DEF SessionSet
<1> QED
  BY <1>1, <1>2, TaskTyped DEF Do, Linked

\* A session that goes on as the same one.
Same(x, s) ==
  /\ x \in SessionSet
  /\ x.peer = sess[s].peer /\ x.act = sess[s].act /\ x.suppress = sess[s].suppress

\* The disposal it has been given is not lost.
Alike(x, s) == Same(x, s) /\ (ToDispose(sess[s]) => ToDispose(x))

\* A record that differs only where the links do not look.
Carried(x, y) ==
  /\ x \in SessionSet
  /\ x.peer = y.peer /\ x.act = y.act /\ x.suppress = y.suppress
  /\ x.disposed = y.disposed /\ x.tasks = y.tasks

LEMMA CarriedAlike ==
  ASSUME NEW s, NEW x, NEW y, Carried(x, y), Alike(y, s)
  PROVE  Alike(x, s)
BY DEF Carried, Alike, Same, ToDispose

LEMMA GivenAlike ==
  ASSUME Typed, NEW s \in DOMAIN sess, NEW task \in TaskSet
  PROVE  /\ Alike(Given(s, task), s)
         /\ Given(s, task).disposed = sess[s].disposed
         /\ Given(s, task).creating = sess[s].creating
         /\ task.do = "dispose" => ToDispose(Given(s, task))
<1>1. sess[s] \in SessionSet
  BY DEF Typed
<1>2. sess[s].tasks \in Seq(TaskSet)
  BY <1>1 DEF SessionSet
<1>3. CASE sess[s].disposed
  <2>1. Given(s, task) = sess[s]
    BY <1>1, <1>3 DEF Given, SessionSet
  <2> QED
    BY <1>1, <1>3, <2>1 DEF Alike, Same, ToDispose
<1>4. CASE ~sess[s].disposed
  <2> DEFINE q == sess[s].tasks
             r == Append(q, task)
  <2>1. /\ r \in Seq(TaskSet) /\ DOMAIN r = 1..(Len(q) + 1) /\ DOMAIN q = 1..Len(q)
        /\ Len(q) \in Nat /\ r[Len(q) + 1] = task
        /\ \A i \in DOMAIN q : r[i] = q[i]
    BY <1>2, ListAdd
  <2>2. \A i \in DOMAIN q : i \in DOMAIN r
    BY <2>1
  <2>3. Len(q) + 1 \in DOMAIN r
    BY <2>1
  <2>4. Given(s, task) = [sess[s] EXCEPT !.tasks = r]
    BY <1>4 DEF Given
  <2> HIDE DEF r
  <2>5. /\ Given(s, task) \in SessionSet /\ Given(s, task).tasks = r
        /\ Given(s, task).disposed = sess[s].disposed
        /\ Given(s, task).creating = sess[s].creating
        /\ Given(s, task).peer = sess[s].peer /\ Given(s, task).act = sess[s].act
        /\ Given(s, task).suppress = sess[s].suppress
    BY <1>1, <2>1, <2>4 DEF SessionSet
  <2>6. ToDispose(sess[s]) => \E i \in DOMAIN r : r[i].do = "dispose"
    <3> SUFFICES ASSUME ToDispose(sess[s]) PROVE \E i \in DOMAIN r : r[i].do = "dispose"
      OBVIOUS
    <3>1. PICK i \in DOMAIN q : q[i].do = "dispose"
      BY <1>4 DEF ToDispose
    <3> QED
      BY <2>1, <2>2, <3>1
  <2>7. task.do = "dispose" => \E i \in DOMAIN r : r[i].do = "dispose"
    BY <2>1, <2>3
  <2>8. (\E i \in DOMAIN r : r[i].do = "dispose") => ToDispose(Given(s, task))
    BY <2>5 DEF ToDispose
  <2> QED
    BY <2>5, <2>6, <2>7, <2>8 DEF Alike, Same
<1> QED
  BY <1>3, <1>4

LEMMA TailSame ==
  ASSUME Typed, NEW s \in DOMAIN sess, sess[s].tasks # <<>>
  PROVE  /\ Same(Rest(s), s) /\ Rest(s).disposed = sess[s].disposed
         /\ Rest(s).pc = sess[s].pc
         /\ Rest(s).tasks = Tail(sess[s].tasks) /\ Rest(s).tasks \in Seq(TaskSet)
         /\ Rest(s).creating = sess[s].creating /\ Rest(s).creating \in Seq(Makings)
<1>1. sess[s] \in SessionSet
  BY DEF Typed
<1>2. sess[s].tasks \in Seq(TaskSet)
  BY <1>1 DEF SessionSet
<1>3. PICK q \in Seq(TaskSet) : q = Tail(sess[s].tasks)
  BY <1>2, ListRest
<1>4. Rest(s) = [sess[s] EXCEPT !.tasks = q]
  BY <1>3 DEF Rest
<1> QED
  BY <1>1, <1>3, <1>4 DEF Same, SessionSet

LEMMA RestAlike ==
  ASSUME Typed, NEW s \in DOMAIN sess, NEW do, Runs(s, do), do # "dispose"
  PROVE  Alike(Rest(s), s)
<1>1. sess[s].tasks # <<>> /\ Head(sess[s].tasks).do # "dispose"
  BY DEF Runs
<1>2. sess[s].tasks \in Seq(TaskSet)
  <2>1. sess[s] \in SessionSet
    BY DEF Typed
  <2> QED
    BY <2>1 DEF SessionSet
<1>3. PICK q \in Seq(TaskSet) : q = sess[s].tasks
  BY <1>2
<1>4. /\ Same(Rest(s), s) /\ Rest(s).disposed = sess[s].disposed
      /\ Rest(s).tasks = Tail(q)
  BY <1>1, <1>3, TailSame
<1>5. /\ q[1].do # "dispose"
      /\ \A i \in DOMAIN q \ {1} : i - 1 \in DOMAIN Tail(q) /\ Tail(q)[i - 1] = q[i]
  BY <1>1, <1>3, ListRest
<1>6. (\E i \in DOMAIN q : q[i].do = "dispose")
        => \E i \in DOMAIN Tail(q) : Tail(q)[i].do = "dispose"
  <2> SUFFICES ASSUME NEW i \in DOMAIN q, q[i].do = "dispose"
               PROVE  \E j \in DOMAIN Tail(q) : Tail(q)[j].do = "dispose"
    OBVIOUS
  <2>1. i - 1 \in DOMAIN Tail(q) /\ Tail(q)[i - 1] = q[i]
    BY <1>5
  <2> QED
    BY <2>1
<1>7. ToDispose(sess[s]) => sess[s].disposed \/ \E i \in DOMAIN q : q[i].do = "dispose"
  BY <1>3 DEF ToDispose
<1>8. sess[s].disposed \/ (\E i \in DOMAIN Tail(q) : Tail(q)[i].do = "dispose")
        => ToDispose(Rest(s))
  BY <1>4 DEF ToDispose
<1> QED
  BY <1>4, <1>6, <1>7, <1>8 DEF Alike

LEMMA EndedAlike ==
  ASSUME NEW s, NEW x, Same(x, s)
  PROVE  Alike(Ended(x), s)
<1>1. <<>> \in Seq(TaskSet) /\ <<>> \in Seq(Makings)
  OBVIOUS
<1>2. Ended(x) = [x EXCEPT !.disposed = TRUE, !.tasks = <<>>, !.pc = "none",
                           !.creating = <<>>, !.remoteSet = FALSE]
  BY DEF Ended
<1>3. Same(Ended(x), s) /\ Ended(x).disposed
  BY <1>1, <1>2 DEF Same, SessionSet, Pcs
<1> QED
  BY <1>3 DEF Alike, ToDispose

-----------------------------------------------------------------------------
(* What most steps leave.                                                  *)

SessionsStay ==
  /\ sess' \in Seq(SessionSet) /\ Len(sess') = Len(sess) /\ DOMAIN sess' = DOMAIN sess
  /\ \A s \in DOMAIN sess :
       /\ sess'[s].act = sess[s].act /\ sess'[s].suppress = sess[s].suppress
       /\ sess'[s].disposed => sess[s].disposed \/ sess[s].suppress \/ Noticed(s)'
       /\ ToDispose(sess[s]) => ToDispose(sess'[s])

ActsStay ==
  /\ acts' \in Seq(ActSet) /\ DOMAIN acts \subseteq DOMAIN acts'
  /\ \A a \in DOMAIN acts :
       /\ acts'[a].session = acts[a].session /\ (acts'[a].ring => acts[a].ring)
       /\ \/ acts'[a].state = acts[a].state
          \/ acts[a].state = "shown" /\ acts'[a].state = "finishing"
  /\ \A a \in DOMAIN acts' \ DOMAIN acts :
       acts'[a].session = 0 /\ acts'[a].state = "shown"

MainStays ==
  /\ main' \in Seq(TaskSet)
  /\ \A i \in DOMAIN main' : main'[i].do \in About => main'[i].s \in DOMAIN sess
  /\ active # 0 /\ Noticed(active) =>
       Noticed(active)' \/ acts'[sess[active].act].state = "finishing"

DispatchStays ==
  /\ dispatch' \in [Threads -> SignalSet \cup {None}]
  /\ \A t \in Threads :
       dispatch'[t] # None /\ dispatch'[t].do \in About => dispatch'[t].s \in DOMAIN sess

LEMMA LinksStay ==
  ASSUME Typed, Links, SessionsStay, ActsStay, MainStays, DispatchStays,
         active' = active
  PROVE  Links'
<1>0. /\ sess \in Seq(SessionSet) /\ DOMAIN sess = 1..Len(sess) /\ Len(sess) \in Nat
      /\ DOMAIN sess' = DOMAIN sess /\ Len(sess') = Len(sess)
  BY DEF Typed, SessionsStay
<1>1. ASSUME NEW a \in DOMAIN acts' PROVE ActLinked(a)'
  <2>1. CASE a \in DOMAIN acts
    <3>1. /\ ActLinked(a) /\ acts'[a].session = acts[a].session
          /\ acts'[a].state = "destroyed" => acts[a].state = "destroyed"
          /\ acts'[a].ring => acts[a].ring
      BY <2>1 DEF Links, ActsStay
    <3>2. acts[a].session # 0 => sess'[acts[a].session].act = sess[acts[a].session].act
      BY <1>0, <3>1 DEF SessionsStay, ActLinked
    <3> QED
      BY <1>0, <3>1, <3>2 DEF ActLinked
  <2>2. CASE a \notin DOMAIN acts
    BY <1>0, <2>2 DEF ActsStay, ActLinked
  <2> QED
    BY <2>1, <2>2
<1>2. ASSUME NEW s \in DOMAIN sess PROVE SessionLinked(s)'
  <2>1. /\ SessionLinked(s) /\ sess'[s].act = sess[s].act
        /\ sess'[s].suppress = sess[s].suppress
        /\ ToDispose(sess[s]) => ToDispose(sess'[s])
    BY DEF Links, SessionsStay
  <2>2. /\ sess[s].act \in DOMAIN acts /\ sess[s].act \in DOMAIN acts'
        /\ acts'[sess[s].act].session = acts[sess[s].act].session
        /\ acts[sess[s].act].state = "destroyed" => acts'[sess[s].act].state = "destroyed"
    BY <2>1 DEF ActsStay, SessionLinked
  <2> QED
    BY <2>1, <2>2 DEF SessionLinked
<1>3. /\ \A i \in DOMAIN main' : Linked(main[i])'
      /\ \A t \in Threads : dispatch'[t] # None => Linked(dispatch[t])'
  BY <1>0 DEF MainStays, DispatchStays, Linked
<1>4. ActiveLinked'
  <2>1. active \in 0..Len(sess)
    BY DEF Links, ActiveLinked
  <2>2. CASE active # 0
    <3>1. active \in DOMAIN sess
      BY <1>0, <2>1, <2>2
    <3>2. /\ SessionLinked(active) /\ acts[sess[active].act].session = active
          /\ sess[active].disposed =>
               acts[sess[active].act].state = "finishing" \/ Noticed(active)
      BY <2>2, <3>1 DEF Links, ActiveLinked
    <3>3. ~sess[active].suppress /\ sess[active].act \in DOMAIN acts
      BY <3>2 DEF SessionLinked
    <3>4. /\ acts'[sess[active].act].session = active
          /\ acts[sess[active].act].state = "finishing" =>
               acts'[sess[active].act].state = "finishing"
      BY <3>2, <3>3 DEF ActsStay
    <3>5. /\ sess'[active].act = sess[active].act
          /\ sess'[active].disposed => sess[active].disposed \/ Noticed(active)'
      BY <3>1, <3>3 DEF SessionsStay
    <3>6. sess'[active].disposed =>
            acts'[sess[active].act].state = "finishing" \/ Noticed(active)'
      BY <2>2, <3>2, <3>4, <3>5 DEF MainStays
    <3> QED
      BY <1>0, <2>1, <3>4, <3>5, <3>6 DEF ActiveLinked, Noticed
  <2>3. CASE active = 0
    BY <1>0, <2>3 DEF ActiveLinked
  <2> QED
    BY <2>2, <2>3
<1> QED
  BY <1>0, <1>1, <1>2, <1>3, <1>4 DEF Links

-----------------------------------------------------------------------------
(* The parts of a step.                                                    *)

LEMMA ActsSame ==
  ASSUME Typed, UNCHANGED acts
  PROVE  ActsStay
BY DEF Typed, ActsStay

LEMMA ActPut ==
  ASSUME Typed, NEW a, NEW x \in ActSet, acts' = [acts EXCEPT ![a] = x],
         a \in DOMAIN acts =>
           /\ x.session = acts[a].session /\ (x.ring => acts[a].ring)
           /\ x.state = acts[a].state \/ (acts[a].state = "shown" /\ x.state = "finishing")
  PROVE  ActsStay
<1>1. acts \in Seq(ActSet)
  BY DEF Typed
<1>2. /\ acts' \in Seq(ActSet) /\ DOMAIN acts' = DOMAIN acts
      /\ \A i \in DOMAIN acts : acts'[i] = IF i = a THEN x ELSE acts[i]
  BY <1>1, ListPut
<1> QED
  BY <1>2 DEF ActsStay

LEMMA ActFinishes ==
  ASSUME Typed, NEW a \in DOMAIN acts, Finish(a)
  PROVE  /\ ActsStay /\ ongoing' = None
         /\ acts[a].state # "destroyed" => acts'[a].state = "finishing"
<1> DEFINE x == [acts[a] EXCEPT !.state = IF @ = "shown" THEN "finishing" ELSE @]
<1>1. acts[a] \in ActSet /\ acts \in Seq(ActSet)
  BY DEF Typed
<1>2. /\ x \in ActSet /\ x.session = acts[a].session /\ x.ring = acts[a].ring
      /\ x.state = IF acts[a].state = "shown" THEN "finishing" ELSE acts[a].state
  BY <1>1 DEF ActSet
<1>3. acts' = [acts EXCEPT ![a] = x] /\ ongoing' = None
  BY DEF Finish
<1> HIDE DEF x
<1>4. ActsStay
  BY <1>2, <1>3, ActPut
<1>5. acts'[a] = x
  BY <1>1, <1>3, ListPut
<1>6. acts[a].state \in {"shown", "finishing", "destroyed"}
  BY <1>1 DEF ActSet
<1> QED
  BY <1>2, <1>3, <1>4, <1>5, <1>6

LEMMA SessSame ==
  ASSUME Typed, UNCHANGED sess
  PROVE  SessionsStay
BY DEF Typed, SessionsStay

LEMMA SessPut ==
  ASSUME Typed, NEW s, NEW x, Session(s, x),
         s \in DOMAIN sess =>
           /\ Alike(x, s)
           /\ x.disposed => sess[s].disposed \/ sess[s].suppress \/ Noticed(s)'
  PROVE  SessionsStay
<1>1. sess \in Seq(SessionSet) /\ sess' = [sess EXCEPT ![s] = x]
  BY DEF Typed, Session
<1>2. CASE s \in DOMAIN sess
  <2>1. x \in SessionSet
    BY <1>2 DEF Alike, Same
  <2>2. /\ sess' \in Seq(SessionSet) /\ Len(sess') = Len(sess) /\ DOMAIN sess' = DOMAIN sess
        /\ \A i \in DOMAIN sess : sess'[i] = IF i = s THEN x ELSE sess[i]
    BY <1>1, <2>1, ListPut
  <2> QED
    BY <1>2, <2>2 DEF SessionsStay, Alike, Same
<1>3. CASE s \notin DOMAIN sess
  <2>1. sess' = sess
    BY <1>1, <1>3
  <2> QED
    BY <1>1, <2>1 DEF SessionsStay
<1> QED
  BY <1>2, <1>3

LEMMA MainUnchanged ==
  ASSUME Typed, Links, UNCHANGED <<main, active>>
  PROVE  MainStays
<1>1. Noticed(active) => Noticed(active)'
  BY DEF Noticed
<1> QED
  BY <1>1 DEF Typed, Links, Linked, MainStays

LEMMA MainAdds ==
  ASSUME Typed, Links, UNCHANGED active, NEW task \in TaskSet, Linked(task), Posts(task)
  PROVE  /\ MainStays
         /\ task.do \in {"ended", "refused"} => Noticed(task.s)'
<1>1. /\ main \in Seq(TaskSet) /\ main' = Append(main, task)
      /\ main' \in Seq(TaskSet)
      /\ DOMAIN main' = 1..(Len(main) + 1) /\ DOMAIN main = 1..Len(main) /\ Len(main) \in Nat
      /\ \A i \in DOMAIN main : main'[i] = main[i]
      /\ main'[Len(main) + 1] = task
  BY ListAdd DEF Typed, Posts
<1>2. \A i \in DOMAIN main' : main'[i].do \in About => main'[i].s \in DOMAIN sess
  BY <1>1 DEF Links, Linked
<1>3. Noticed(active) => Noticed(active)'
  BY <1>1 DEF Noticed
<1>4. task.do \in {"ended", "refused"} => Noticed(task.s)'
  <2>1. Len(main) + 1 \in DOMAIN main'
    BY <1>1
  <2>2. task.do \in {"ended", "refused"} =>
          \E i \in DOMAIN main' : main'[i].do \in {"ended", "refused"} /\ main'[i].s = task.s
    BY <1>1, <2>1
  <2> QED
    BY <2>2 DEF Noticed
<1> QED
  BY <1>1, <1>2, <1>3, <1>4 DEF MainStays

\* The main looper has done its first task.
LEMMA MainDoes ==
  ASSUME Typed, Links, UNCHANGED active, main # <<>>, Done,
         \/ Head(main).do \notin {"ended", "refused"}
         \/ Head(main).s # active
         \/ acts'[sess[active].act].state = "finishing"
  PROVE  /\ MainStays /\ Head(main) \in TaskSet /\ Linked(Head(main))
<1>1. /\ Head(main) = main[1] /\ Head(main) \in TaskSet /\ 1 \in DOMAIN main
      /\ main' \in Seq(TaskSet)
      /\ \A i \in DOMAIN main' : i + 1 \in DOMAIN main /\ main'[i] = main[i + 1]
      /\ \A i \in DOMAIN main \ {1} : i - 1 \in DOMAIN main' /\ main'[i - 1] = main[i]
  BY ListRest DEF Typed, Done
<1>2. \A i \in DOMAIN main' : main'[i].do \in About => main'[i].s \in DOMAIN sess
  BY <1>1 DEF Links, Linked
<1>3. Noticed(active) => Noticed(active)' \/ acts'[sess[active].act].state = "finishing"
  <2> SUFFICES ASSUME Noticed(active), acts'[sess[active].act].state # "finishing"
               PROVE  Noticed(active)'
    OBVIOUS
  <2>1. PICK i \in DOMAIN main : main[i].do \in {"ended", "refused"} /\ main[i].s = active
    BY DEF Noticed
  <2>2. i # 1
    BY <1>1, <2>1
  <2>3. i - 1 \in DOMAIN main' /\ main'[i - 1] = main[i]
    BY <1>1, <2>1, <2>2
  <2> QED
    BY <2>1, <2>3 DEF Noticed
<1>4. Linked(Head(main))
  BY <1>1 DEF Links
<1> QED
  BY <1>1, <1>2, <1>3, <1>4 DEF MainStays

LEMMA DispatchSame ==
  ASSUME Typed, Links, UNCHANGED dispatch
  PROVE  DispatchStays
BY DEF Typed, Links, Linked, DispatchStays

-----------------------------------------------------------------------------
(* The executors.                                                          *)

CInv == Typed /\ Links

\* A task of a session that posts a task or none.
LEMMA SessionStep ==
  ASSUME CInv, NEW s \in DOMAIN sess, NEW x, Session(s, x), Alike(x, s),
         x.disposed => sess[s].disposed \/ sess[s].suppress \/ Noticed(s)',
         OnlySession, MainStays
  PROVE  CInv'
<1>1. SessionsStay
  BY SessPut DEF CInv
<1>2. ActsStay /\ DispatchStays /\ active' = active
  BY ActsSame, DispatchSame DEF CInv, OnlySession, ui, shared
<1>3. Links'
  BY <1>1, <1>2, LinksStay DEF CInv
<1>4. Typed'
  BY <1>1, <1>2 DEF CInv, Typed, OnlySession, shared, ui, SessionsStay, MainStays
<1> QED
  BY <1>3, <1>4 DEF CInv

LEMMA QuietStep ==
  ASSUME CInv, NEW s \in DOMAIN sess, NEW x, Session(s, x), Alike(x, s),
         x.disposed = sess[s].disposed, OnlySession,
         UNCHANGED main \/ \E task \in TaskSet : Linked(task) /\ Posts(task)
  PROVE  CInv'
<1>1. UNCHANGED active
  BY DEF OnlySession, shared
<1>2. MainStays
  BY <1>1, MainUnchanged, MainAdds DEF CInv
<1> QED
  BY <1>2, SessionStep

LEMMA CrashStep ==
  ASSUME CInv, Crash
  PROVE  CInv'
<1>1. /\ phase' = "idle" /\ with' = None /\ active' = 0
      /\ queue' = [p \in Peers |-> <<>>] /\ dispatch' = [t \in Threads |-> None]
      /\ main' = <<>> /\ acts' = <<>> /\ sess' = <<>>
      /\ ongoing' = None /\ asking' = None /\ notified' = notified
  BY DEF Crash
<1>2. /\ main' \in Seq(TaskSet) /\ acts' \in Seq(ActSet) /\ sess' \in Seq(SessionSet)
      /\ DOMAIN main' = {} /\ DOMAIN acts' = {} /\ DOMAIN sess' = {} /\ Len(sess') = 0
  BY <1>1
<1>3. queue' \in [Peers -> Seq(Kinds)] /\ dispatch' \in [Threads -> SignalSet \cup {None}]
  <2>1. <<>> \in Seq(Kinds)
    OBVIOUS
  <2> QED
    BY <1>1, <2>1
<1>4. Typed'
  BY <1>1, <1>2, <1>3 DEF CInv, Typed, Phases
<1>5. Links'
  BY <1>1, <1>2 DEF Links, ActiveLinked
<1> QED
  BY <1>4, <1>5 DEF CInv

LEMMA ResubmitStep ==
  ASSUME CInv, NEW s \in DOMAIN sess, Alike(Rest(s), s), sess[s].tasks # <<>>,
         NEW do \in Doings, Resubmit(s, do)
  PROVE  CInv'
<1>1. CASE sess[s].shut
  BY <1>1, CrashStep DEF Resubmit
<1>2. CASE ~sess[s].shut
  <2>1. PICK q : q = Rest(s).tasks
    OBVIOUS
  <2>2. PICK task \in TaskSet : task = Do(do, s)
    BY DoTyped DEF CInv
  <2>3. /\ Same(Rest(s), s) /\ Rest(s).disposed = sess[s].disposed /\ q \in Seq(TaskSet)
    BY <2>1, TailSame DEF CInv
  <2>4. PICK r : r = Append(q, task)
    OBVIOUS
  <2>5. /\ r \in Seq(TaskSet)
        /\ \A i \in DOMAIN q : i \in DOMAIN r /\ r[i] = q[i]
    BY <2>3, <2>4, ListAdd
  <2>6. PICK x : x = [Rest(s) EXCEPT !.tasks = r]
    OBVIOUS
  <2>7. Session(s, x) /\ OnlySession /\ UNCHANGED main
    BY <1>2, <2>1, <2>2, <2>4, <2>6 DEF Resubmit
  <2>8. Same(x, s) /\ x.disposed = sess[s].disposed /\ x.tasks = r
    BY <2>3, <2>5, <2>6 DEF Same, SessionSet
  <2>9. ToDispose(Rest(s)) => ToDispose(x)
    BY <2>1, <2>3, <2>5, <2>8 DEF ToDispose
  <2>10. Alike(x, s)
    BY <2>8, <2>9 DEF Alike
  <2> QED
    BY <2>7, <2>8, <2>10, QuietStep
<1> QED
  BY <1>1, <1>2

LEMMA FailsStep ==
  ASSUME CInv, NEW s \in DOMAIN sess, NEW x, Alike(x, s),
         x.disposed = sess[s].disposed, Fails(s, x)
  PROVE  CInv'
<1>1. Do("failed", s) \in TaskSet /\ Linked(Do("failed", s))
  BY DoTyped DEF CInv, Doings
<1> QED
  BY <1>1, QuietStep DEF Fails

\* A task that leaves a record carried on from what it found.
LEMMA CarriedStep ==
  ASSUME CInv, NEW s \in DOMAIN sess, NEW x, NEW y, Carried(x, y), Alike(y, s),
         y.disposed = sess[s].disposed,
         (Session(s, x) /\ OnlySession /\ UNCHANGED main) \/ Fails(s, x)
  PROVE  CInv'
<1>1. Alike(x, s) /\ x.disposed = sess[s].disposed
  BY CarriedAlike DEF Carried
<1> QED
  BY <1>1, QuietStep, FailsStep

LEMMA TaskOf ==
  ASSUME CInv, NEW s \in DOMAIN sess, NEW do, Runs(s, do), do # "dispose"
  PROVE  /\ Alike(Rest(s), s) /\ Rest(s) \in SessionSet
         /\ Rest(s).disposed = sess[s].disposed /\ Rest(s).pc = sess[s].pc
         /\ Rest(s).creating \in Seq(Makings) /\ sess[s].tasks # <<>>
         /\ Carried(Rest(s), Rest(s))
<1>1. sess[s].tasks # <<>>
  BY DEF Runs
<1>2. Same(Rest(s), s) /\ Rest(s).creating \in Seq(Makings)
  BY <1>1, TailSame DEF CInv
<1> QED
  BY <1>1, <1>2, TailSame, RestAlike DEF CInv, Same, Carried

LEMMA OfferingStep ==
  ASSUME CInv, NEW s \in DOMAIN sess,
         StartCaller(s) \/ SetLocal(s) \/ StartCallee(s) \/ SetAnswer(s)
  PROVE  CInv'
<1> DEFINE y == Rest(s)
<1>1. /\ Alike(y, s) /\ y \in SessionSet /\ y.disposed = sess[s].disposed
      /\ y.creating \in Seq(Makings) /\ y.pc \in Pcs
      /\ Carried(y, y)
  <2>1. \E do \in {"caller", "local", "callee", "answer"} : Runs(s, do)
    BY DEF StartCaller, SetLocal, StartCallee, SetAnswer
  <2>2. sess[s].pc \in Pcs
    <3>1. sess[s] \in SessionSet
      BY DEF CInv, Typed
    <3> QED
      BY <3>1 DEF SessionSet
  <2> QED
    BY <2>1, <2>2, TaskOf
<1>2. /\ Append(y.creating, "local") \in Seq(Makings)
      /\ Append(y.creating, "answer") \in Seq(Makings)
  <2>1. "local" \in Makings /\ "answer" \in Makings
    BY DEF Makings
  <2> QED
    BY <1>1, <2>1, ListAdd
<1>3. CASE StartCaller(s)
  <2> DEFINE x == [y EXCEPT !.pc = "stable", !.creating = Append(@, "local")]
  <2>1. \/ Session(s, x) /\ OnlySession /\ UNCHANGED main
        \/ Fails(s, y)
    BY <1>3 DEF StartCaller
  <2> HIDE DEF y
  <2>2. Carried(x, y)
    BY <1>1, <1>2 DEF Carried, SessionSet, Pcs
  <2> HIDE DEF x
  <2> QED
    BY <1>1, <2>1, <2>2, CarriedStep
<1>4. CASE SetLocal(s)
  <2> DEFINE x == [y EXCEPT !.pc = "local"]
  <2>1. \/ (Session(s, x) /\ OnlySession /\ UNCHANGED main) \/ Fails(s, x)
        \/ Fails(s, y)
    BY <1>4 DEF SetLocal
  <2> HIDE DEF y
  <2>2. Carried(x, y)
    BY <1>1 DEF Carried, SessionSet, Pcs
  <2> HIDE DEF x
  <2> QED
    BY <1>1, <2>1, <2>2, CarriedStep
<1>5. CASE StartCallee(s)
  <2> DEFINE x == [y EXCEPT !.pc = "remote", !.remoteSet = TRUE,
                            !.creating = Append(@, "answer")]
             z == [y EXCEPT !.pc = IF @ = "none" THEN "stable" ELSE @]
  <2>1. \/ Session(s, x) /\ OnlySession /\ UNCHANGED main
        \/ Fails(s, z)
    BY <1>5 DEF StartCallee
  <2> HIDE DEF y
  <2>2. Carried(x, y)
    BY <1>1, <1>2 DEF Carried, SessionSet, Pcs
  <2>3. Carried(z, y)
    BY <1>1 DEF Carried, SessionSet, Pcs
  <2> HIDE DEF x, z
  <2> QED
    BY <1>1, <2>1, <2>2, <2>3, CarriedStep
<1>6. CASE SetAnswer(s)
  <2> DEFINE x == [y EXCEPT !.pc = "stable"]
  <2>1. \/ (Session(s, x) /\ OnlySession /\ UNCHANGED main) \/ Fails(s, x)
        \/ Fails(s, y)
    BY <1>6 DEF SetAnswer
  <2> HIDE DEF y
  <2>2. Carried(x, y)
    BY <1>1 DEF Carried, SessionSet, Pcs
  <2> HIDE DEF x
  <2> QED
    BY <1>1, <2>1, <2>2, CarriedStep
<1> QED
  BY <1>3, <1>4, <1>5, <1>6

LEMMA RemoteStep ==
  ASSUME CInv, NEW s \in DOMAIN sess,
         RemoteOffer(s) \/ RemoteAnswer(s) \/ RemoteRefusal(s)
  PROVE  CInv'
<1> DEFINE y == Rest(s)
<1>1. Runs(s, "remote")
  BY DEF RemoteOffer, RemoteAnswer, RemoteRefusal, Remote
<1>2. /\ Alike(y, s) /\ y \in SessionSet /\ y.disposed = sess[s].disposed
      /\ Carried(y, y) /\ sess[s].tasks # <<>>
  BY <1>1, TaskOf
<1>3. CASE RemoteOffer(s)
  <2>1. \/ Session(s, y) /\ OnlySession /\ (UNCHANGED main \/ Posts(Do("glare", s)))
        \/ Resubmit(s, "callee")
    BY <1>3 DEF RemoteOffer
  <2>2. Do("glare", s) \in TaskSet /\ Linked(Do("glare", s))
    BY DoTyped DEF CInv, Doings
  <2> QED
    BY <1>2, <2>1, <2>2, QuietStep, ResubmitStep DEF Doings
<1>4. CASE RemoteAnswer(s)
  <2> DEFINE x == [y EXCEPT !.pc = "stable", !.remoteSet = TRUE]
  <2>1. \/ Session(s, y) /\ OnlySession /\ UNCHANGED main
        \/ Session(s, x) /\ OnlySession /\ UNCHANGED main
        \/ Fails(s, y)
    BY <1>4 DEF RemoteAnswer
  <2> HIDE DEF y
  <2>2. Carried(x, y)
    BY <1>2 DEF Carried, SessionSet, Pcs
  <2> HIDE DEF x
  <2> QED
    BY <1>2, <2>1, <2>2, CarriedStep
<1>5. CASE RemoteRefusal(s)
  BY <1>2, <1>5, ResubmitStep DEF RemoteRefusal, Doings
<1> QED
  BY <1>3, <1>4, <1>5

\* A session ends with a notice, unless it gave way before.
LEMMA EndStep ==
  ASSUME CInv, NEW s \in DOMAIN sess, Refused(s) \/ EndLocal(s)
  PROVE  CInv'
<1>1. sess[s].tasks # <<>>
  BY DEF Refused, EndLocal, Remote, Runs
<1>2. Alike(Ended(Rest(s)), s)
  BY <1>1, TailSame, EndedAlike DEF CInv
<1>3. UNCHANGED active /\ Session(s, Ended(Rest(s))) /\ OnlySession
  BY DEF Refused, EndLocal, OnlySession, shared
<1>4. \/ sess[s].suppress /\ UNCHANGED main
      \/ \E do \in {"ended", "refused"} : Posts(Do(do, s))
  BY DEF Refused, EndLocal
<1>5. CASE sess[s].suppress /\ UNCHANGED main
  BY <1>2, <1>3, <1>5, MainUnchanged, SessionStep DEF CInv
<1>6. CASE \E do \in {"ended", "refused"} : Posts(Do(do, s))
  <2>1. PICK do \in {"ended", "refused"} : Posts(Do(do, s))
    BY <1>6
  <2>2. /\ Do(do, s) \in TaskSet /\ Linked(Do(do, s))
        /\ Do(do, s).do = do /\ Do(do, s).s = s
    BY DoTyped DEF CInv, Doings
  <2>3. PICK task \in TaskSet : task = Do(do, s)
    BY <2>2
  <2>4. MainStays /\ Noticed(task.s)'
    BY <1>3, <2>1, <2>2, <2>3, MainAdds DEF CInv
  <2> QED
    BY <1>2, <1>3, <2>2, <2>3, <2>4, SessionStep
<1> QED
  BY <1>4, <1>5, <1>6

LEMMA CreatedStep ==
  ASSUME CInv, NEW s \in DOMAIN sess, Created(s)
  PROVE  CInv'
<1>1. sess[s] \in SessionSet /\ sess[s].creating \in Seq(Makings) /\ sess[s].creating # <<>>
  <2>1. sess[s] \in SessionSet
    BY DEF CInv, Typed
  <2>2. sess[s].creating # <<>>
    BY DEF Created
  <2> QED
    BY <2>1, <2>2 DEF SessionSet
<1>2. PICK rest \in Seq(Makings), made \in Makings :
        rest = Tail(sess[s].creating) /\ made = Head(sess[s].creating)
  BY <1>1, ListRest
<1>3. PICK g : g = Given(s, Do(made, s))
  OBVIOUS
<1>4. /\ Alike(g, s) /\ g.disposed = sess[s].disposed /\ g \in SessionSet
      /\ g.creating = sess[s].creating
  <2>1. made \in Doings
    BY DEF Makings, Doings
  <2>2. Do(made, s) \in TaskSet
    BY <2>1, DoTyped DEF CInv
  <2> QED
    BY <1>3, <2>2, GivenAlike DEF CInv, Alike, Same
<1>5. PICK x, y : x = [g EXCEPT !.creating = rest] /\ y = [sess[s] EXCEPT !.creating = rest]
  OBVIOUS
<1>6. \/ Crash
      \/ Session(s, x) /\ OnlySession /\ UNCHANGED main
      \/ Fails(s, y)
  <2>1. x = [g EXCEPT !.creating = Tail(@)]
    BY <1>2, <1>4, <1>5
  <2>2. y = [sess[s] EXCEPT !.creating = Tail(@)]
    BY <1>2, <1>5
  <2> QED
    BY <1>2, <1>3, <2>1, <2>2 DEF Created
<1>7. Carried(x, g)
  BY <1>4, <1>5 DEF Carried, SessionSet
<1>8. Carried(y, sess[s])
  BY <1>1, <1>5 DEF Carried, SessionSet
<1>9. Alike(sess[s], s)
  BY <1>1 DEF Alike, Same
<1> QED
  BY <1>4, <1>6, <1>7, <1>8, <1>9, CrashStep, CarriedStep

LEMMA ConnectionStep ==
  ASSUME CInv, NEW s \in DOMAIN sess, Connects(s) \/ Disconnects(s)
  PROVE  CInv'
<1>1. Alike(sess[s], s)
  BY DEF Alike, Same, CInv, Typed
<1>2. CASE Connects(s)
  <2>1. Posts(Do("connected", s)) /\ OnlySession /\ UNCHANGED sess
    BY <1>2 DEF Connects
  <2>2. Do("connected", s) \in TaskSet /\ Linked(Do("connected", s))
    BY DoTyped DEF CInv, Doings
  <2>3. Session(s, sess[s])
    BY <2>1 DEF Session, CInv, Typed
  <2> QED
    BY <1>1, <2>1, <2>2, <2>3, QuietStep
<1>3. CASE Disconnects(s)
  BY <1>1, <1>3, FailsStep DEF Disconnects
<1> QED
  BY <1>2, <1>3

LEMMA ExecutorStep ==
  ASSUME CInv, NEW s \in DOMAIN sess,
         Executor(s) \/ Created(s) \/ Connects(s) \/ Disconnects(s)
  PROVE  CInv'
BY OfferingStep, RemoteStep, EndStep, CreatedStep, ConnectionStep DEF Executor

-----------------------------------------------------------------------------
(* The main looper, the threads that dispatch signals, and the user.       *)

\* The variables that take no part in the links.
RestTyped ==
  /\ phase \in Phases /\ with \in Peers \cup {None}
  /\ phase = "idle" <=> with = None
  /\ queue \in [Peers -> Seq(Kinds)]
  /\ notified \subseteq Peers /\ ongoing \in Peers \cup {None}
  /\ asking \in Peers \cup {None}

LEMMA RestSame ==
  ASSUME CInv, UNCHANGED <<phase, with, queue, notified, ongoing, asking>>
  PROVE  RestTyped'
BY DEF CInv, Typed, RestTyped

LEMMA Stays ==
  ASSUME CInv, SessionsStay, ActsStay, MainStays, DispatchStays, active' = active,
         RestTyped'
  PROVE  CInv'
<1>1. Links'
  BY LinksStay DEF CInv
<1>2. Typed'
  BY DEF Typed, RestTyped, SessionsStay, ActsStay, MainStays, DispatchStays
<1> QED
  BY <1>1, <1>2 DEF CInv

\* What a thread does with its signal.
LEMMA DispatchPut ==
  ASSUME CInv, NEW t \in Threads, NEW e \in SignalSet \cup {None},
         e # None /\ e.do \in About => e.s \in DOMAIN sess,
         dispatch' = [dispatch EXCEPT ![t] = e]
  PROVE  DispatchStays
<1>1. /\ dispatch \in [Threads -> SignalSet \cup {None}]
      /\ \A r \in Threads :
           dispatch[r] # None /\ dispatch[r].do \in About => dispatch[r].s \in DOMAIN sess
  BY DEF CInv, Typed, Links, Linked
<1> QED
  BY <1>1 DEF DispatchStays

LEMMA SignalOf ==
  ASSUME CInv, NEW t \in Threads, dispatch[t] # None
  PROVE  /\ dispatch[t] \in SignalSet /\ dispatch[t] \in TaskSet /\ Linked(dispatch[t])
         /\ dispatch[t].peer \in Peers /\ dispatch[t].kind \in Kinds
<1>1. dispatch[t] \in SignalSet /\ Linked(dispatch[t])
  BY DEF CInv, Typed, Links
<1> QED
  BY <1>1 DEF SignalSet, TaskSet

LEMMA GoesOnStays ==
  ASSUME CInv, NEW t \in Threads, dispatch[t] # None, NEW do \in Doings, NEW s \in Nat,
         do \in About => s \in DOMAIN sess, GoesOn(t, do, s)
  PROVE  DispatchStays
<1>1. PICK d \in SignalSet : d = dispatch[t]
  BY SignalOf
<1>2. PICK e : e = [d EXCEPT !.do = do, !.s = s]
  OBVIOUS
<1>3. e \in SignalSet /\ e.do = do /\ e.s = s
  <2>1. d \in TaskSet /\ d.kind \in Kinds
    BY DEF SignalSet
  <2>2. e \in TaskSet /\ e.do = do /\ e.s = s /\ e.kind = d.kind
    BY <1>2, <2>1 DEF TaskSet
  <2> QED
    BY <2>1, <2>2 DEF SignalSet
<1>4. dispatch' = [dispatch EXCEPT ![t] = e]
  <2>1. dispatch \in [Threads -> SignalSet \cup {None}]
    BY DEF CInv, Typed
  <2> QED
    BY <1>1, <1>2, <2>1 DEF GoesOn
<1> QED
  BY <1>3, <1>4, DispatchPut

LEMMA DispatchedStays ==
  ASSUME CInv, NEW t \in Threads, Dispatched(t)
  PROVE  DispatchStays
<1>1. PICK e \in SignalSet \cup {None} : e = None
  OBVIOUS
<1> QED
  BY <1>1, DispatchPut DEF Dispatched

LEMMA ArriveStep ==
  ASSUME CInv, NEW t \in Threads, NEW p \in Peers, NEW kind \in Kinds, Arrive(t, p, kind)
  PROVE  CInv'
<1>1. PICK d : d = Task("session", 0, p, kind)
  OBVIOUS
<1>2. /\ dispatch' = [dispatch EXCEPT ![t] = d]
      /\ UNCHANGED <<phase, with, active, queue, main, acts, notified, ongoing, asking, sess>>
  BY <1>1 DEF Arrive, shared, ui
<1>3. d \in TaskSet /\ d.do = "session" /\ d.kind = kind
  BY <1>1, TaskTyped DEF Doings
<1>4. DispatchStays
  <2>1. d \in SignalSet /\ d.do \notin About
    BY <1>3 DEF SignalSet, About
  <2> QED
    BY <1>2, <2>1, DispatchPut
<1>5. SessionsStay /\ ActsStay /\ MainStays
  BY <1>2, SessSame, ActsSame, MainUnchanged DEF CInv
<1> QED
  BY <1>2, <1>4, <1>5, RestSame, Stays

\* The looks at the session and at the phone only choose the next step.
LEMMA LooksStay ==
  ASSUME CInv, NEW t \in Threads, LooksAtSession(t) \/ LooksAtPhase(t)
  PROVE  DispatchStays
<1>1. dispatch[t] # None
  BY DEF LooksAtSession, LooksAtPhase, At
<1>2. active # 0 => active \in Nat /\ active \in DOMAIN sess
  BY DEF CInv, Typed, Links, ActiveLinked
<1>3. \/ Dispatched(t)
      \/ active # 0 /\ GoesOn(t, "remote", active)
      \/ \E do \in {"accept", "same", "again", "update", "ring", "mark", "queue"} :
           GoesOn(t, do, 0)
  BY DEF LooksAtSession, LooksAtPhase, WithActive
<1>4. CASE active # 0 /\ GoesOn(t, "remote", active)
  <2>1. "remote" \in Doings
    BY DEF Doings
  <2> QED
    BY <1>1, <1>2, <1>4, <2>1, GoesOnStays
<1>5. ASSUME NEW do \in {"accept", "same", "again", "update", "ring", "mark", "queue"},
             GoesOn(t, do, 0)
      PROVE  DispatchStays
  <2>1. do \in Doings /\ do \notin About
    BY DEF Doings, About
  <2> QED
    BY <1>1, <1>5, <2>1, GoesOnStays
<1> QED
  BY <1>3, <1>4, <1>5, DispatchedStays

LEMMA DispatchSignalingStep ==
  ASSUME CInv, NEW t \in Threads, DispatchSignaling(t)
  PROVE  CInv'
<1>1. /\ UNCHANGED <<active, acts, notified, ongoing, asking, sess>>
      /\ SessionsStay /\ ActsStay
  <2>1. UNCHANGED <<active, acts, notified, ongoing, asking, sess>>
    BY DEF DispatchSignaling, MarkIncomingRinging, Enqueue, PostSignal, ui, shared
  <2> QED
    BY <2>1, SessSame, ActsSame DEF CInv
<1>2. CASE (LooksAtSession(t) \/ LooksAtPhase(t)) /\ UNCHANGED <<shared, main>>
  <2>1. UNCHANGED <<phase, with, queue, main>>
    BY <1>2 DEF shared
  <2> QED
    BY <1>1, <1>2, <2>1, LooksStay, MainUnchanged, RestSame, Stays DEF CInv
<1>3. CASE MarkIncomingRinging(t)
  <2>1. /\ dispatch[t] # None /\ phase' = "ringing" /\ with' = dispatch[t].peer
        /\ GoesOn(t, "show", 0) /\ UNCHANGED <<queue, main>>
    BY <1>3 DEF MarkIncomingRinging, At
  <2>2. dispatch[t].peer \in Peers
    BY <2>1, SignalOf
  <2>3. DispatchStays
    <3>1. "show" \in Doings /\ "show" \notin About
      BY DEF Doings, About
    <3> QED
      BY <2>1, <3>1, GoesOnStays
  <2>4. RestTyped'
    BY <1>1, <2>1, <2>2, VoiceCallAssumption DEF CInv, Typed, RestTyped, Phases
  <2>5. MainStays
    BY <1>1, <2>1, MainUnchanged DEF CInv
  <2> QED
    BY <1>1, <2>3, <2>4, <2>5, Stays
<1>4. CASE Enqueue(t)
  <2>1. PICK d : d = dispatch[t]
    OBVIOUS
  <2>2. /\ d # None /\ Dispatched(t) /\ UNCHANGED <<phase, with, main>>
        /\ queue' = [queue EXCEPT ![d.peer] = Append(@, d.kind)]
    BY <1>4, <2>1 DEF Enqueue, At
  <2>3. d.peer \in Peers /\ d.kind \in Kinds
    BY <2>1, <2>2, SignalOf
  <2>4. queue' \in [Peers -> Seq(Kinds)]
    <3>1. queue \in [Peers -> Seq(Kinds)]
      BY DEF CInv, Typed
    <3>2. queue[d.peer] \in Seq(Kinds)
      BY <2>3, <3>1
    <3>3. Append(queue[d.peer], d.kind) \in Seq(Kinds)
      BY <2>3, <3>2
    <3> QED
      BY <2>2, <3>1, <3>3
  <2>5. RestTyped'
    BY <1>1, <2>2, <2>4 DEF CInv, Typed, RestTyped
  <2>6. MainStays
    BY <1>1, <2>2, MainUnchanged DEF CInv
  <2> QED
    BY <1>1, <2>2, <2>5, <2>6, DispatchedStays, Stays
<1>5. CASE PostSignal(t)
  <2>1. /\ dispatch[t] # None /\ Posts(dispatch[t]) /\ Dispatched(t)
        /\ UNCHANGED <<phase, with, queue>>
    BY <1>5 DEF PostSignal, At, shared
  <2>2. PICK d \in TaskSet : d = dispatch[t] /\ Linked(d)
    BY <2>1, SignalOf
  <2>3. MainStays
    BY <1>1, <2>1, <2>2, MainAdds DEF CInv
  <2> QED
    BY <1>1, <2>1, <2>3, DispatchedStays, RestSame, Stays
<1> QED
  BY <1>2, <1>3, <1>4, <1>5 DEF DispatchSignaling

\* A step of the main looper that keeps the active session, and is none of its
\* end.
LEMMA LooperStep ==
  ASSUME CInv, main # <<>>, Done, Head(main).do \notin {"ended", "refused"},
         UNCHANGED <<active, dispatch>>, SessionsStay, ActsStay, RestTyped'
  PROVE  CInv'
<1>1. MainStays
  BY MainDoes DEF CInv
<1> QED
  BY <1>1, DispatchSame, Stays DEF CInv

LEMMA HeadOfMain ==
  ASSUME CInv, main # <<>>
  PROVE  /\ Head(main) \in TaskSet /\ Linked(Head(main)) /\ Head(main).peer \in Peers
         /\ Head(main).do \in About => Head(main).s \in DOMAIN sess
<1>1. Head(main) = main[1] /\ Head(main) \in TaskSet /\ 1 \in DOMAIN main
  BY ListRest DEF CInv, Typed
<1>2. Linked(Head(main))
  BY <1>1 DEF CInv, Links
<1> QED
  BY <1>1, <1>2 DEF TaskSet, Linked

LEMMA RemotePostedStep ==
  ASSUME CInv, RemotePosted
  PROVE  CInv'
<1>1. PICK d : d = Head(main)
  OBVIOUS
<1>2. main # <<>> /\ d.do = "remote"
  BY <1>1 DEF RemotePosted, Does
<1>3. CASE sess[d.s].shut
  BY <1>1, <1>3, CrashStep DEF RemotePosted
<1>4. CASE ~sess[d.s].shut
  <2>1. /\ Session(d.s, Given(d.s, d)) /\ Done
        /\ UNCHANGED <<phase, with, active, queue, acts, notified, ongoing, dispatch, asking>>
    BY <1>1, <1>4 DEF RemotePosted, Others, shared
  <2>2. d \in TaskSet /\ d.s \in DOMAIN sess
    BY <1>1, <1>2, HeadOfMain DEF About
  <2>3. SessionsStay
    BY <2>1, <2>2, GivenAlike, SessPut DEF CInv
  <2> QED
    BY <1>1, <1>2, <2>1, <2>3, ActsSame, RestSame, LooperStep DEF CInv
<1> QED
  BY <1>3, <1>4

LEMMA ShowIncomingStep ==
  ASSUME CInv, ShowIncoming
  PROVE  CInv'
<1>1. PICK p : p = Head(main).peer
  OBVIOUS
<1>2. PICK task : task = Task("intent", 0, p, "offer")
  OBVIOUS
<1>3. /\ main # <<>> /\ Head(main).do = "show" /\ notified' = notified \cup {p}
      /\ Done \/ main' = Append(Tail(main), task)
      /\ UNCHANGED <<phase, with, active, queue, acts, ongoing, sess, dispatch, asking>>
  BY <1>1, <1>2 DEF ShowIncoming, Does, Others, shared
<1>4. p \in Peers
  BY <1>1, <1>3, HeadOfMain
<1>5. task \in TaskSet /\ task.do = "intent"
  BY <1>2, <1>4, TaskTyped DEF Doings, Kinds
<1>6. SessionsStay /\ ActsStay /\ DispatchStays /\ RestTyped'
  BY <1>3, <1>4, SessSame, ActsSame, DispatchSame DEF CInv, Typed, RestTyped
<1>7. CASE Done
  BY <1>3, <1>6, <1>7, LooperStep
<1>8. CASE main' = Append(Tail(main), task)
  <2>1. /\ main[1].do = "show" /\ Tail(main) \in Seq(TaskSet)
        /\ \A i \in DOMAIN Tail(main) : i + 1 \in DOMAIN main /\ Tail(main)[i] = main[i + 1]
        /\ \A i \in DOMAIN main \ {1} : i - 1 \in DOMAIN Tail(main) /\ Tail(main)[i - 1] = main[i]
    BY <1>3, ListRest DEF CInv, Typed
  <2>2. /\ main' \in Seq(TaskSet)
        /\ \A i \in DOMAIN Tail(main) : i \in DOMAIN main' /\ main'[i] = Tail(main)[i]
        /\ \A i \in DOMAIN main' : i \in DOMAIN Tail(main) \/ main'[i] = task
    BY <1>5, <1>8, <2>1, ListAdd
  <2>3. \A i \in DOMAIN main' : main'[i].do \in About => main'[i].s \in DOMAIN sess
    BY <1>5, <2>1, <2>2 DEF CInv, Links, Linked, About
  <2>4. Noticed(active) => Noticed(active)'
    <3> SUFFICES ASSUME Noticed(active) PROVE Noticed(active)'
      OBVIOUS
    <3>1. PICK i \in DOMAIN main : main[i].do \in {"ended", "refused"} /\ main[i].s = active
      BY DEF Noticed
    <3>2. i \in DOMAIN main \ {1}
      BY <2>1, <3>1
    <3>3. i - 1 \in DOMAIN main' /\ main'[i - 1] = main[i]
      BY <2>1, <2>2, <3>2
    <3> QED
      BY <1>3, <3>1, <3>3 DEF Noticed
  <2>5. MainStays
    BY <2>2, <2>3, <2>4 DEF MainStays
  <2> QED
    BY <1>3, <1>6, <2>5, Stays
<1> QED
  BY <1>3, <1>7, <1>8

LEMMA TopOf ==
  ASSUME CInv, Top # 0
  PROVE  /\ Top \in DOMAIN acts /\ acts[Top] \in ActSet /\ acts[Top].state = "shown"
         /\ acts[Top].peer \in Peers
<1>1. acts \in Seq(ActSet)
  BY DEF CInv, Typed
<1>2. Top = Ref /\ Ref = Len(acts) /\ acts # <<>> /\ acts[Ref].state = "shown"
  BY DEF Top, Ref
<1>3. Len(acts) \in DOMAIN acts
  BY <1>1, <1>2
<1>4. Top \in DOMAIN acts /\ acts[Top] \in ActSet /\ acts[Top].state = "shown"
  BY <1>1, <1>2, <1>3
<1> QED
  BY <1>4 DEF ActSet

LEMMA IncomingIntentStep ==
  ASSUME CInv, IncomingIntent
  PROVE  CInv'
<1>1. PICK p : p = Head(main).peer
  OBVIOUS
<1>2. /\ main # <<>> /\ Head(main).do = "intent" /\ Done
      /\ UNCHANGED <<phase, with, active, queue, ongoing, dispatch, asking>>
      /\ notified' = notified \/ notified' = notified \ {p}
  BY <1>1 DEF IncomingIntent, Does, Others, shared
<1>3. p \in Peers
  BY <1>1, <1>2, HeadOfMain
<1>4. RestTyped'
  BY <1>2 DEF CInv, Typed, RestTyped
<1>5. SessionsStay /\ ActsStay
  <2>1. CASE acts' = Append(acts, NewActivity(p, 0)) /\ UNCHANGED sess
    <3>1. /\ NewActivity(p, 0) \in ActSet
          /\ NewActivity(p, 0).session = 0 /\ NewActivity(p, 0).state = "shown"
      BY <1>3 DEF NewActivity, ActSet
    <3>2. PICK x \in ActSet : x = NewActivity(p, 0) /\ x.session = 0 /\ x.state = "shown"
      BY <3>1
    <3>3. ActsStay
      <4>1. acts \in Seq(ActSet) /\ acts' = Append(acts, x)
        BY <2>1, <3>2 DEF CInv, Typed
      <4>2. /\ acts' \in Seq(ActSet) /\ DOMAIN acts' = 1..(Len(acts) + 1)
            /\ DOMAIN acts = 1..Len(acts) /\ Len(acts) \in Nat
            /\ \A i \in DOMAIN acts : acts'[i] = acts[i]
            /\ acts'[Len(acts) + 1] = x
        BY <4>1, ListAdd
      <4> QED
        BY <3>2, <4>2 DEF ActsStay
    <3> QED
      BY <2>1, <3>3, SessSame DEF CInv
  <2>2. CASE /\ UNCHANGED acts
             /\ \/ UNCHANGED sess
                \/ \E s : Session(s, Given(s, Task("remote", 0, p, "offer")))
    <3>1. Task("remote", 0, p, "offer") \in TaskSet
      BY <1>3, TaskTyped DEF Doings, Kinds
    <3>2. SessionsStay
      BY <2>2, <3>1, SessSame, GivenAlike, SessPut DEF CInv
    <3> QED
      BY <2>2, <3>2, ActsSame DEF CInv
  <2> QED
    BY <1>1, <2>1, <2>2 DEF IncomingIntent
<1> QED
  BY <1>2, <1>4, <1>5, LooperStep

\* The notice of an end closes the activity of the session.
LEMMA NoticeStep ==
  ASSUME CInv, Notice
  PROVE  CInv'
<1>1. PICK s : s = Head(main).s
  OBVIOUS
<1>3. /\ main # <<>> /\ Head(main).do \in {"ended", "refused", "failed"} /\ Done
      /\ Finish(sess[s].act)
      /\ UNCHANGED <<phase, with, active, queue, notified, sess, dispatch, asking>>
  BY <1>1 DEF Notice, Does, Others, shared
<1>4. s \in DOMAIN sess
  BY <1>1, <1>3, HeadOfMain DEF About
<1>5. sess[s] \in SessionSet /\ SessionLinked(s) /\ s # 0
  BY <1>4 DEF CInv, Typed, Links
<1>6. sess[s].act \in DOMAIN acts
  BY <1>5 DEF SessionLinked
<1>7. PICK a \in DOMAIN acts : a = sess[s].act
  BY <1>6
<1>8. /\ ActsStay /\ ongoing' = None
      /\ acts[a].state # "destroyed" => acts'[a].state = "finishing"
  BY <1>3, <1>7, ActFinishes DEF CInv
<1>9. SessionsStay
  BY <1>3, SessSame DEF CInv
<1>10. s # active \/ acts'[sess[active].act].state = "finishing"
  <2> SUFFICES ASSUME s = active PROVE acts'[sess[active].act].state = "finishing"
    OBVIOUS
  <2>1. acts[a].session = active /\ active # 0
    BY <1>5, <1>7 DEF CInv, Links, ActiveLinked
  <2>2. acts[a].state # "destroyed"
    BY <2>1 DEF CInv, Links, ActLinked
  <2> QED
    BY <2>2, <1>7, <1>8
<1>11. MainStays
  BY <1>1, <1>3, <1>10, MainDoes DEF CInv
<1>12. DispatchStays /\ RestTyped'
  BY <1>3, <1>8, DispatchSame DEF CInv, Typed, RestTyped
<1> QED
  BY <1>3, <1>8, <1>9, <1>11, <1>12, Stays

LEMMA ConnectedStep ==
  ASSUME CInv, Connected
  PROVE  CInv'
<1>1. PICK d : d = Head(main)
  OBVIOUS
<1>2. main # <<>> /\ d.do = "connected" /\ Done
  BY <1>1 DEF Connected, Does
<1>3. d.s \in DOMAIN sess
  BY <1>1, <1>2, HeadOfMain DEF About
<1>4. PICK a \in DOMAIN acts : a = sess[d.s].act
  BY <1>3 DEF CInv, Links, SessionLinked
<1>8. /\ phase' = "connected" /\ with' = acts[a].peer /\ ongoing' = acts[a].peer
      /\ acts' = [acts EXCEPT ![a].connected = TRUE]
      /\ UNCHANGED <<active, queue, notified, sess, dispatch, asking>>
  BY <1>1, <1>4 DEF Connected, Others
<1>9. acts[a].peer \in Peers
  <2>1. acts[a] \in ActSet
    BY DEF CInv, Typed
  <2> QED
    BY <2>1 DEF ActSet
<1>5. ActsStay
  <2> DEFINE x == [acts[a] EXCEPT !.connected = TRUE]
  <2>1. acts[a] \in ActSet
    BY DEF CInv, Typed
  <2>2. /\ x \in ActSet /\ x.session = acts[a].session /\ x.state = acts[a].state
        /\ x.ring = acts[a].ring
    BY <2>1 DEF ActSet
  <2>3. acts' = [acts EXCEPT ![a] = x]
    BY <1>8
  <2> HIDE DEF x
  <2> QED
    BY <2>2, <2>3, ActPut DEF CInv
<1>6. RestTyped'
  BY <1>8, <1>9, VoiceCallAssumption DEF CInv, Typed, RestTyped, Phases
<1>7. SessionsStay
  BY <1>8, SessSame DEF CInv
<1> QED
  BY <1>1, <1>2, <1>5, <1>6, <1>7, <1>8, LooperStep

-----------------------------------------------------------------------------
(* New sessions.                                                           *)

\* A session is added for activity a and becomes its session and the active
\* one; the one a had before may have been told to be silent.
SessionAdds(a, base, new) ==
  /\ base \in Seq(SessionSet) /\ Len(base) = Len(sess) /\ DOMAIN base = DOMAIN sess
  /\ \A s \in DOMAIN sess :
       /\ base[s].act = sess[s].act
       /\ base[s].suppress => sess[s].suppress \/ sess[s].act = a
       /\ ToDispose(sess[s]) \/ sess[s].act = a => ToDispose(base[s])
  /\ new \in SessionSet /\ new.act = a /\ ~new.suppress /\ ~new.disposed
  /\ sess' = Append(base, new)
  /\ active' = Len(sess) + 1
  /\ acts' \in Seq(ActSet) /\ a \in DOMAIN acts' /\ DOMAIN acts' = DOMAIN acts \cup {a}
  /\ acts'[a].session = Len(sess) + 1
  /\ acts'[a].state # "destroyed" /\ ~acts'[a].ring
  /\ \A b \in DOMAIN acts \ {a} : acts'[b] = acts[b]

LEMMA LinksAdd ==
  ASSUME Typed, Links, NEW a, NEW base, NEW new, SessionAdds(a, base, new),
         \A i \in DOMAIN main' : main'[i].do \in About => main'[i].s \in DOMAIN sess,
         UNCHANGED dispatch
  PROVE  Links' /\ sess' \in Seq(SessionSet)
<1>1. PICK n \in Nat : n = Len(sess)
  BY DEF Typed
<1>2. /\ sess \in Seq(SessionSet) /\ DOMAIN sess = 1..n /\ DOMAIN base = 1..n
      /\ base \in Seq(SessionSet) /\ new \in SessionSet /\ sess' = Append(base, new)
      /\ Len(base) = n
  BY <1>1 DEF Typed, SessionAdds
<1>3. /\ sess' \in Seq(SessionSet) /\ Len(sess') = n + 1 /\ DOMAIN sess' = 1..(n + 1)
      /\ \A s \in DOMAIN sess : sess'[s] = base[s]
      /\ sess'[n + 1] = new
  BY <1>2, ListAdd
<1>4. /\ active' = n + 1 /\ acts'[a].session = n + 1
      /\ acts'[a].state # "destroyed" /\ ~acts'[a].ring
      /\ DOMAIN acts' = DOMAIN acts \cup {a}
      /\ \A b \in DOMAIN acts \ {a} : acts'[b] = acts[b]
      /\ new.act = a /\ ~new.suppress /\ ~new.disposed
  BY <1>1 DEF SessionAdds
<1>5. \A s \in DOMAIN sess :
        /\ sess'[s].act = sess[s].act
        /\ sess'[s].suppress => sess[s].suppress \/ sess[s].act = a
        /\ ToDispose(sess[s]) \/ sess[s].act = a => ToDispose(sess'[s])
  BY <1>3 DEF SessionAdds
<1>6. ASSUME NEW b \in DOMAIN acts' PROVE ActLinked(b)'
  <2>1. CASE b = a
    BY <1>3, <1>4, <2>1 DEF ActLinked
  <2>2. CASE b # a
    <3>1. acts'[b] = acts[b] /\ ActLinked(b)
      BY <1>4, <2>2 DEF Links
    <3>2. /\ acts[b].session \in 0..n
          /\ acts[b].session # 0 => sess[acts[b].session].act = b
      BY <1>1, <3>1 DEF ActLinked
    <3>3. acts[b].session # 0 => sess'[acts[b].session].act = b
      BY <1>2, <1>5, <3>2
    <3> QED
      BY <1>3, <3>1, <3>2, <3>3 DEF ActLinked
  <2> QED
    BY <2>1, <2>2
<1>7. ASSUME NEW s \in DOMAIN sess' PROVE SessionLinked(s)'
  <2>1. CASE s = n + 1
    BY <1>3, <1>4, <2>1 DEF SessionLinked
  <2>2. CASE s # n + 1
    <3>1. s \in DOMAIN sess /\ s \in Nat
      BY <1>2, <1>3, <2>2
    <3>2. SessionLinked(s)
      BY <3>1 DEF Links
    <3>3. CASE sess[s].act = a
      BY <1>4, <1>5, <2>2, <3>1, <3>3 DEF SessionLinked
    <3>4. CASE sess[s].act # a
      <4>1. sess[s].act \in DOMAIN acts \ {a}
        BY <3>2, <3>4 DEF SessionLinked
      <4>2. acts'[sess[s].act] = acts[sess[s].act]
        BY <4>1, <1>4
      <4>3. sess'[s].suppress => sess[s].suppress
        BY <1>5, <3>1, <3>4
      <4> QED
        BY <1>4, <1>5, <3>1, <3>2, <4>1, <4>2, <4>3 DEF SessionLinked
    <3> QED
      BY <3>3, <3>4
  <2> QED
    BY <2>1, <2>2
<1>8. ActiveLinked'
  BY <1>3, <1>4 DEF ActiveLinked
<1>9. DOMAIN sess \subseteq DOMAIN sess'
  BY <1>2, <1>3
<1>10. /\ \A i \in DOMAIN main' : Linked(main[i])'
       /\ \A t \in Threads : dispatch'[t] # None => Linked(dispatch[t])'
  BY <1>9 DEF Links, Linked
<1> QED
  BY <1>3, <1>6, <1>7, <1>8, <1>10 DEF Links

\* One that is created, from the tasks it starts with.
LEMMA NewTyped ==
  ASSUME NEW p \in Peers, NEW a \in Nat, NEW tasks \in Seq(TaskSet)
  PROVE  /\ NewSession(p, a, tasks) \in SessionSet
         /\ NewSession(p, a, tasks).act = a
         /\ ~NewSession(p, a, tasks).suppress /\ ~NewSession(p, a, tasks).disposed
<1>1. <<>> \in Seq(Makings) /\ "none" \in Pcs
  BY DEF Pcs
<1> QED
  BY <1>1 DEF NewSession, SessionSet

LEMMA CalleeTyped ==
  ASSUME CInv, NEW p \in Peers, NEW a \in Nat
  PROVE  /\ CalleeSession(p, a) \in SessionSet
         /\ CalleeSession(p, a).act = a
         /\ ~CalleeSession(p, a).suppress /\ ~CalleeSession(p, a).disposed
<1> DEFINE kept == [i \in DOMAIN queue[p] |-> Task("remote", 0, p, queue[p][i])]
           first == <<Task("callee", 0, p, None)>>
<1>1. queue[p] \in Seq(Kinds)
  BY DEF CInv, Typed
<1>2. ASSUME NEW i \in DOMAIN queue[p]
      PROVE  Task("remote", 0, p, queue[p][i]) \in TaskSet
  <2>1. queue[p][i] \in Kinds /\ "remote" \in Doings
    BY <1>1 DEF Doings
  <2> QED
    BY <2>1, TaskTyped
<1>3. kept \in Seq(TaskSet)
  <2>1. Len(queue[p]) \in Nat /\ DOMAIN queue[p] = 1..Len(queue[p])
    BY <1>1
  <2>2. kept \in [1..Len(queue[p]) -> TaskSet]
    BY <1>2, <2>1
  <2> HIDE DEF kept
  <2> QED
    BY <2>1, <2>2, SeqDef
<1>4. first \in Seq(TaskSet)
  <2>1. Task("callee", 0, p, None) \in TaskSet
    BY TaskTyped DEF Doings
  <2> QED
    BY <2>1
<1>5. CalleeSession(p, a) = NewSession(p, a, first \o kept)
  BY DEF CalleeSession
<1> HIDE DEF first, kept
<1>6. first \o kept \in Seq(TaskSet)
  BY <1>3, <1>4, ConcatProperties
<1>7. PICK tasks \in Seq(TaskSet) : tasks = first \o kept
  BY <1>6
<1>8. CalleeSession(p, a) = NewSession(p, a, tasks)
  BY <1>5, <1>7
<1> QED
  BY <1>8, NewTyped

\* What is in main' was in main, or is about no session.
LEMMA StillAbout ==
  ASSUME CInv, main' = main \/ (main # <<>> /\ Done)
  PROVE  /\ main' \in Seq(TaskSet)
         /\ \A i \in DOMAIN main' : main'[i].do \in About => main'[i].s \in DOMAIN sess
<1>1. main \in Seq(TaskSet)
  BY DEF CInv, Typed
<1>2. CASE main' = main
  BY <1>1, <1>2 DEF CInv, Links, Linked
<1>3. CASE main # <<>> /\ Done
  <2>1. /\ main' \in Seq(TaskSet)
        /\ \A i \in DOMAIN main' : i + 1 \in DOMAIN main /\ main'[i] = main[i + 1]
    BY <1>1, <1>3, ListRest DEF Done
  <2> QED
    BY <2>1 DEF CInv, Links, Linked
<1> QED
  BY <1>2, <1>3

LEMMA AddStep ==
  ASSUME CInv, NEW a, NEW base, NEW new, SessionAdds(a, base, new),
         main' = main \/ (main # <<>> /\ Done),
         UNCHANGED dispatch, RestTyped'
  PROVE  CInv'
<1>1. Links' /\ sess' \in Seq(SessionSet)
  BY StillAbout, LinksAdd DEF CInv
<1>2. main' \in Seq(TaskSet) /\ acts' \in Seq(ActSet)
  BY StillAbout DEF SessionAdds
<1>3. Typed'
  BY <1>1, <1>2 DEF CInv, Typed, RestTyped
<1> QED
  BY <1>1, <1>3 DEF CInv

LEMMA OutgoingIntentStep ==
  ASSUME CInv, OutgoingIntent
  PROVE  CInv'
<1>1. PICK p : p = Head(main).peer
  OBVIOUS
<1>2. PICK n \in Nat, m \in Nat :
        n = Len(sess) + 1 /\ m = Len(acts) + 1 /\ n # 0
  <2>1. sess \in Seq(SessionSet) /\ acts \in Seq(ActSet)
    BY DEF CInv, Typed
  <2>2. Len(sess) + 1 \in Nat \ {0} /\ Len(acts) + 1 \in Nat
    BY <2>1
  <2> QED
    BY <2>2
<1>3. /\ main # <<>> /\ Head(main).do \in {"dial", "resume"} /\ Done
      /\ UNCHANGED <<queue, notified, dispatch, asking>>
  BY DEF OutgoingIntent, Does, Others
<1>4. p \in Peers
  BY <1>1, <1>3, HeadOfMain
<1>5. CASE Top = 0
  <2>1. PICK x \in ActSet : /\ x = NewActivity(p, n)
                           /\ x.session = n /\ x.state # "destroyed" /\ ~x.ring
    <3>1. NewActivity(p, n) \in ActSet
      BY <1>4 DEF NewActivity, ActSet
    <3> QED
      BY <1>2, <3>1 DEF NewActivity
  <2>2. PICK tasks \in Seq(TaskSet) : tasks = <<Task("caller", n, p, None)>>
    <3>1. PICK task \in TaskSet : task = Task("caller", n, p, None)
      BY <1>4, TaskTyped DEF Doings
    <3>2. <<task>> \in Seq(TaskSet)
      OBVIOUS
    <3> QED
      BY <3>1, <3>2
  <2>3. PICK new : new = NewSession(p, m, tasks)
    OBVIOUS
  <2>4. new \in SessionSet /\ new.act = m /\ ~new.suppress /\ ~new.disposed
    BY <1>4, <2>3, NewTyped
  <2>5. /\ acts' = Append(acts, x) /\ sess' = Append(sess, new)
        /\ phase' = "outgoing" /\ with' = p /\ active' = n /\ UNCHANGED ongoing
    BY <1>1, <1>2, <1>5, <2>1, <2>2, <2>3 DEF OutgoingIntent, StartsCall
  <2>6. /\ acts \in Seq(ActSet) /\ acts' \in Seq(ActSet) /\ DOMAIN acts' = 1..m
        /\ DOMAIN acts = 1..Len(acts) /\ Len(acts) \in Nat
        /\ \A i \in DOMAIN acts : acts'[i] = acts[i]
        /\ acts'[m] = x
    BY <1>2, <2>5, ListAdd DEF CInv, Typed
  <2>7. /\ m \in DOMAIN acts' /\ DOMAIN acts' = DOMAIN acts \cup {m}
        /\ \A b \in DOMAIN acts \ {m} : acts'[b] = acts[b]
    BY <1>2, <2>6
  <2>8. /\ sess \in Seq(SessionSet)
        /\ \A s \in DOMAIN sess : sess[s] \in SessionSet /\ sess[s].act # m
    BY <1>2, <2>6 DEF CInv, Typed, Links, SessionLinked
  <2>9. SessionAdds(m, sess, new)
    BY <1>2, <2>1, <2>4, <2>5, <2>6, <2>7, <2>8 DEF SessionAdds
  <2>10. RestTyped'
    BY <1>3, <1>4, <2>5, VoiceCallAssumption DEF CInv, Typed, RestTyped, Phases
  <2> QED
    BY <1>3, <2>9, <2>10, AddStep
<1>6. CASE Top # 0
  <2>1. UNCHANGED <<sess, phase, with, active>> /\ Head(main).do \notin {"ended", "refused"}
    BY <1>3, <1>6 DEF OutgoingIntent
  <2>2. CASE UNCHANGED <<acts, ongoing>>
    BY <1>3, <2>1, <2>2, RestSame, SessSame, ActsSame, LooperStep DEF CInv
  <2>3. CASE acts' = [acts EXCEPT ![Top].peer = p] /\ ongoing' = p
    <3>1. PICK a \in DOMAIN acts : a = Top
      BY <1>6, TopOf
    <3>2. acts[a] \in ActSet
      BY DEF CInv, Typed
    <3>3. PICK x : x = [acts[a] EXCEPT !.peer = p]
      OBVIOUS
    <3>4. /\ x \in ActSet /\ x.session = acts[a].session /\ x.state = acts[a].state
          /\ x.ring = acts[a].ring
      BY <1>4, <3>2, <3>3 DEF ActSet
    <3>5. acts' = [acts EXCEPT ![a] = x]
      BY <2>3, <3>1, <3>3
    <3>6. ActsStay
      BY <3>4, <3>5, ActPut DEF CInv
    <3>7. RestTyped'
      BY <1>3, <1>4, <2>1, <2>3 DEF CInv, Typed, RestTyped
    <3> QED
      BY <1>3, <2>1, <3>6, <3>7, SessSame, LooperStep DEF CInv
  <2> QED
    BY <1>1, <1>6, <2>2, <2>3 DEF OutgoingIntent
<1> QED
  BY <1>5, <1>6

LEMMA AnswerStep ==
  ASSUME CInv, Answer
  PROVE  CInv'
<1>1. PICK a : a = Top
  OBVIOUS
<1>2. /\ a \in DOMAIN acts /\ acts[a] \in ActSet /\ acts[a].state = "shown"
      /\ acts[a].peer \in Peers /\ acts[a].ring
  BY <1>1, TopOf DEF Answer
<1>3. PICK p \in Peers, n \in Nat : p = acts[a].peer /\ n = Len(sess) + 1
  BY <1>2 DEF CInv, Typed
<1>4. acts \in Seq(ActSet) /\ sess \in Seq(SessionSet) /\ a \in Nat
  BY <1>2 DEF CInv, Typed
<1>5. PICK new : new = CalleeSession(p, a)
  OBVIOUS
<1>6. new \in SessionSet /\ new.act = a /\ ~new.suppress /\ ~new.disposed
  BY <1>4, <1>5, CalleeTyped
<1>7. PICK x \in ActSet : /\ x = [acts[a] EXCEPT !.ring = FALSE, !.session = n]
                         /\ x.session = n /\ x.state = "shown" /\ ~x.ring
  <2>1. [acts[a] EXCEPT !.ring = FALSE, !.session = n] \in ActSet
    BY <1>2 DEF ActSet
  <2> QED
    BY <1>2, <2>1 DEF ActSet
<1>8. /\ acts' = [acts EXCEPT ![a] = x] /\ sess' = Append(sess, new)
      /\ phase' = "connected" /\ with' = p /\ active' = n
      /\ queue' = [queue EXCEPT ![p] = <<>>] /\ notified' = notified \ {p}
      /\ UNCHANGED <<main, ongoing, dispatch, asking>>
  BY <1>1, <1>3, <1>5, <1>7 DEF Answer, Others
<1>9. /\ acts' \in Seq(ActSet) /\ DOMAIN acts' = DOMAIN acts /\ acts'[a] = x
      /\ \A b \in DOMAIN acts \ {a} : acts'[b] = acts[b]
  BY <1>2, <1>4, <1>8, ListPut
<1>10. SessionAdds(a, sess, new)
  <2>1. a \in DOMAIN acts' /\ DOMAIN acts' = DOMAIN acts \cup {a}
    BY <1>2, <1>9
  <2>2. /\ acts'[a].session = Len(sess) + 1
        /\ acts'[a].state # "destroyed" /\ ~acts'[a].ring
    BY <1>3, <1>7, <1>9
  <2>3. ASSUME NEW s \in DOMAIN sess PROVE sess[s].act # a
    <3>1. acts[a].session = 0
      BY <1>2 DEF CInv, Links, ActLinked
    <3> QED
      BY <1>2, <3>1 DEF CInv, Links, SessionLinked
  <2> QED
    BY <1>3, <1>4, <1>6, <1>8, <1>9, <2>1, <2>2, <2>3 DEF SessionAdds
<1>11. RestTyped'
  <2>1. <<>> \in Seq(Kinds)
    OBVIOUS
  <2>2. queue' \in [Peers -> Seq(Kinds)]
    BY <1>8, <2>1 DEF CInv, Typed
  <2> QED
    BY <1>8, <2>2, VoiceCallAssumption DEF CInv, Typed, RestTyped, Phases
<1> QED
  BY <1>8, <1>10, <1>11, AddStep

LEMMA GlareStep ==
  ASSUME CInv, Glare
  PROVE  CInv'
<1>1. PICK d : d = Head(main)
  OBVIOUS
<1>2. /\ main # <<>> /\ d.do = "glare" /\ Done
      /\ UNCHANGED <<phase, with, notified, ongoing, dispatch, asking>>
  BY <1>1 DEF Glare, Does, Others
<1>3. d.s \in DOMAIN sess
  BY <1>1, <1>2, HeadOfMain DEF About
<1>4. PICK a \in DOMAIN acts : a = sess[d.s].act
  BY <1>3 DEF CInv, Links, SessionLinked
<1>5. acts[a] \in ActSet /\ acts \in Seq(ActSet) /\ sess \in Seq(SessionSet)
  BY DEF CInv, Typed
<1>6. CASE acts[a].state # "shown"
  <2>1. UNCHANGED <<active, queue, acts, sess>>
    BY <1>1, <1>4, <1>6 DEF Glare, MayReplace
  <2> QED
    BY <1>1, <1>2, <2>1, RestSame, SessSame, ActsSame, LooperStep DEF CInv
<1>7. CASE acts[a].state = "shown"
  <2>0. PICK old : old = acts[a].session
    OBVIOUS
  <2>1. PICK p \in Peers, n \in Nat :
          old = acts[a].session /\ p = acts[a].peer /\ n = Len(sess) + 1
    <3>1. acts[a].peer \in Peers
      BY <1>5 DEF ActSet
    <3>2. Len(sess) + 1 \in Nat
      BY <1>5
    <3> QED
      BY <2>0, <3>1, <3>2
  <2>2. old \in DOMAIN sess /\ sess[old].act = a /\ old # 0 /\ ~acts[a].ring
    <3>1. SessionLinked(d.s) /\ ActLinked(a)
      BY <1>3 DEF CInv, Links
    <3>2. old # 0
      BY <1>4, <1>7, <2>1, <3>1 DEF SessionLinked
    <3>3. old \in DOMAIN sess
      BY <1>5, <2>1, <3>1, <3>2 DEF ActLinked
    <3> QED
      BY <2>1, <3>1, <3>2, <3>3 DEF ActLinked
  <2>3. PICK g : g = Given(old, Do("dispose", old))
    OBVIOUS
  <2>4. Alike(g, old) /\ ToDispose(g)
    <3>1. Do("dispose", old) \in TaskSet /\ Do("dispose", old).do = "dispose"
      BY <2>2, DoTyped DEF CInv, Doings
    <3> QED
      BY <2>2, <2>3, <3>1, GivenAlike DEF CInv
  <2>5. PICK y \in SessionSet : y = Silenced(g) /\ y.act = a /\ ToDispose(y)
    <3>1. g \in SessionSet /\ g.act = a
      BY <2>2, <2>4 DEF Alike, Same
    <3>2. /\ Silenced(g) \in SessionSet /\ Silenced(g).act = g.act
          /\ Silenced(g).disposed = g.disposed /\ Silenced(g).tasks = g.tasks
      BY <3>1 DEF Silenced, SessionSet
    <3>3. ToDispose(Silenced(g))
      BY <2>4, <3>2 DEF ToDispose
    <3> QED
      BY <3>1, <3>2, <3>3
  <2>6. PICK base : base = [sess EXCEPT ![old] = y]
    OBVIOUS
  <2>7. /\ base \in Seq(SessionSet) /\ Len(base) = Len(sess) /\ DOMAIN base = DOMAIN sess
        /\ \A s \in DOMAIN sess : base[s] = IF s = old THEN y ELSE sess[s]
    BY <1>5, <2>6, ListPut
  <2>8. PICK new : new = CalleeSession(p, a)
    OBVIOUS
  <2>9. new \in SessionSet /\ new.act = a /\ ~new.suppress /\ ~new.disposed
    <3>1. a \in Nat
      BY <1>5
    <3> QED
      BY <2>8, <3>1, CalleeTyped
  <2>10. PICK x \in ActSet : /\ x = [acts[a] EXCEPT !.session = n]
                            /\ x.session = n /\ x.state = "shown" /\ ~x.ring
    <3>1. [acts[a] EXCEPT !.session = n] \in ActSet
      BY <1>5 DEF ActSet
    <3> QED
      BY <1>5, <1>7, <2>2, <3>1 DEF ActSet
  <2>11. /\ sess' = Append(base, new) /\ acts' = [acts EXCEPT ![a] = x] /\ active' = n
         /\ queue' = [queue EXCEPT ![p] = <<>>]
    BY <1>1, <1>4, <1>7, <2>1, <2>2, <2>3, <2>5, <2>6, <2>8, <2>10 DEF Glare, MayReplace
  <2>12. /\ acts' \in Seq(ActSet) /\ DOMAIN acts' = DOMAIN acts /\ acts'[a] = x
         /\ \A b \in DOMAIN acts \ {a} : acts'[b] = acts[b]
    BY <1>5, <2>11, ListPut
  <2>13. SessionAdds(a, base, new)
    <3>1. ASSUME NEW s \in DOMAIN sess
          PROVE  /\ base[s].act = sess[s].act
                 /\ base[s].suppress => sess[s].suppress \/ sess[s].act = a
                 /\ ToDispose(sess[s]) \/ sess[s].act = a => ToDispose(base[s])
      <4>1. CASE s = old
        BY <2>2, <2>5, <2>7, <4>1
      <4>2. CASE s # old
        <5>1. base[s] = sess[s]
          BY <2>7, <4>2
        <5>2. sess[s].act = a => ToDispose(sess[s])
          BY <2>1, <4>2 DEF CInv, Links, SessionLinked
        <5> QED
          BY <5>1, <5>2
      <4> QED
        BY <4>1, <4>2
    <3>2. /\ active' = Len(sess) + 1
          /\ acts'[a].session = Len(sess) + 1
          /\ acts'[a].state # "destroyed" /\ ~acts'[a].ring
      BY <2>1, <2>10, <2>11, <2>12
    <3>3. a \in DOMAIN acts' /\ DOMAIN acts' = DOMAIN acts \cup {a}
      BY <1>5, <2>12
    <3> QED
      BY <2>7, <2>9, <2>11, <2>12, <3>1, <3>2, <3>3 DEF SessionAdds
  <2>14. RestTyped'
    <3>1. <<>> \in Seq(Kinds)
      OBVIOUS
    <3>2. queue' \in [Peers -> Seq(Kinds)]
      BY <2>11, <3>1 DEF CInv, Typed
    <3> QED
      BY <1>2, <3>2 DEF CInv, Typed, RestTyped
  <2> QED
    BY <1>2, <2>13, <2>14, AddStep
<1> QED
  BY <1>6, <1>7

LEMMA DisposalAlike ==
  ASSUME CInv, NEW s \in DOMAIN sess
  PROVE  /\ Alike([Given(s, Do("dispose", s)) EXCEPT !.shut = TRUE], s)
         /\ [Given(s, Do("dispose", s)) EXCEPT !.shut = TRUE].disposed = sess[s].disposed
         /\ ToDispose([Given(s, Do("dispose", s)) EXCEPT !.shut = TRUE])
<1>1. PICK g : g = Given(s, Do("dispose", s))
  OBVIOUS
<1>2. Do("dispose", s) \in TaskSet /\ Do("dispose", s).do = "dispose"
  BY DoTyped DEF CInv, Doings
<1>3. Alike(g, s) /\ g.disposed = sess[s].disposed /\ ToDispose(g)
  BY <1>1, <1>2, GivenAlike DEF CInv
<1>4. PICK x : x = [g EXCEPT !.shut = TRUE]
  OBVIOUS
<1>5. Carried(x, g)
  BY <1>3, <1>4 DEF Carried, Alike, Same, SessionSet
<1>6. Alike(x, s) /\ x.disposed = sess[s].disposed /\ ToDispose(x)
  BY <1>3, <1>5, CarriedAlike DEF Carried, ToDispose
<1> QED
  BY <1>1, <1>4, <1>6

LEMMA DestroyStep ==
  ASSUME CInv, NEW a \in DOMAIN acts, Destroy(a)
  PROVE  CInv'
<1>1. PICK old : old = acts[a].session
  OBVIOUS
<1>2. PICK x : x = [acts[a] EXCEPT !.state = "destroyed", !.session = 0]
  OBVIOUS
<1>3. /\ acts' = [acts EXCEPT ![a] = x]
      /\ phase' = "idle" /\ with' = None /\ active' = 0
      /\ UNCHANGED <<queue, main, notified, ongoing, dispatch, asking>>
      /\ \/ old = 0 /\ UNCHANGED sess
         \/ Session(old, [Given(old, Do("dispose", old)) EXCEPT !.shut = TRUE])
  BY <1>1, <1>2 DEF Destroy, Others, Released
<1>4. acts[a] \in ActSet /\ acts \in Seq(ActSet) /\ sess \in Seq(SessionSet)
  BY DEF CInv, Typed
<1>5. x \in ActSet /\ x.state = "destroyed" /\ x.session = 0
  BY <1>2, <1>4 DEF ActSet
<1>6. /\ acts' \in Seq(ActSet) /\ DOMAIN acts' = DOMAIN acts /\ acts'[a] = x
      /\ \A b \in DOMAIN acts \ {a} : acts'[b] = acts[b]
  BY <1>3, <1>4, <1>5, ListPut
<1>7. SessionsStay
  <2>1. CASE UNCHANGED sess
    BY <2>1, SessSame DEF CInv
  <2>2. CASE Session(old, [Given(old, Do("dispose", old)) EXCEPT !.shut = TRUE])
    <3>1. ASSUME old \in DOMAIN sess
          PROVE  /\ Alike([Given(old, Do("dispose", old)) EXCEPT !.shut = TRUE], old)
                 /\ [Given(old, Do("dispose", old)) EXCEPT !.shut = TRUE].disposed
                       = sess[old].disposed
      BY <3>1, DisposalAlike
    <3> QED
      BY <2>2, <3>1, SessPut DEF CInv
  <2> QED
    BY <1>3, <2>1, <2>2
<1>8. /\ sess' \in Seq(SessionSet) /\ Len(sess') = Len(sess) /\ DOMAIN sess' = DOMAIN sess
      /\ DOMAIN sess = 1..Len(sess) /\ Len(sess) \in Nat
      /\ \A s \in DOMAIN sess : sess'[s].act = sess[s].act /\ sess'[s].suppress = sess[s].suppress
  BY <1>4, <1>7 DEF SessionsStay
<1>9. ASSUME NEW b \in DOMAIN acts' PROVE ActLinked(b)'
  <2>1. CASE b = a
    BY <1>5, <1>6, <1>8, <2>1 DEF ActLinked
  <2>2. CASE b # a
    <3>1. acts'[b] = acts[b] /\ ActLinked(b)
      BY <1>6, <2>2 DEF CInv, Links
    <3>2. acts[b].session # 0 => acts[b].session \in DOMAIN sess
      BY <1>8, <3>1 DEF ActLinked
    <3> QED
      BY <1>8, <3>1, <3>2 DEF ActLinked
  <2> QED
    BY <2>1, <2>2
<1>10. ASSUME NEW s \in DOMAIN sess PROVE SessionLinked(s)'
  <2>1. SessionLinked(s) /\ s # 0
    BY <1>8 DEF CInv, Links
  <2>4. ToDispose(sess[s]) => ToDispose(sess'[s])
    BY <1>7 DEF SessionsStay
  <2>2. CASE sess[s].act = a
    <3>1. ToDispose(sess'[s])
      <4>1. CASE s = old
        <5>1. sess' = [sess EXCEPT ![s] = [Given(s, Do("dispose", s)) EXCEPT !.shut = TRUE]]
          BY <1>3, <2>1, <4>1 DEF Session
        <5>2. sess'[s] = [Given(s, Do("dispose", s)) EXCEPT !.shut = TRUE]
          BY <5>1
        <5> QED
          BY <5>2, DisposalAlike
      <4>2. CASE s # old
        BY <1>1, <2>1, <2>2, <2>4, <4>2 DEF SessionLinked
      <4> QED
        BY <4>1, <4>2
    <3> QED
      BY <1>5, <1>6, <1>8, <2>1, <2>2, <3>1 DEF SessionLinked
  <2>3. CASE sess[s].act # a
    BY <1>6, <1>8, <2>1, <2>3, <2>4 DEF SessionLinked
  <2> QED
    BY <2>2, <2>3
<1>11. /\ \A i \in DOMAIN main' : Linked(main[i])'
       /\ \A t \in Threads : dispatch'[t] # None => Linked(dispatch[t])'
  BY <1>3, <1>8 DEF CInv, Links, Linked
<1>12. ActiveLinked'
  BY <1>3, <1>8 DEF ActiveLinked
<1>13. Links'
  BY <1>8, <1>9, <1>10, <1>11, <1>12 DEF Links
<1>14. Typed'
  BY <1>3, <1>6, <1>8 DEF CInv, Typed, Phases
<1> QED
  BY <1>13, <1>14 DEF CInv

\* The calls of the user add no session but by Answer.
LEMMA UserKeeps ==
  ASSUME CInv, UNCHANGED <<active, dispatch>>, SessionsStay, ActsStay, RestTyped',
         UNCHANGED main \/ \E task \in TaskSet : Linked(task) /\ Posts(task)
  PROVE  CInv'
<1>1. MainStays
  BY MainUnchanged, MainAdds DEF CInv
<1> QED
  BY <1>1, DispatchSame, Stays DEF CInv

\* A task that starts an activity, or calls one back.
LEMMA IntentTyped ==
  ASSUME NEW p \in Peers, NEW do \in {"intent", "dial", "resume"},
         NEW kind \in {"offer", None}
  PROVE  Task(do, 0, p, kind) \in TaskSet /\ Linked(Task(do, 0, p, kind))
<1>1. do \in Doings /\ do \notin About /\ kind \in Kinds \cup {None}
  BY DEF Doings, About, Kinds
<1>2. Task(do, 0, p, kind) \in TaskSet /\ Task(do, 0, p, kind).do = do
  BY <1>1, TaskTyped
<1> QED
  BY <1>1, <1>2 DEF Linked

LEMMA HangsUpStep ==
  ASSUME CInv, NEW s, HangsUp(s), UNCHANGED <<main, notified, dispatch, asking>>
  PROVE  CInv'
<1>1. /\ Session(s, Given(s, Do("hangup", s)))
      /\ UNCHANGED <<phase, with, active, queue, acts, ongoing>>
  BY DEF HangsUp, shared
<1>2. s \in DOMAIN sess => Do("hangup", s) \in TaskSet
  BY DoTyped DEF CInv, Doings
<1>3. SessionsStay
  BY <1>1, <1>2, GivenAlike, SessPut DEF CInv
<1> QED
  BY <1>1, <1>3, ActsSame, RestSame, UserKeeps DEF CInv

LEMMA RefOf == CInv /\ Ref # 0 => Ref \in DOMAIN acts
BY DEF Ref, CInv, Typed

LEMMA UserStep ==
  ASSUME CInv, User
  PROVE  CInv'
<1>0. /\ queue \in [Peers -> Seq(Kinds)] /\ <<>> \in Seq(Kinds)
      /\ phase \in Phases /\ with \in Peers \cup {None} /\ (phase = "idle" <=> with = None)
      /\ notified \subseteq Peers /\ ongoing \in Peers \cup {None}
      /\ asking \in Peers \cup {None}
  BY DEF CInv, Typed
<1>1. ASSUME NEW p \in Peers, AskToCall(p)
      PROVE  CInv'
  <2>1. /\ asking' = p
        /\ UNCHANGED <<phase, with, active, queue, dispatch, main, acts, notified, ongoing,
                      sess>>
    BY <1>1 DEF AskToCall, shared
  <2>2. RestTyped'
    BY <1>0, <2>1 DEF RestTyped
  <2> QED
    BY <2>1, <2>2, SessSame, ActsSame, UserKeeps DEF CInv
<1>2. ASSUME NEW p \in Peers, OpenNotification(p)
      PROVE  CInv'
  <2>1. /\ Posts(Task("intent", 0, p, "offer"))
        /\ UNCHANGED <<phase, with, active, queue, dispatch, acts, notified, ongoing, asking,
                      sess>>
    BY <1>2 DEF OpenNotification, Others, shared
  <2> QED
    BY <2>1, IntentTyped, RestSame, SessSame, ActsSame, UserKeeps DEF CInv
<1>3. CASE ConfirmCall
  <2>1. /\ Posts(Task("dial", 0, asking, None)) /\ asking' = None /\ asking \in Peers
        /\ UNCHANGED <<phase, with, active, queue, dispatch, acts, notified, ongoing, sess>>
    BY <1>0, <1>3 DEF ConfirmCall, shared
  <2>2. RestTyped'
    BY <1>0, <2>1 DEF RestTyped
  <2> QED
    BY <2>1, <2>2, IntentTyped, SessSame, ActsSame, UserKeeps DEF CInv
<1>4. CASE Reject
  <2>1. PICK a \in DOMAIN acts : a = Top
    BY <1>4, TopOf DEF Reject
  <2>2. /\ Finish(a) /\ queue' = [queue EXCEPT ![acts[a].peer] = <<>>]
        /\ notified' = notified \ {acts[a].peer}
        /\ UNCHANGED <<phase, with, active, main, sess, dispatch, asking>>
    BY <1>4, <2>1 DEF Reject, Others
  <2>3. ActsStay /\ ongoing' = None
    BY <2>2, ActFinishes DEF CInv
  <2>4. RestTyped'
    BY <1>0, <2>2, <2>3 DEF RestTyped
  <2> QED
    BY <2>2, <2>3, <2>4, SessSame, UserKeeps DEF CInv
<1>5. ASSUME NEW p \in Peers, Decline(p)
      PROVE  CInv'
  <2>1. /\ notified' = notified \ {p} /\ phase' = "idle" /\ with' = None
        /\ queue' = [queue EXCEPT ![p] = <<>>]
        /\ UNCHANGED <<active, main, sess, dispatch, asking>>
        /\ UNCHANGED <<acts, ongoing>> \/ (Ref # 0 /\ Finish(Ref))
    BY <1>5 DEF Decline, Others
  <2>2. ActsStay /\ ongoing' \in Peers \cup {None}
    BY <1>0, <2>1, RefOf, ActsSame, ActFinishes DEF CInv
  <2>3. RestTyped'
    BY <1>0, <2>1, <2>2 DEF RestTyped, Phases
  <2> QED
    BY <2>1, <2>2, <2>3, SessSame, UserKeeps DEF CInv
<1>6. ASSUME NEW p \in Peers, OpenOngoing(p)
      PROVE  CInv'
  <2>1. /\ Posts(Task("resume", 0, p, None)) /\ ongoing' = p
        /\ UNCHANGED <<phase, with, active, queue, dispatch, acts, notified, asking, sess>>
    BY <1>6 DEF OpenOngoing, Others, shared
  <2>2. RestTyped'
    BY <1>0, <2>1 DEF RestTyped
  <2> QED
    BY <2>1, <2>2, IntentTyped, SessSame, ActsSame, UserKeeps DEF CInv
<1>7. CASE HangUp
  BY <1>7, HangsUpStep DEF HangUp, Others
<1>8. CASE HangUpOngoing
  <2>1. UNCHANGED <<main, notified, dispatch, asking>>
    BY <1>8 DEF HangUpOngoing, Others
  <2>2. CASE \E s : HangsUp(s)
    BY <2>1, <2>2, HangsUpStep
  <2>3. CASE Ref # 0 /\ Finish(Ref) /\ UNCHANGED <<shared, sess>>
    <3>1. ActsStay /\ ongoing' = None
      BY <2>3, RefOf, ActFinishes DEF CInv
    <3>2. UNCHANGED <<phase, with, active, queue, sess>>
      BY <2>3 DEF shared
    <3>3. RestTyped'
      BY <1>0, <2>1, <3>1, <3>2 DEF RestTyped
    <3> QED
      BY <2>1, <3>1, <3>2, <3>3, SessSame, UserKeeps DEF CInv
  <2>4. CASE /\ phase' = "idle" /\ with' = None /\ ongoing' = None
             /\ UNCHANGED <<active, queue, acts, sess>>
    <3>1. RestTyped'
      BY <1>0, <2>1, <2>4 DEF RestTyped, Phases
    <3> QED
      BY <2>1, <2>4, <3>1, SessSame, ActsSame, UserKeeps DEF CInv
  <2> QED
    BY <1>8, <2>2, <2>3, <2>4 DEF HangUpOngoing
<1> QED
  BY <1>1, <1>2, <1>3, <1>4, <1>5, <1>6, <1>7, <1>8, AnswerStep DEF User

LEMMA CallsInit == Init => CInv
<1> SUFFICES ASSUME Init PROVE CInv
  OBVIOUS
<1>1. /\ main = <<>> /\ acts = <<>> /\ sess = <<>> /\ active = 0
      /\ \A t \in Threads : dispatch[t] = None
  BY DEF Init
<1>2. /\ main \in Seq(TaskSet) /\ acts \in Seq(ActSet) /\ sess \in Seq(SessionSet)
      /\ DOMAIN main = {} /\ DOMAIN acts = {} /\ DOMAIN sess = {} /\ Len(sess) = 0
  BY <1>1
<1>3. queue \in [Peers -> Seq(Kinds)]
  <2>1. <<>> \in Seq(Kinds)
    OBVIOUS
  <2> QED
    BY <2>1 DEF Init
<1>4. Typed
  BY <1>2, <1>3 DEF Init, Typed, Phases
<1>5. Links
  BY <1>1, <1>2 DEF Links, ActiveLinked
<1> QED
  BY <1>4, <1>5 DEF CInv

LEMMA CallsStep == CInv /\ [Next]_vars => CInv'
<1> SUFFICES ASSUME CInv, [Next]_vars PROVE CInv'
  OBVIOUS
<1>1. CASE UNCHANGED vars
  <2>1. UNCHANGED <<phase, with, active, queue, dispatch, main, acts, notified, ongoing,
                    asking, sess>>
    BY <1>1 DEF vars, shared, ui
  <2> QED
    BY <2>1, RestSame, SessSame, ActsSame, UserKeeps DEF CInv
<1>2. ASSUME MainLooper PROVE CInv'
  BY <1>2, RemotePostedStep, ShowIncomingStep, IncomingIntentStep, OutgoingIntentStep,
     NoticeStep, GlareStep, ConnectedStep DEF MainLooper
<1> QED
  BY <1>1, <1>2, ArriveStep, DispatchSignalingStep, UserStep, ExecutorStep, DestroyStep DEF Next

-----------------------------------------------------------------------------
(* The theorems.                                                           *)

\* What holds together of the calls of a phone: its records have their types,
\* activities and sessions point at each other, a session no activity has any
\* more has been told to dispose of itself, and the session signals are given
\* to is current.
THEOREM CallsInductive == Spec => []CInv
<1>1. Init => CInv
  BY CallsInit
<1>2. CInv /\ [Next]_vars => CInv'
  BY CallsStep
<1> QED
  BY <1>1, <1>2, PTL DEF Spec

LEMMA CallsFormed == CInv => WellFormed
<1> SUFFICES ASSUME CInv PROVE WellFormed
  OBVIOUS
<1>1. \A p \in Peers : \A i \in DOMAIN queue[p] : queue[p][i] \in Kinds
  <2>1. ASSUME NEW p \in Peers, NEW i \in DOMAIN queue[p] PROVE queue[p][i] \in Kinds
    <3>1. queue[p] \in Seq(Kinds)
      BY DEF CInv, Typed
    <3> QED
      BY <3>1
  <2> QED
    BY <2>1
<1>2. \A a \in DOMAIN acts : acts[a].session \in 0..Len(sess)
  BY DEF CInv, Links, ActLinked
<1>3. \A s \in DOMAIN sess : sess[s].act \in DOMAIN acts
  BY DEF CInv, Links, SessionLinked
<1>4. ActiveIsCurrent /\ active \in 0..Len(sess)
  BY DEF CInv, Links, ActiveLinked, ActiveIsCurrent, Noticed
<1>5. /\ phase \in Phases /\ with \in Peers \cup {None} /\ notified \subseteq Peers
      /\ ongoing \in Peers \cup {None}
      /\ phase = "idle" <=> with = None
  BY DEF CInv, Typed
<1> QED
  BY <1>1, <1>2, <1>3, <1>4, <1>5 DEF WellFormed

\* The session a phone gives its signals to is the one its activity has now,
\* never one that gave way on glare or whose activity is gone, and once it has
\* ended the activity closes or its notice is on the way; the coordinator names
\* a peer exactly while it is not idle (WellFormed).
THEOREM WellFormedHolds == Spec => []WellFormed
BY CallsInductive, CallsFormed, PTL

LEMMA CallsReleased == CInv => MediaReleased
<1> SUFFICES ASSUME CInv, NEW s \in DOMAIN sess
             PROVE  \/ sess[s].disposed
                    \/ LET a == sess[s].act
                       IN acts[a].session = s /\ acts[a].state # "destroyed"
                    \/ \E i \in DOMAIN sess[s].tasks : sess[s].tasks[i].do = "dispose"
  BY DEF MediaReleased
<1>1. s # 0
  BY DEF CInv, Typed
<1>2. SessionLinked(s)
  BY DEF CInv, Links
<1>3. PICK a \in DOMAIN acts : a = sess[s].act
  BY <1>2 DEF SessionLinked
<1>4. acts[a].session = s \/ ToDispose(sess[s])
  BY <1>2, <1>3 DEF SessionLinked
<1>5. acts[a].session = s => acts[a].state # "destroyed"
  BY <1>1 DEF CInv, Links, ActLinked
<1> QED
  BY <1>3, <1>4, <1>5 DEF ToDispose

\* The microphone does not stay on behind a call: every session has released its
\* media, is the current one of an activity that will see onDestroy, or has its
\* disposal before it (MediaReleased).
THEOREM MediaReleasedHolds == Spec => []MediaReleased
BY CallsInductive, CallsReleased, PTL
=============================================================================

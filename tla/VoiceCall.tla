------------------------------ MODULE VoiceCall ------------------------------
(***************************************************************************)
(* Voice calls of one phone.  Offers, answers and the ends of calls are    *)
(* texts of the chat with a prefix.  They arrive as pushes, and every SYNC *)
(* of the chat hands over the old ones once more, the phone's own          *)
(* included, so a signal of any kind may come at any time.                 *)
(*                                                                         *)
(* Five threads work on a call: the two that dispatch signals, the main    *)
(* looper, the executor of each session, and the one WebRTC calls back on. *)
(* The system delivers intents and destroys finished activities when it    *)
(* likes.                                                                  *)
(*                                                                         *)
(* VoiceCallCoordinator (phase, with), VoiceCallEngine (active, dispatch), *)
(* VoiceCallSignalingQueue (queue), VoiceCallActivity (acts),              *)
(* WebRtcAudioCallSession (sess) and the notifications (notified,          *)
(* ongoing).  Left out: ICE candidates, the content of an offer, what the  *)
(* phone sends, the records of calls, the microphone's permission, sound.  *)
(***************************************************************************)
EXTENDS Integers, Sequences, FiniteSets

CONSTANTS
  Peers,
  Yields,      \* peers with the greater user id: on glare the phone answers
  MaxWork,     \* bound of the model: signals that arrive and intents of an activity
  None

ASSUME VoiceCallAssumption ==
  /\ Yields \subseteq Peers /\ None \notin Peers
  /\ MaxWork \in Nat

VARIABLES
  phase, with,  \* the coordinator
  active,       \* the active session, 0 for none
  queue,        \* kinds of the signals kept for the next session of a peer
  dispatch,     \* what each thread does next with its signal
  main,         \* tasks of the main looper
  acts,         \* activities in the order of their creation
  sess,         \* sessions in the order of their creation
  notified,     \* peers with a notification of an incoming call
  ongoing,      \* the peer of VoiceCallForegroundService's notification
  asking,       \* the peer the dialog of ChatActivity asks about
  work          \* number of signals and intents so far

shared == <<phase, with, active, queue>>
ui == <<acts, notified, ongoing, asking>>
vars == <<shared, dispatch, main, ui, sess, work>>

Phases == {"idle", "outgoing", "ringing", "connected"}
Kinds == {"offer", "answer", "bye", "refusal"}  \* refusal: busy and reject
Threads == {"push", "sync"}

Init ==
  /\ phase = "idle" /\ with = None /\ active = 0
  /\ queue = [p \in Peers |-> <<>>]
  /\ dispatch = [t \in Threads |-> None]
  /\ main = <<>> /\ acts = <<>> /\ sess = <<>>
  /\ notified = {} /\ ongoing = None /\ asking = None /\ work = 0

Task(do, s, p, kind) == [do |-> do, s |-> s, peer |-> p, kind |-> kind]
Do(do, s) == Task(do, s, sess[s].peer, None)
Posts(task) == main' = Append(main, task)

Works == work < MaxWork /\ work' = work + 1

-----------------------------------------------------------------------------
(* VoiceCallEngine.dispatchSignaling: each look at the session and at the  *)
(* phase has a lock of its own, and what was seen may be old when the      *)
(* thread acts on it.                                                      *)

\* canAcceptIncomingOffer
CanAccept == phase = "idle"

\* ChatSync drops an offer of the past while the phone is idle.
Arrive(t, p, kind) ==
  /\ dispatch[t] = None /\ Works
  /\ t = "sync" => ~(kind = "offer" /\ CanAccept)
  /\ dispatch' = [dispatch EXCEPT ![t] = Task("session", 0, p, kind)]
  /\ UNCHANGED <<shared, main, ui, sess>>

At(t, do) == dispatch[t] # None /\ dispatch[t].do = do
GoesOn(t, do, s) == dispatch' = [dispatch EXCEPT ![t].do = do, ![t].s = s]
Dispatched(t) == dispatch' = [dispatch EXCEPT ![t] = None]

WithActive(p) == active # 0 /\ sess[active].peer = p

\* The active session is looked at first, and for an offer once more at last,
\* then whoever it is with.
LooksAtSession(t) ==
  \/ /\ At(t, "session") /\ WithActive(dispatch[t].peer)
     /\ GoesOn(t, "remote", active)
  \/ /\ At(t, "session") /\ ~WithActive(dispatch[t].peer)
     /\ GoesOn(t, IF dispatch[t].kind = "offer" THEN "accept" ELSE "queue", 0)
  \/ At(t, "again") /\ active # 0 /\ GoesOn(t, "remote", active)
  \/ At(t, "again") /\ active = 0 /\ GoesOn(t, "update", 0)

\* canAcceptIncomingOffer, isSameActivePeer, isRingingIncomingFrom.  A busy
\* phone answers, an update replaces the offer of the ringing activity.
LooksAtPhase(t) ==
  LET ringing == phase = "ringing" /\ with = dispatch[t].peer
  IN \/ At(t, "accept") /\ GoesOn(t, IF CanAccept THEN "ring" ELSE "same", 0)
     \/ At(t, "same") /\ with = dispatch[t].peer /\ GoesOn(t, "again", 0)
     \/ At(t, "same") /\ with # dispatch[t].peer /\ Dispatched(t)
     \/ (At(t, "update") \/ At(t, "ring")) /\ ringing /\ Dispatched(t)
     \/ At(t, "update") /\ ~ringing /\ GoesOn(t, "queue", 0)
     \/ At(t, "ring") /\ ~ringing /\ GoesOn(t, "mark", 0)

MarkIncomingRinging(t) ==
  /\ At(t, "mark")
  /\ phase' = "ringing" /\ with' = dispatch[t].peer
  /\ GoesOn(t, "show", 0)
  /\ UNCHANGED <<active, queue, main>>

Enqueue(t) ==
  /\ At(t, "queue")
  /\ queue' = [queue EXCEPT ![dispatch[t].peer] = Append(@, dispatch[t].kind)]
  /\ Dispatched(t)
  /\ UNCHANGED <<phase, with, active, main>>

\* Given to the session that was active, or to a new activity
PostSignal(t) ==
  /\ At(t, "remote") \/ At(t, "show")
  /\ Posts(dispatch[t])
  /\ Dispatched(t)
  /\ UNCHANGED shared

DispatchSignaling(t) ==
  /\ \/ (LooksAtSession(t) \/ LooksAtPhase(t)) /\ UNCHANGED <<shared, main>>
     \/ MarkIncomingRinging(t) \/ Enqueue(t) \/ PostSignal(t)
  /\ UNCHANGED <<ui, sess, work>>

-----------------------------------------------------------------------------
(* WebRtcAudioCallSession: the executor of a session and its connection.   *)

\* pc: none, stable, local (an offer is out), remote (one came in).  A
\* description is set in the task that sets it; creating: those WebRTC makes,
\* in order, by the task that is then to set them.
NewSession(p, a, tasks) ==
  [peer |-> p, act |-> a, tasks |-> tasks, pc |-> "none", creating |-> <<>>,
   remoteSet |-> FALSE, disposed |-> FALSE, shut |-> FALSE, suppress |-> FALSE]

\* releaseMedia: nothing of the session has an effect any more.
Ended(x) ==
  [x EXCEPT !.disposed = TRUE, !.tasks = <<>>, !.pc = "none", !.creating = <<>>,
            !.remoteSet = FALSE]

\* A task given to an executor that has been shut down is an exception nobody
\* catches: the process dies.  The notifications of incoming calls stay.
Crash ==
  /\ phase' = "idle" /\ with' = None /\ active' = 0
  /\ queue' = [p \in Peers |-> <<>>]
  /\ dispatch' = [t \in Threads |-> None]
  /\ main' = <<>> /\ acts' = <<>> /\ sess' = <<>>
  /\ ongoing' = None /\ asking' = None
  /\ UNCHANGED <<notified, work>>

\* What is given to a session that has been disposed has no effect.
Given(s, task) ==
  [sess[s] EXCEPT !.tasks = IF sess[s].disposed THEN @ ELSE Append(@, task)]
Rest(s) == [sess[s] EXCEPT !.tasks = Tail(@)]
Session(s, x) == sess' = [sess EXCEPT ![s] = x]

Runs(s, do) == sess[s].tasks # <<>> /\ Head(sess[s].tasks).do = do
Remote(s, kinds) == Runs(s, "remote") /\ Head(sess[s].tasks).kind \in kinds

OnlySession == UNCHANGED <<shared, dispatch, ui, work>>

\* A task of its own, which a shut executor refuses
Resubmit(s, do) ==
  IF sess[s].shut THEN Crash
  ELSE /\ Session(s, [Rest(s) EXCEPT !.tasks = Append(@, Do(do, s))])
       /\ OnlySession /\ UNCHANGED main

\* fail: the activity closes, the session goes on until that.
Fails(s, x) == Session(s, x) /\ Posts(Do("failed", s)) /\ OnlySession

StartCaller(s) ==
  /\ Runs(s, "caller")
  /\ \/ /\ Session(s, [Rest(s) EXCEPT !.pc = "stable", !.creating = Append(@, "local")])
        /\ OnlySession /\ UNCHANGED main
     \/ Fails(s, Rest(s))

\* onCreateSuccess of an offer or an answer, and onCreateFailure
Created(s) ==
  /\ sess[s].creating # <<>>
  /\ LET rest(x) == [x EXCEPT !.creating = Tail(@)]
     IN \/ /\ sess[s].shut
           /\ Crash
        \/ /\ ~sess[s].shut
           /\ Session(s, rest(Given(s, Do(Head(sess[s].creating), s))))
           /\ OnlySession /\ UNCHANGED main
        \/ Fails(s, rest(sess[s]))

\* setLocalDescription and what follows: the offer is sent.
SetLocal(s) ==
  /\ Runs(s, "local")
  /\ \/ /\ sess[s].pc # "remote"
        /\ \/ /\ Session(s, [Rest(s) EXCEPT !.pc = "local"])
              /\ OnlySession /\ UNCHANGED main
           \/ Fails(s, [Rest(s) EXCEPT !.pc = "local"])
     \/ Fails(s, Rest(s))

\* startCalleeWithOffer: not while an offer of ours is out.
StartCallee(s) ==
  /\ Runs(s, "callee")
  /\ \/ /\ sess[s].pc # "local"
        /\ Session(s, [Rest(s) EXCEPT !.pc = "remote", !.remoteSet = TRUE,
                                      !.creating = Append(@, "answer")])
        /\ OnlySession /\ UNCHANGED main
     \/ Fails(s, [Rest(s) EXCEPT !.pc = IF @ = "none" THEN "stable" ELSE @])

\* createAnswerAfterRemoteOffer: the answer is set and sent.
SetAnswer(s) ==
  /\ Runs(s, "answer")
  /\ \/ /\ sess[s].pc = "remote"
        /\ \/ /\ Session(s, [Rest(s) EXCEPT !.pc = "stable"])
              /\ OnlySession /\ UNCHANGED main
           \/ Fails(s, [Rest(s) EXCEPT !.pc = "stable"])
     \/ Fails(s, Rest(s))

RemoteOffer(s) ==
  /\ Remote(s, {"offer"})
  /\ \/ /\ \/ sess[s].remoteSet \/ sess[s].pc = "remote"
           \/ sess[s].pc = "local" /\ sess[s].peer \notin Yields
        /\ Session(s, Rest(s))
        /\ OnlySession /\ UNCHANGED main
     \/ /\ ~sess[s].remoteSet /\ sess[s].pc = "local" /\ sess[s].peer \in Yields
        /\ Session(s, Rest(s)) /\ Posts(Do("glare", s))
        /\ OnlySession
     \/ /\ ~sess[s].remoteSet /\ sess[s].pc \in {"none", "stable"}
        /\ Resubmit(s, "callee")

\* An answer that no offer of ours waits for is an error.
RemoteAnswer(s) ==
  /\ Remote(s, {"answer"})
  /\ \/ /\ sess[s].pc = "none"
        /\ Session(s, Rest(s))
        /\ OnlySession /\ UNCHANGED main
     \/ /\ sess[s].pc = "local"
        /\ Session(s, [Rest(s) EXCEPT !.pc = "stable", !.remoteSet = TRUE])
        /\ OnlySession /\ UNCHANGED main
     \/ /\ sess[s].pc \in {"stable", "remote"}
        /\ Fails(s, Rest(s))

RemoteRefusal(s) == Remote(s, {"refusal"}) /\ Resubmit(s, "refused")

Refused(s) ==
  /\ Runs(s, "refused")
  /\ Session(s, Ended(Rest(s)))
  /\ Posts(Do("refused", s))
  /\ OnlySession

\* endLocal for a bye, hangup and dispose
EndLocal(s) ==
  /\ Remote(s, {"bye"}) \/ Runs(s, "hangup") \/ Runs(s, "dispose")
  /\ Session(s, Ended(Rest(s)))
  /\ IF sess[s].suppress THEN UNCHANGED main ELSE Posts(Do("ended", s))
  /\ OnlySession

\* onIceConnectionChange: both descriptions have been set.
Connecting(s) == sess[s].remoteSet /\ sess[s].pc # "remote" /\ ~sess[s].disposed
Expected(do) == \E i \in DOMAIN main : main[i].do = do

Connects(s) ==
  /\ Connecting(s) /\ ~acts[sess[s].act].connected /\ ~Expected("connected")
  /\ Posts(Do("connected", s))
  /\ OnlySession /\ UNCHANGED sess

\* The connection fails or is lost; the session goes on until onDestroy.
Disconnects(s) ==
  /\ Connecting(s) /\ ~Expected("failed")
  /\ Fails(s, sess[s])

Executor(s) ==
  \/ StartCaller(s) \/ SetLocal(s) \/ StartCallee(s) \/ SetAnswer(s) \/ RemoteOffer(s)
  \/ RemoteAnswer(s) \/ RemoteRefusal(s) \/ Refused(s) \/ EndLocal(s)

-----------------------------------------------------------------------------
(* The main looper: VoiceCallActivity.                                     *)

Does(do) == main # <<>> /\ Head(main).do = do
Done == main' = Tail(main)
Others == UNCHANGED <<dispatch, asking>>

\* finishWithCleanup: the service stops, onDestroy comes in the system's own time.
Finish(a) ==
  /\ acts' = [acts EXCEPT ![a].state = IF @ = "shown" THEN "finishing" ELSE @]
  /\ ongoing' = None

\* activeRef
Ref == IF acts # <<>> /\ acts[Len(acts)].state # "destroyed" THEN Len(acts) ELSE 0
\* The activity an intent finds: it is launched singleTop.
Top == IF Ref # 0 /\ acts[Ref].state = "shown" THEN Ref ELSE 0

NewActivity(p, s) ==
  [peer |-> p, ring |-> s = 0, session |-> s, state |-> "shown", connected |-> FALSE]

\* The session was read when the signal was dispatched.
RemotePosted ==
  /\ Does("remote")
  /\ IF sess[Head(main).s].shut THEN Crash
     ELSE /\ Session(Head(main).s, Given(Head(main).s, Head(main)))
          /\ Done
          /\ UNCHANGED <<shared, acts, notified, ongoing, work>> /\ Others

\* showIncomingUi: the system may refuse to start an activity.  A notification
\* that is forbidden or dismissed is one the user makes no use of.
ShowIncoming ==
  /\ Does("show")
  /\ notified' = notified \cup {Head(main).peer}
  /\ \/ /\ Works
        /\ main' = Append(Tail(main), Task("intent", 0, Head(main).peer, "offer"))
     \/ Done /\ UNCHANGED work
  /\ UNCHANGED <<shared, acts, ongoing, sess>> /\ Others

\* onCreate of an incoming call; onNewIntent gives the offer to the session
\* that is there, whoever it is from.
IncomingIntent ==
  /\ Does("intent")
  /\ LET p == Head(main).peer
     IN \/ /\ Top = 0
           /\ acts' = Append(acts, NewActivity(p, 0))
           /\ notified' = notified \ {p}
           /\ UNCHANGED sess
        \/ /\ Top # 0 /\ acts[Top].session # 0
           /\ Session(acts[Top].session,
                      Given(acts[Top].session, Task("remote", 0, p, "offer")))
           /\ UNCHANGED <<acts, notified>>
        \/ /\ Top # 0 /\ acts[Top].session = 0
           /\ UNCHANGED <<acts, notified, sess>>
  /\ Done
  /\ UNCHANGED <<shared, ongoing, work>> /\ Others

\* onCreate without an offer starts a call.
StartsCall(p) ==
  LET s == Len(sess) + 1
  IN /\ acts' = Append(acts, NewActivity(p, s))
     /\ sess' = Append(sess, NewSession(p, Len(acts) + 1, <<Task("caller", s, p, None)>>))
     /\ phase' = "outgoing" /\ with' = p /\ active' = s

\* Also when the call is gone whose notification was opened.  onNewIntent does
\* nothing with a dialled peer, and takes over the peer of the notification.
OutgoingIntent ==
  /\ \/ /\ Does("dial") \/ Does("resume")
        /\ Top = 0
        /\ StartsCall(Head(main).peer)
        /\ UNCHANGED ongoing
     \/ /\ Does("dial") /\ Top # 0
        /\ UNCHANGED <<acts, ongoing, sess, phase, with, active>>
     \/ /\ Does("resume") /\ Top # 0
        /\ acts' = [acts EXCEPT ![Top].peer = Head(main).peer]
        /\ ongoing' = Head(main).peer
        /\ UNCHANGED <<sess, phase, with, active>>
  /\ Done
  /\ UNCHANGED <<queue, notified, work>> /\ Others

\* onEnded and onError
Notice ==
  /\ Does("ended") \/ Does("refused") \/ Does("failed")
  /\ Finish(sess[Head(main).s].act)
  /\ Done
  /\ UNCHANGED <<shared, notified, sess, work>> /\ Others

\* disposeSilently
Silenced(x) == [x EXCEPT !.suppress = TRUE, !.shut = TRUE]

\* The session an activity starts as the callee, with what was kept for it
CalleeSession(p, a) ==
  NewSession(p, a, <<Task("callee", 0, p, None)>>
                     \o [i \in DOMAIN queue[p] |-> Task("remote", 0, p, queue[p][i])])

\* Mutant: an activity that is gone gets a session too.
ReplacesAnyway(a) == TRUE

\* isFinishing
MayReplace(a) == acts[a].state = "shown"

\* replaceSessionAsCalleeAfterGlare
Glare ==
  /\ Does("glare")
  /\ LET a == sess[Head(main).s].act
         p == acts[a].peer
         old == acts[a].session
     IN \/ /\ ~MayReplace(a)
           /\ UNCHANGED <<active, queue, acts, sess>>
        \/ /\ MayReplace(a)
           /\ sess' = Append(IF old = 0 THEN sess
                             ELSE [sess EXCEPT ![old] = Silenced(Given(old, Do("dispose", old)))],
                             CalleeSession(p, a))
           /\ acts' = [acts EXCEPT ![a].session = Len(sess) + 1]
           /\ active' = Len(sess) + 1
           /\ queue' = [queue EXCEPT ![p] = <<>>]
  /\ Done
  /\ UNCHANGED <<phase, with, notified, ongoing, work>> /\ Others

\* onStatus "in call", even if the activity has gone meanwhile
Connected ==
  /\ Does("connected")
  /\ LET a == sess[Head(main).s].act
     IN /\ phase' = "connected" /\ with' = acts[a].peer /\ ongoing' = acts[a].peer
        /\ acts' = [acts EXCEPT ![a].connected = TRUE]
  /\ Done
  /\ UNCHANGED <<active, queue, notified, sess, work>> /\ Others

MainLooper ==
  \/ RemotePosted \/ ShowIncoming \/ IncomingIntent \/ OutgoingIntent
  \/ Notice \/ Glare \/ Connected

\* Mutant: the session stays the active one.
NotReleased == active

\* setActiveSession(null)
Released == 0

\* onDestroy, whatever the coordinator and the engine are at by now
Destroy(a) ==
  /\ acts[a].state = "finishing"
  /\ acts' = [acts EXCEPT ![a].state = "destroyed", ![a].session = 0]
  /\ phase' = "idle" /\ with' = None /\ active' = Released
  /\ LET s == acts[a].session
     IN IF s = 0 THEN UNCHANGED sess
        ELSE Session(s, [Given(s, Do("dispose", s)) EXCEPT !.shut = TRUE])
  /\ UNCHANGED <<queue, main, notified, ongoing, work>> /\ Others

-----------------------------------------------------------------------------
(* The user.                                                               *)

\* showVoiceCallConfirmDialog looks at the phase, its button does not.
AskToCall(p) ==
  /\ CanAccept /\ asking = None /\ Top = 0 /\ Works
  /\ asking' = p
  /\ UNCHANGED <<shared, dispatch, main, acts, notified, ongoing, sess>>

ConfirmCall ==
  /\ asking # None /\ Top = 0
  /\ Posts(Task("dial", 0, asking, None))
  /\ asking' = None
  /\ UNCHANGED <<shared, dispatch, acts, notified, ongoing, sess, work>>

\* By its button Answer the notification stays.
OpenNotification(p) ==
  /\ p \in notified /\ Works
  /\ Posts(Task("intent", 0, p, "offer"))
  /\ UNCHANGED <<shared, sess, acts, notified, ongoing>> /\ Others

Answer ==
  /\ Top # 0 /\ acts[Top].ring
  /\ LET p == acts[Top].peer
         s == Len(sess) + 1
     IN /\ acts' = [acts EXCEPT ![Top].ring = FALSE, ![Top].session = s]
        /\ sess' = Append(sess, CalleeSession(p, Top))
        /\ phase' = "connected" /\ with' = p /\ active' = s
        /\ queue' = [queue EXCEPT ![p] = <<>>]
        /\ notified' = notified \ {p}
  /\ UNCHANGED <<main, ongoing, work>> /\ Others

\* onRejectClicked: the coordinator is left to onDestroy.
Reject ==
  /\ Top # 0 /\ acts[Top].ring
  /\ Finish(Top)
  /\ queue' = [queue EXCEPT ![acts[Top].peer] = <<>>]
  /\ notified' = notified \ {acts[Top].peer}
  /\ UNCHANGED <<phase, with, active, main, sess, work>> /\ Others

\* VoiceCallActionReceiver clears the coordinator, whoever it is at.
Decline(p) ==
  /\ p \in notified
  /\ notified' = notified \ {p}
  /\ phase' = "idle" /\ with' = None
  /\ queue' = [queue EXCEPT ![p] = <<>>]
  /\ IF Ref # 0 /\ acts[Ref].peer = p /\ acts[Ref].ring THEN Finish(Ref)
     ELSE UNCHANGED <<acts, ongoing>>
  /\ UNCHANGED <<active, main, sess, work>> /\ Others

\* minimizeToBubble and back: an activity in the back is found by intents all
\* the same, so that nothing comes between but what closes the bubble again.
Minimized(p) == Top # 0 /\ ~acts[Top].ring /\ acts[Top].peer = p

\* The notification of the call, or its bubble
OpenOngoing(p) ==
  /\ ongoing = p \/ Minimized(p)
  /\ Works
  /\ Posts(Task("resume", 0, p, None))
  /\ ongoing' = p
  /\ UNCHANGED <<shared, acts, notified, sess>> /\ Others

HangsUp(s) ==
  /\ \A i \in DOMAIN sess[s].tasks : sess[s].tasks[i].do # "hangup"
  /\ Session(s, Given(s, Do("hangup", s)))
  /\ UNCHANGED <<shared, acts, ongoing>>

\* hangupAndFinish
HangUp ==
  /\ Top # 0 /\ ~acts[Top].ring
  /\ HangsUp(acts[Top].session)
  /\ UNCHANGED <<main, notified, work>> /\ Others

\* tryHangupFromNotification: without an activity the coordinator is cleared.
HangUpOngoing ==
  /\ ongoing # None
  /\ \/ /\ Ref # 0 /\ acts[Ref].session # 0
        /\ HangsUp(acts[Ref].session)
     \/ /\ Ref # 0 /\ acts[Ref].session = 0
        /\ Finish(Ref)
        /\ UNCHANGED <<shared, sess>>
     \/ /\ Ref = 0
        /\ phase' = "idle" /\ with' = None /\ ongoing' = None
        /\ UNCHANGED <<active, queue, acts, sess>>
  /\ UNCHANGED <<main, notified, work>> /\ Others

User ==
  \/ \E p \in Peers : AskToCall(p) \/ OpenNotification(p) \/ Decline(p) \/ OpenOngoing(p)
  \/ ConfirmCall \/ Answer \/ Reject \/ HangUp \/ HangUpOngoing

Next ==
  \/ \E t \in Threads, p \in Peers, kind \in Kinds : Arrive(t, p, kind)
  \/ \E t \in Threads : DispatchSignaling(t)
  \/ User \/ MainLooper
  \/ \E s \in DOMAIN sess : Executor(s) \/ Created(s) \/ Connects(s) \/ Disconnects(s)
  \/ \E a \in DOMAIN acts : Destroy(a)

Spec == Init /\ [][Next]_vars

-----------------------------------------------------------------------------
(* Properties.                                                             *)

ActiveIsCurrent ==
  active # 0 =>
    LET a == sess[active].act
    IN /\ acts[a].session = active
       /\ sess[active].disposed =>
            \/ acts[a].state = "finishing"
            \/ \E i \in DOMAIN main :
                 main[i].do \in {"ended", "refused"} /\ main[i].s = active

\* Types and bounds; the coordinator names a peer exactly while it is not idle.
\* The session signals are given to is the one its activity has now, never one
\* that gave way on glare or whose activity is gone.  Once it has ended it does
\* not stay, or it would swallow the next offers of its peer: its activity
\* closes, or the notice that closes it is on its way.
WellFormed ==
  /\ phase \in Phases /\ with \in Peers \cup {None} /\ active \in 0..Len(sess)
  /\ phase = "idle" <=> with = None
  /\ \A p \in Peers : \A i \in DOMAIN queue[p] : queue[p][i] \in Kinds
  /\ \A a \in DOMAIN acts : acts[a].session \in 0..Len(sess)
  /\ \A s \in DOMAIN sess : sess[s].act \in DOMAIN acts
  /\ notified \subseteq Peers /\ ongoing \in Peers \cup {None}
  /\ ActiveIsCurrent

\* The microphone does not stay on behind a call: a session that has not
\* released its media is the current one of an activity that will see onDestroy,
\* or its executor is still to dispose of it, whatever order glare, a second
\* call, hanging up, failures and onDestroy come in.
MediaReleased ==
  \A s \in DOMAIN sess :
    \/ sess[s].disposed
    \/ LET a == sess[s].act IN acts[a].session = s /\ acts[a].state # "destroyed"
    \/ \E i \in DOMAIN sess[s].tasks : sess[s].tasks[i].do = "dispose"
=============================================================================

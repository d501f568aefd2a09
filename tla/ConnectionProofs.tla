-------------------------- MODULE ConnectionProofs --------------------------
(***************************************************************************)
(* Proofs about Connection, for any connections, requests, pushes, loops   *)
(* and window.  Two parts of the invariant carry the properties: Numbered, *)
(* that the client's numbering is in step with the gateway's window, and   *)
(* OneAnswer, that a connection in use owes the client at most the reply   *)
(* to the call that is in progress.                                        *)
(***************************************************************************)
EXTENDS Connection, TLAPS

\* A connection nobody has used.
Fresh ==
  \A k \in Conns : chan[k] = "new" =>
    /\ sock # k /\ up[k] = <<>> /\ down[k] = <<>>
    /\ lastSeq[k] = -1 /\ reply[k] = None

\* The last number the gateway has processed; the client starts with 1.
Base(k) == IF lastSeq[k] < 0 THEN 0 ELSE lastSeq[k]

Alive(k) == chan[k] \in {"open", "closing"}

\* What is on its way up continues the numbers that have been processed.
Numbered ==
  \A k \in Conns : Alive(k) =>
    /\ \A i \in DOMAIN up[k] : up[k][i].seq = Base(k) + i
    /\ sock = k => nextSeq = Base(k) + Len(up[k]) + 1

\* Frames for other loops' pushes; a handler answers requests only.
PushMail ==
  /\ \A f \in Loops : fwd[f] # None => fwd[f].frame.of \in pushed
  /\ \A k \in Conns : \A i \in DOMAIN tasks[k] : tasks[k][i].of \in pushed
  /\ \A k \in Conns : \A i \in DOMAIN down[k] :
       down[k][i].of \in Pushes => down[k][i].of \in pushed
  /\ \A k \in Conns : reply[k] # None => reply[k].of \notin Pushes

(***************************************************************************)
(* Requests other than TEXT, and the replies to them.  (A TEXT may return  *)
(* a push and leave its reply unread.)                                     *)
(***************************************************************************)
Single == Others \cup {Auth}
Asked(k) == {i \in DOMAIN up[k] : up[k][i].of \in Single}
Answering(k) == reply[k] # None /\ reply[k].of \in Single
Answers(k) == {i \in DOMAIN down[k] : down[k][i].of \in Single}

\* Request and reply are in one place, and they are the call in progress.
OneAnswer ==
  \A k \in Conns : sock = k =>
    /\ \A i \in Asked(k) : up[k][i].of = call
    /\ Answering(k) => reply[k].of = call /\ Asked(k) = {}
    /\ \A i \in Answers(k) :
         down[k][i].of = call /\ Asked(k) = {} /\ ~Answering(k)
    /\ \A i, j \in Asked(k) : i = j
    /\ \A i, j \in Answers(k) : i = j

IInv ==
  /\ TypeOK
  /\ sock = None => call = None /\ nextSeq = 1
  /\ Fresh
  /\ Numbered
  /\ PushMail
  /\ OneAnswer
  /\ ReplyIsMine
-----------------------------------------------------------------------------
(* Sequences and kinds of frames.                                          *)

LEMMA Appended ==
  ASSUME NEW S, NEW s \in Seq(S), NEW e \in S
  PROVE  /\ Append(s, e) \in Seq(S)
         /\ Len(Append(s, e)) = Len(s) + 1
         /\ DOMAIN Append(s, e) = 1..(Len(s) + 1)
         /\ DOMAIN s = 1..Len(s) /\ Len(s) \in Nat
         /\ \A i \in DOMAIN s : Append(s, e)[i] = s[i]
         /\ Append(s, e)[Len(s) + 1] = e
OBVIOUS

LEMMA Dropped ==
  ASSUME NEW S, NEW s \in Seq(S), s # <<>>
  PROVE  /\ Head(s) \in S /\ 1 \in DOMAIN s /\ Head(s) = s[1]
         /\ Tail(s) \in Seq(S)
         /\ Len(Tail(s)) = Len(s) - 1 /\ Len(s) \in Nat
         /\ DOMAIN s \subseteq Nat
         /\ \A i \in DOMAIN Tail(s) :
              i + 1 \in DOMAIN s /\ i + 1 # 1 /\ Tail(s)[i] = s[i + 1]
OBVIOUS

\* A type of its own for each kind of frame.
LEMMA Kinds ==
  /\ \A r \in Others : Kind(r) = "OTHER"
  /\ \A r \in Texts \cup Pushes : Kind(r) = "TEXT"
  /\ Kind(Auth) = "AUTH"
  /\ Single \cap (Texts \cup Pushes \cup {None}) = {}
BY FramesDistinct DEF Kind, Single

LEMMA InitInv == Init => IInv
<1> SUFFICES ASSUME Init PROVE IInv
  OBVIOUS
<1>1. TypeOK
  BY DEF Init, TypeOK, Results
<1>2. Fresh /\ Numbered
  BY FramesDistinct DEF Init, Fresh, Numbered, Alive
<1>3. PushMail /\ ReplyIsMine
  BY DEF Init, PushMail, ReplyIsMine, Reqs
<1>4. OneAnswer
  BY DEF Init, OneAnswer, Asked, Answering, Answers
<1> QED
  BY <1>1, <1>2, <1>3, <1>4 DEF IInv, Init

-----------------------------------------------------------------------------
(* The client.                                                             *)

LEMMA EstablishInv ==
  ASSUME IInv, NEW k \in Conns, Establish(k)
  PROVE  IInv'
<1> DEFINE hello == [seq |-> 1, of |-> Auth]
<1>1. /\ chan[k] = "new" /\ down[k] = <<>> /\ lastSeq[k] = -1 /\ reply[k] = None
      /\ chan' = [chan EXCEPT ![k] = "open"] /\ sock' = k /\ sock' # None
      /\ up' = [up EXCEPT ![k] = <<hello>>]
      /\ nextSeq' = 2 /\ call' = Auth
      /\ UNCHANGED <<result, heard, down, user, lastSeq, outSeq, reply, fwd,
                     tasks, pushed, quiet>>
  BY FramesDistinct DEF Establish, Bump, IInv, Fresh
<1>2. /\ hello \in UpFrames /\ <<hello>> \in Seq(UpFrames)
      /\ DOMAIN <<hello>> = {1} /\ <<hello>>[1] = hello /\ Len(<<hello>>) = 1
      /\ hello.seq = 1 /\ hello.of = Auth
  BY DEF UpFrames
<1> HIDE DEF hello
<1>3. TypeOK'
  BY <1>1, <1>2 DEF IInv, TypeOK
<1>4. /\ up'[k] = <<hello>> /\ chan'[k] = "open"
      /\ \A c \in Conns : c # k => up'[c] = up[c] /\ chan'[c] = chan[c]
  BY <1>1 DEF IInv, TypeOK
<1>5. Fresh'
  BY <1>1, <1>4 DEF IInv, Fresh
<1>6. Numbered'
  <2> SUFFICES ASSUME NEW c \in Conns, Alive(c)'
               PROVE  /\ \A i \in DOMAIN up'[c] : up'[c][i].seq = Base(c) + i
                      /\ k = c => 2 = Base(c) + Len(up'[c]) + 1
    BY <1>1 DEF Numbered, Base
  <2>1. CASE c # k
    BY <1>1, <1>4, <2>1 DEF IInv, Numbered, Alive
  <2>2. CASE c = k
    <3>1. Base(c) = 0
      BY <1>1, <2>2 DEF Base
    <3>2. up'[c] = <<hello>>
      BY <1>4, <2>2
    <3>3. ASSUME NEW i \in DOMAIN up'[c]
          PROVE  up'[c][i].seq = Base(c) + i
      <4>1. i = 1
        BY <1>2, <3>2
      <4> QED
        BY <1>2, <3>1, <3>2, <4>1
    <3>4. Len(up'[c]) = 1
      BY <1>2, <3>2
    <3> QED
      BY <3>1, <3>3, <3>4
  <2> QED
    BY <2>1, <2>2
<1>7. PushMail' /\ ReplyIsMine'
  BY <1>1 DEF IInv, PushMail, ReplyIsMine
<1>8. OneAnswer'
  BY <1>1, <1>2, <1>4 DEF OneAnswer, Asked, Answering, Answers
<1> QED
  BY <1>1, <1>3, <1>5, <1>6, <1>7, <1>8 DEF IInv

LEMMA RequestInv ==
  ASSUME IInv, NEW r \in Reqs, Request(r)
  PROVE  IInv'
<1> DEFINE e == [seq |-> nextSeq, of |-> r]
           k == sock
<1>1. /\ call = None /\ k \in Conns /\ sock' = sock /\ sock # None
      /\ up' = [up EXCEPT ![k] = Append(up[k], e)]
      /\ nextSeq' = nextSeq + 1 /\ call' = r
      /\ result' = [result EXCEPT ![r] = "pending"]
      /\ UNCHANGED <<heard, down, chan, user, lastSeq, outSeq, reply, fwd, tasks,
                     pushed, quiet>>
  BY DEF Request, Bump, gatewayVars, IInv, TypeOK
<1>2. e \in UpFrames /\ e.seq = nextSeq /\ e.of = r /\ up[k] \in Seq(UpFrames)
  BY <1>1 DEF UpFrames, IInv, TypeOK
<1> HIDE DEF e, k
<1>3. /\ up'[k] = Append(up[k], e)
      /\ \A c \in Conns : c # k => up'[c] = up[c]
  BY <1>1 DEF IInv, TypeOK
<1>4. TypeOK'
  <2>1. Append(up[k], e) \in Seq(UpFrames)
    BY <1>2, Appended
  <2>2. up' \in [Conns -> Seq(UpFrames)] /\ nextSeq' \in Nat
    BY <1>1, <2>1 DEF IInv, TypeOK
  <2>3. result' \in [Reqs -> Results]
    BY <1>1 DEF IInv, TypeOK, Results
  <2> QED
    BY <1>1, <2>2, <2>3 DEF IInv, TypeOK
<1>5. Fresh'
  BY <1>1, <1>3 DEF IInv, Fresh, k
<1>6. Numbered'
  <2> SUFFICES ASSUME NEW c \in Conns, Alive(c)
               PROVE  /\ \A i \in DOMAIN up'[c] : up'[c][i].seq = Base(c) + i
                      /\ sock = c => nextSeq' = Base(c) + Len(up'[c]) + 1
    BY <1>1 DEF Numbered, Alive, Base
  <2>1. CASE c # k
    BY <1>1, <1>3, <2>1 DEF IInv, Numbered, k
  <2>2. CASE c = k
    <3>1. /\ \A i \in DOMAIN up[k] : up[k][i].seq = Base(k) + i
          /\ nextSeq = Base(k) + Len(up[k]) + 1
      BY <2>2 DEF IInv, Numbered, k
    <3>2. Base(k) \in Nat
      BY <1>1 DEF IInv, TypeOK, Base
    <3> QED
      BY <1>1, <1>2, <1>3, <2>2, <3>1, <3>2, Appended
  <2> QED
    BY <2>1, <2>2
<1>7. PushMail'
  BY <1>1 DEF IInv, PushMail
<1>8. ReplyIsMine'
  BY <1>1 DEF IInv, TypeOK, ReplyIsMine
<1>9. OneAnswer'
  <2>1. Asked(k) = {} /\ ~Answering(k) /\ Answers(k) = {}
    BY <1>1, Kinds DEF IInv, OneAnswer, Asked, Answering, Answers, k
  <2>2. Asked(k)' \subseteq {Len(up[k]) + 1} /\ up'[k][Len(up[k]) + 1].of = r
    BY <1>1, <1>2, <1>3, <2>1, Appended DEF Asked, k
  <2>3. ~Answering(k)' /\ Answers(k)' = {}
    BY <1>1, <2>1 DEF Answering, Answers, k
  <2> QED
    BY <1>1, <2>2, <2>3 DEF OneAnswer, k
<1> QED
  BY <1>1, <1>4, <1>5, <1>6, <1>7, <1>8, <1>9 DEF IInv

\* Whenever the client closes, with or without a call in progress.
LEMMA CloseInv ==
  ASSUME IInv, sock # None, CloseLocked, call' = None,
         \/ UNCHANGED result
         \/ call \in Reqs /\ result' = [result EXCEPT ![call] = "failed"],
         UNCHANGED <<heard, up, gatewayVars>>
  PROVE  IInv'
<1>1. /\ sock \in Conns /\ sock' = None /\ nextSeq' = 1
      /\ down' = [down EXCEPT ![sock] = <<>>]
      /\ UNCHANGED <<heard, up, chan, user, lastSeq, outSeq, reply, fwd, tasks,
                     pushed, quiet>>
  BY DEF CloseLocked, gatewayVars, IInv, TypeOK
<1>2. /\ down'[sock] = <<>>
      /\ \A c \in Conns : c # sock => down'[c] = down[c]
  BY <1>1 DEF IInv, TypeOK
<1>3. TypeOK'
  <2>1. result' \in [Reqs -> Results]
    BY DEF IInv, TypeOK, Results
  <2>2. down' \in [Conns -> Seq(DownFrames)]
    BY <1>1 DEF IInv, TypeOK
  <2> QED
    BY <1>1, <2>1, <2>2 DEF IInv, TypeOK
<1>4. Fresh' /\ Numbered'
  BY <1>1, <1>2, FramesDistinct DEF IInv, Fresh, Numbered, Alive, Base
<1>5. PushMail'
  BY <1>1, <1>2 DEF IInv, PushMail
<1>6. ReplyIsMine'
  <2>1. result \in [Reqs -> Results] /\ Others \subseteq Reqs
    BY DEF IInv, TypeOK, Reqs
  <2>2. \A r \in Others : result'[r] \in {result[r], "failed"}
    BY <2>1
  <2> QED
    BY <1>1, <2>2 DEF IInv, ReplyIsMine
<1>7. OneAnswer'
  BY <1>1, FramesDistinct DEF OneAnswer
<1> QED
  BY <1>1, <1>3, <1>4, <1>5, <1>6, <1>7 DEF IInv

LEMMA CloseSessionInv ==
  ASSUME IInv, CloseSession
  PROVE  IInv'
BY CloseInv DEF CloseSession

LEMMA CallFailsInv ==
  ASSUME IInv, call # None, CallFails
  PROVE  IInv'
BY CloseInv DEF IInv, CallFails, Return

\* Taking a frame off the stream disturbs only what the stream owes.
LEMMA Consumed ==
  ASSUME IInv, call # None, down[sock] # <<>>, Consume,
         UNCHANGED <<up, gatewayVars>>
  PROVE  /\ sock \in Conns /\ sock' = sock /\ UNCHANGED nextSeq
         /\ down' \in [Conns -> Seq(DownFrames)]
         /\ Head(down[sock]) \in DownFrames
         /\ Head(down[sock]).of \in Pushes => Head(down[sock]).of \in pushed
         /\ Fresh' /\ Numbered' /\ PushMail'
         /\ Head(down[sock]).of \in Single =>
              /\ Head(down[sock]).of = call
              /\ Asked(sock)' = {} /\ ~Answering(sock)' /\ Answers(sock)' = {}
         /\ call \notin Single =>
              Asked(sock)' = {} /\ ~Answering(sock)' /\ Answers(sock)' = {}
         /\ call' = call => OneAnswer'
<1> DEFINE k == sock
           f == Head(down[k])
<1>1. /\ k \in Conns /\ sock' = sock /\ down' = [down EXCEPT ![k] = Tail(down[k])]
      /\ UNCHANGED <<nextSeq, up, chan, user, lastSeq, outSeq, reply, fwd, tasks,
                     pushed, quiet>>
  BY DEF Consume, gatewayVars, IInv, TypeOK
<1>2. down[k] \in Seq(DownFrames) /\ down[k] # <<>>
  BY <1>1 DEF IInv, TypeOK
<1>3. /\ f \in DownFrames /\ 1 \in DOMAIN down[k] /\ f = down[k][1]
      /\ Tail(down[k]) \in Seq(DownFrames)
      /\ DOMAIN down[k] \subseteq Nat
      /\ \A i \in DOMAIN Tail(down[k]) :
           i + 1 \in DOMAIN down[k] /\ i + 1 # 1 /\ Tail(down[k])[i] = down[k][i + 1]
      /\ DOMAIN Tail(down[k]) \subseteq Nat
  BY <1>2, Dropped
<1>4. /\ down'[k] = Tail(down[k])
      /\ \A c \in Conns : c # k => down'[c] = down[c]
  BY <1>1 DEF IInv, TypeOK
<1>5. down' \in [Conns -> Seq(DownFrames)]
  BY <1>1, <1>3 DEF IInv, TypeOK
<1>6. f.of \in Pushes => f.of \in pushed
  BY <1>1, <1>3 DEF IInv, PushMail
<1>7. Fresh'
  BY <1>1, <1>4 DEF IInv, Fresh
<1>8. Numbered'
  BY <1>1 DEF IInv, Numbered, Alive, Base
<1>9. PushMail'
  <2>1. ASSUME NEW c \in Conns, NEW i \in DOMAIN down'[c], down'[c][i].of \in Pushes
        PROVE  down'[c][i].of \in pushed
    BY <1>1, <1>3, <1>4, <2>1 DEF IInv, PushMail
  <2> QED
    BY <1>1, <2>1 DEF IInv, PushMail
<1>10. /\ \A i \in Asked(k) : up[k][i].of = call
       /\ Answering(k) => reply[k].of = call /\ Asked(k) = {}
       /\ \A i \in Answers(k) :
            down[k][i].of = call /\ Asked(k) = {} /\ ~Answering(k)
       /\ \A i, j \in Asked(k) : i = j
       /\ \A i, j \in Answers(k) : i = j
  BY <1>1 DEF IInv, OneAnswer
<1>11. Asked(k)' = Asked(k) /\ Answering(k)' = Answering(k)
  BY <1>1 DEF Asked, Answering
<1>12. \A i \in Answers(k)' :
         i \in Nat /\ i + 1 \in Answers(k) /\ i + 1 # 1 /\ down'[k][i] = down[k][i + 1]
  BY <1>1, <1>3, <1>4 DEF Answers
<1>13. f.of \in Single =>
         /\ f.of = call
         /\ Asked(k)' = {} /\ ~Answering(k)' /\ Answers(k)' = {}
  <2> SUFFICES ASSUME f.of \in Single
               PROVE  f.of = call /\ Asked(k) = {} /\ ~Answering(k) /\ Answers(k)' = {}
    BY <1>11
  <2>1. 1 \in Answers(k)
    BY <1>3 DEF Answers
  <2>2. f.of = call /\ Asked(k) = {} /\ ~Answering(k)
    BY <1>3, <1>10, <2>1
  <2>3. Answers(k)' = {}
    BY <1>10, <1>12, <2>1
  <2> QED
    BY <2>2, <2>3
<1>14. call \notin Single =>
         Asked(k)' = {} /\ ~Answering(k)' /\ Answers(k)' = {}
  <2> SUFFICES ASSUME call \notin Single
               PROVE  Asked(k) = {} /\ ~Answering(k) /\ Answers(k)' = {}
    BY <1>11
  <2>1. Asked(k) = {} /\ ~Answering(k) /\ Answers(k) = {}
    BY <1>10 DEF Asked, Answering, Answers
  <2> QED
    BY <1>12, <2>1
<1>15. ASSUME call' = call PROVE OneAnswer'
  <2>1. /\ \A i \in Asked(k)' : up'[k][i].of = call'
        /\ Answering(k)' => reply'[k].of = call' /\ Asked(k)' = {}
    BY <1>1, <1>10, <1>11, <1>15
  <2>2. \A i \in Answers(k)' :
          down'[k][i].of = call' /\ Asked(k)' = {} /\ ~Answering(k)'
    BY <1>10, <1>11, <1>12, <1>15
  <2>3. \A i, j \in Answers(k)' : i = j
    <3> TAKE i, j \in Answers(k)'
    <3>1. i + 1 = j + 1 /\ i \in Nat /\ j \in Nat
      BY <1>10, <1>12
    <3> QED
      BY <3>1
  <2>4. \A i, j \in Asked(k)' : i = j
    BY <1>10, <1>11
  <2> QED
    BY <1>1, <2>1, <2>2, <2>3, <2>4 DEF OneAnswer
<1> QED
  BY <1>1, <1>3, <1>5, <1>6, <1>7, <1>8, <1>9, <1>13, <1>14, <1>15

\* A call that reads returns its own reply, or goes on, or closes.
LEMMA ReadInv ==
  ASSUME IInv, Read
  PROVE  IInv'
<1> DEFINE f == Head(down[sock])
<1>1. call # None /\ down[sock] # <<>> /\ UNCHANGED <<up, gatewayVars>>
  BY DEF Read
<1>2. UNCHANGED <<up, chan, user, lastSeq, outSeq, reply, fwd, tasks, pushed, quiet>>
  BY <1>1 DEF gatewayVars
<1>3. call \in Reqs \cup {Auth}
  BY <1>1 DEF IInv, TypeOK
<1>4. CASE /\ Kind(f.of) = Kind(call) /\ call # Auth
           /\ Return(f.of) /\ Consume /\ UNCHANGED heard
  <2>1. f.of \in Reqs \cup {Auth} \cup Pushes
    BY <1>1, <1>4, Consumed DEF DownFrames
  <2>2. call \in Reqs /\ result' = [result EXCEPT ![call] = f.of] /\ call' = None
    BY <1>3, <1>4 DEF Return
  <2>3. f.of \in Reqs \cup Pushes
    BY <1>4, <2>1, <2>2, Kinds DEF Reqs
  <2>4. call \in Others => f.of = call
    BY <1>1, <1>4, <2>3, Kinds, Consumed DEF Reqs, Single
  <2>5. Asked(sock)' = {} /\ ~Answering(sock)' /\ Answers(sock)' = {}
    <3>1. CASE call \in Others
      BY <1>1, <1>4, <2>4, <3>1, Consumed DEF Single
    <3>2. CASE call \in Texts
      BY <1>1, <1>4, <3>2, Kinds, Consumed
    <3> QED
      BY <2>2, <3>1, <3>2 DEF Reqs
  <2>6. OneAnswer'
    BY <1>1, <1>4, <2>5, Consumed DEF OneAnswer
  <2>7. TypeOK'
    <3>1. result' \in [Reqs -> Results]
      BY <2>2, <2>3 DEF IInv, TypeOK, Results
    <3> QED
      BY <1>1, <1>2, <1>4, <2>2, <3>1, Consumed DEF IInv, TypeOK
  <2>8. ReplyIsMine'
    <3>1. result \in [Reqs -> Results] /\ Others \subseteq Reqs
      BY DEF IInv, TypeOK, Reqs
    <3>2. \A r \in Others : result'[r] \in {result[r], r}
      BY <2>2, <2>4, <3>1
    <3> QED
      BY <1>2, <1>4, <3>2 DEF IInv, ReplyIsMine
  <2> QED
    BY <1>1, <1>4, <2>6, <2>7, <2>8, Consumed DEF IInv
<1>5. CASE /\ call = Auth /\ f.of = Auth
           /\ Return(None) /\ Consume /\ UNCHANGED heard
  <2>1. call' = None /\ UNCHANGED result
    BY <1>5, FramesDistinct DEF Return, Reqs
  <2>2. Asked(sock)' = {} /\ ~Answering(sock)' /\ Answers(sock)' = {}
    BY <1>1, <1>5, Consumed DEF Single
  <2>3. OneAnswer'
    BY <1>1, <1>5, <2>2, Consumed DEF OneAnswer
  <2>4. TypeOK' /\ ReplyIsMine'
    BY <1>1, <1>2, <1>5, <2>1, Consumed DEF IInv, TypeOK, ReplyIsMine
  <2> QED
    BY <1>1, <1>5, <2>3, <2>4, Consumed DEF IInv
<1>6. CASE /\ f.of \in Pushes /\ heard' = heard \cup {f.of}
           /\ Consume /\ UNCHANGED <<call, result>>
  <2>1. f.of \in pushed
    BY <1>1, <1>6, Consumed
  <2>2. TypeOK' /\ ReplyIsMine'
    BY <1>1, <1>2, <1>6, <2>1, Consumed DEF IInv, TypeOK, ReplyIsMine
  <2> QED
    BY <1>1, <1>6, <2>2, Consumed DEF IInv
<1>7. CASE CloseLocked /\ Return("failed") /\ UNCHANGED heard
  BY <1>1, <1>7, CloseInv DEF IInv, Return
<1> QED
  BY <1>4, <1>5, <1>6, <1>7 DEF Read, PushLike

-----------------------------------------------------------------------------
(* The gateway.                                                            *)

\* The next frame carries the next number, which the window admits.
LEMMA NextAccepted ==
  ASSUME IInv, NEW k \in Conns, Dispatching(k), up[k] # <<>>
  PROVE  Head(up[k]).seq = Base(k) + 1 /\ Accepts(k, Head(up[k]).seq)
<1>1. up[k] \in Seq(UpFrames) /\ lastSeq[k] \in Nat \cup {-1}
  BY DEF IInv, TypeOK
<1>2. 1 \in DOMAIN up[k] /\ Head(up[k]) = up[k][1]
  BY <1>1, Dropped
<1>3. Head(up[k]).seq = Base(k) + 1
  BY <1>2 DEF IInv, Numbered, Alive, Dispatching
<1> QED
  BY <1>1, <1>3, WindowAssumption DEF Base, Accepts

\* The handler reads the frame and, if it answers, picks up its number.
LEMMA DispatchInv ==
  ASSUME IInv, NEW k \in Conns, Dispatch(k)
  PROVE  IInv'
<1> DEFINE f == Head(up[k])
<1>1. /\ chan[k] \in {"open", "closing"} /\ reply[k] = None
      /\ up[k] \in Seq(UpFrames) /\ up[k] # <<>>
      /\ up' = [up EXCEPT ![k] = Tail(up[k])]
      /\ UNCHANGED <<sock, call, nextSeq, result, heard, down, outSeq, fwd, tasks,
                     pushed>>
      /\ quiet' = [quiet EXCEPT ![k] = FALSE]
  BY DEF Dispatch, Dispatching, clientVars, IInv, TypeOK
<1>2. /\ f \in UpFrames /\ 1 \in DOMAIN up[k] /\ f = up[k][1]
      /\ Tail(up[k]) \in Seq(UpFrames)
      /\ Len(Tail(up[k])) = Len(up[k]) - 1 /\ Len(up[k]) \in Nat
      /\ DOMAIN up[k] \subseteq Nat /\ DOMAIN Tail(up[k]) \subseteq Nat
      /\ \A i \in DOMAIN Tail(up[k]) :
           i + 1 \in DOMAIN up[k] /\ i + 1 # 1 /\ Tail(up[k])[i] = up[k][i + 1]
  BY <1>1, Dropped
<1>3. f.seq \in Nat /\ f.of \in Reqs \cup {Auth}
  BY <1>2 DEF UpFrames
<1>4. f.seq = Base(k) + 1 /\ Accepts(k, f.seq)
  BY <1>1, NextAccepted DEF Dispatching
<1>5. /\ lastSeq' = [lastSeq EXCEPT ![k] = f.seq]
      /\ chan' = chan \/ chan' = [chan EXCEPT ![k] = "closing"]
      /\ \/ UNCHANGED reply
         \/ \E ok \in BOOLEAN :
              reply' = [reply EXCEPT ![k] = Frame(outSeq[k], f.of, ok)]
      /\ user' \in [Conns -> BOOLEAN]
  BY <1>4 DEF Dispatch, Answer, Refuse, IInv, TypeOK
<1> HIDE DEF f
<1>6. /\ up'[k] = Tail(up[k]) /\ lastSeq'[k] = f.seq
      /\ chan'[k] \in {"open", "closing"}
      /\ reply'[k] # None => reply'[k].of = f.of
      /\ \A c \in Conns : c # k =>
           /\ up'[c] = up[c] /\ lastSeq'[c] = lastSeq[c]
           /\ chan'[c] = chan[c] /\ reply'[c] = reply[c]
  BY <1>1, <1>5 DEF IInv, TypeOK, Frame
<1>7. TypeOK'
  <2>1. up' \in [Conns -> Seq(UpFrames)]
    BY <1>1, <1>2 DEF IInv, TypeOK
  <2>2. lastSeq' \in [Conns -> Nat \cup {-1}]
    BY <1>3, <1>5 DEF IInv, TypeOK
  <2>3. chan' \in [Conns -> {"new", "open", "closing", "closed"}]
    BY <1>5 DEF IInv, TypeOK
  <2>4. reply' \in [Conns -> DownFrames \cup {None}]
    <3>1. \A ok \in BOOLEAN : Frame(outSeq[k], f.of, ok) \in DownFrames
      BY <1>3 DEF IInv, TypeOK, Frame, DownFrames
    <3>2. reply \in [Conns -> DownFrames \cup {None}]
      BY DEF IInv, TypeOK
    <3>3. ASSUME NEW r \in DownFrames, reply' = [reply EXCEPT ![k] = r]
          PROVE  reply' \in [Conns -> DownFrames \cup {None}]
      BY <3>2, <3>3
    <3> QED
      BY <1>5, <3>1, <3>2, <3>3
  <2>5. quiet' \in [Conns -> BOOLEAN]
    BY <1>1 DEF IInv, TypeOK
  <2> QED
    BY <1>1, <1>5, <2>1, <2>2, <2>3, <2>4, <2>5 DEF IInv, TypeOK
<1>8. Fresh'
  BY <1>1, <1>6 DEF IInv, Fresh
<1>9. Numbered'
  <2> SUFFICES ASSUME NEW c \in Conns, Alive(c)'
               PROVE  /\ \A i \in DOMAIN up'[c] : up'[c][i].seq = Base(c)' + i
                      /\ sock = c => nextSeq = Base(c)' + Len(up'[c]) + 1
    BY <1>1 DEF Numbered
  <2>1. CASE c # k
    BY <1>6, <2>1 DEF IInv, Numbered, Alive, Base
  <2>2. CASE c = k
    <3>1. /\ \A i \in DOMAIN up[k] : up[k][i].seq = Base(k) + i
          /\ sock = k => nextSeq = Base(k) + Len(up[k]) + 1
      BY <1>1 DEF IInv, Numbered, Alive
    <3>2. Base(k) \in Nat
      BY DEF IInv, TypeOK, Base
    <3>3. Base(k)' = Base(k) + 1
      BY <1>3, <1>4, <1>6 DEF Base
    <3>4. ASSUME NEW i \in DOMAIN up'[k] PROVE up'[k][i].seq = Base(k)' + i
      BY <1>2, <1>6, <3>1, <3>2, <3>3
    <3>5. sock = k => nextSeq = Base(k)' + Len(up'[k]) + 1
      BY <1>2, <1>6, <3>1, <3>2, <3>3
    <3> QED
      BY <2>2, <3>4, <3>5
  <2> QED
    BY <2>1, <2>2
<1>10. PushMail'
  <2>1. f.of \notin Pushes
    BY <1>3, FramesDistinct DEF Reqs
  <2>2. \A c \in Conns : reply'[c] # None => reply'[c].of \notin Pushes
    BY <1>6, <2>1 DEF IInv, PushMail
  <2> QED
    BY <1>1, <2>2 DEF IInv, PushMail
<1>11. ReplyIsMine'
  BY <1>1 DEF IInv, ReplyIsMine
<1>12. OneAnswer'
  <2> SUFFICES ASSUME NEW c \in Conns, sock = c
               PROVE  /\ \A i \in Asked(c)' : up'[c][i].of = call
                      /\ Answering(c)' => reply'[c].of = call /\ Asked(c)' = {}
                      /\ \A i \in Answers(c)' :
                           down[c][i].of = call /\ Asked(c)' = {} /\ ~Answering(c)'
                      /\ \A i, j \in Asked(c)' : i = j
                      /\ \A i, j \in Answers(c)' : i = j
    BY <1>1 DEF OneAnswer
  <2>1. /\ \A i \in Asked(c) : up[c][i].of = call
        /\ Answering(c) => reply[c].of = call /\ Asked(c) = {}
        /\ \A i \in Answers(c) :
             down[c][i].of = call /\ Asked(c) = {} /\ ~Answering(c)
        /\ \A i, j \in Asked(c) : i = j
        /\ \A i, j \in Answers(c) : i = j
    BY DEF IInv, OneAnswer
  <2>2. Answers(c)' = Answers(c)
    BY <1>1 DEF Answers
  <2>3. CASE c # k
    <3>1. Asked(c)' = Asked(c) /\ Answering(c)' = Answering(c)
      BY <1>6, <2>3 DEF Asked, Answering
    <3> QED
      BY <1>6, <2>1, <2>2, <2>3, <3>1
  <2>4. CASE c = k
    <3>1. \A i \in Asked(k)' :
            i \in Nat /\ i + 1 \in Asked(k) /\ i + 1 # 1 /\ up'[k][i] = up[k][i + 1]
      BY <1>2, <1>6 DEF Asked
    <3>2. f.of \in Single =>
            f.of = call /\ Asked(k)' = {} /\ Answers(k) = {}
      <4> SUFFICES ASSUME f.of \in Single
                   PROVE  f.of = call /\ Asked(k)' = {} /\ Answers(k) = {}
        OBVIOUS
      <4>1. 1 \in Asked(k)
        BY <1>2 DEF Asked
      <4>2. f.of = call /\ Answers(k) = {}
        BY <1>2, <2>1, <2>4, <4>1
      <4>3. Asked(k)' = {}
        BY <2>1, <2>4, <3>1, <4>1
      <4> QED
        BY <4>2, <4>3
    <3>3. Answering(k)' => f.of \in Single /\ reply'[k].of = f.of
      BY <1>6 DEF Answering
    <3>4. \A i, j \in Asked(k)' : i = j
      <4> TAKE i, j \in Asked(k)'
      <4>1. i + 1 = j + 1 /\ i \in Nat /\ j \in Nat
        BY <2>1, <2>4, <3>1
      <4> QED
        BY <4>1
    <3>5. \A i \in Asked(k)' : up'[k][i].of = call
      BY <2>1, <2>4, <3>1
    <3>6. \A i \in Answers(k) : Asked(k)' = {}
      BY <2>1, <2>4, <3>1
    <3> QED
      BY <2>1, <2>2, <2>4, <3>2, <3>3, <3>4, <3>5, <3>6
  <2> QED
    BY <2>3, <2>4
<1> QED
  BY <1>1, <1>7, <1>8, <1>9, <1>10, <1>11, <1>12 DEF IInv

LEMMA Written ==
  ASSUME IInv, NEW k \in Conns, NEW f \in DownFrames, Write(k, f)
  PROVE  /\ down' \in [Conns -> Seq(DownFrames)] /\ quiet' \in [Conns -> BOOLEAN]
         /\ \A c \in Conns : chan[c] = "new" => down'[c] = down[c]
         /\ \A c \in Conns : \A i \in DOMAIN down'[c] :
              \/ i \in DOMAIN down[c] /\ down'[c][i] = down[c][i]
              \/ c = k /\ i = Len(down[k]) + 1 /\ down'[c][i] = f
<1>1. CASE UNCHANGED <<down, quiet>>
  BY <1>1 DEF IInv, TypeOK
<1>2. CASE /\ chan[k] = "open"
           /\ down' = [down EXCEPT ![k] = Append(down[k], f)]
           /\ quiet' = [quiet EXCEPT ![k] = FALSE]
  <2>1. /\ Append(down[k], f) \in Seq(DownFrames)
        /\ DOMAIN Append(down[k], f) = 1..(Len(down[k]) + 1)
        /\ DOMAIN down[k] = 1..Len(down[k]) /\ Len(down[k]) \in Nat
        /\ \A i \in DOMAIN down[k] : Append(down[k], f)[i] = down[k][i]
        /\ Append(down[k], f)[Len(down[k]) + 1] = f
    BY Appended DEF IInv, TypeOK
  <2>2. /\ down'[k] = Append(down[k], f)
        /\ \A c \in Conns : c # k => down'[c] = down[c]
    BY <1>2 DEF IInv, TypeOK
  <2>3. down' \in [Conns -> Seq(DownFrames)] /\ quiet' \in [Conns -> BOOLEAN]
    BY <1>2, <2>1 DEF IInv, TypeOK
  <2>4. \A i \in DOMAIN down'[k] :
          \/ i \in DOMAIN down[k] /\ down'[k][i] = down[k][i]
          \/ i = Len(down[k]) + 1 /\ down'[k][i] = f
    BY <2>1, <2>2
  <2> QED
    BY <1>2, <2>2, <2>3, <2>4
<1> QED
  BY <1>1, <1>2 DEF Write

LEMMA WriteReplyInv ==
  ASSUME IInv, NEW k \in Conns, WriteReply(k)
  PROVE  IInv'
<1>1. /\ reply[k] # None /\ reply[k] \in DownFrames /\ Write(k, reply[k])
      /\ outSeq' = [outSeq EXCEPT ![k] = reply[k].seq + 1]
      /\ reply' = [reply EXCEPT ![k] = None]
      /\ UNCHANGED <<sock, call, nextSeq, result, heard, up, chan, user, lastSeq,
                     fwd, tasks, pushed>>
  BY DEF WriteReply, clientVars, IInv, TypeOK
<1>2. /\ down' \in [Conns -> Seq(DownFrames)] /\ quiet' \in [Conns -> BOOLEAN]
      /\ \A c \in Conns : chan[c] = "new" => down'[c] = down[c]
      /\ \A c \in Conns : \A i \in DOMAIN down'[c] :
           \/ i \in DOMAIN down[c] /\ down'[c][i] = down[c][i]
           \/ c = k /\ i = Len(down[k]) + 1 /\ down'[c][i] = reply[k]
  BY <1>1, Written
<1>3. reply'[k] = None /\ \A c \in Conns : c # k => reply'[c] = reply[c]
  BY <1>1 DEF IInv, TypeOK
<1>4. TypeOK'
  <2>1. outSeq' \in [Conns -> Nat]
    BY <1>1 DEF IInv, TypeOK, DownFrames
  <2>2. reply' \in [Conns -> DownFrames \cup {None}]
    BY <1>1 DEF IInv, TypeOK
  <2> QED
    BY <1>1, <1>2, <2>1, <2>2 DEF IInv, TypeOK
<1>5. Fresh' /\ Numbered' /\ ReplyIsMine'
  BY <1>1, <1>2, <1>3 DEF IInv, Fresh, Numbered, Alive, Base, ReplyIsMine
<1>6. PushMail'
  <2>1. \A c \in Conns : \A i \in DOMAIN down'[c] :
          down'[c][i].of \in Pushes => down'[c][i].of \in pushed
    BY <1>1, <1>2 DEF IInv, PushMail
  <2>2. \A c \in Conns : reply'[c] # None => reply'[c].of \notin Pushes
    BY <1>3 DEF IInv, PushMail
  <2> QED
    BY <1>1, <2>1, <2>2 DEF IInv, PushMail
<1>7. OneAnswer'
  <2> SUFFICES ASSUME NEW c \in Conns, sock = c
               PROVE  /\ \A i \in Asked(c)' : up[c][i].of = call
                      /\ Answering(c)' => reply'[c].of = call /\ Asked(c)' = {}
                      /\ \A i \in Answers(c)' :
                           down'[c][i].of = call /\ Asked(c)' = {} /\ ~Answering(c)'
                      /\ \A i, j \in Asked(c)' : i = j
                      /\ \A i, j \in Answers(c)' : i = j
    BY <1>1 DEF OneAnswer
  <2>1. /\ \A i \in Asked(c) : up[c][i].of = call
        /\ Answering(c) => reply[c].of = call /\ Asked(c) = {}
        /\ \A i \in Answers(c) :
             down[c][i].of = call /\ Asked(c) = {} /\ ~Answering(c)
        /\ \A i, j \in Asked(c) : i = j
        /\ \A i, j \in Answers(c) : i = j
    BY DEF IInv, OneAnswer
  <2>2. Asked(c)' = Asked(c)
    BY <1>1 DEF Asked
  <2>3. Answering(c)' => Answering(c) /\ reply'[c] = reply[c] /\ c # k
    BY <1>3 DEF Answering
  <2>4. \A i \in Answers(c)' :
          \/ i \in Answers(c) /\ down'[c][i] = down[c][i]
          \/ Answering(c) /\ c = k /\ i = Len(down[k]) + 1 /\ down'[c][i] = reply[c]
    BY <1>1, <1>2 DEF Answers, Answering
  <2> QED
    BY <2>1, <2>2, <2>3, <2>4
<1> QED
  BY <1>1, <1>4, <1>5, <1>6, <1>7 DEF IInv

LEMMA RunTaskInv ==
  ASSUME IInv, NEW k \in Conns, RunTask(k)
  PROVE  IInv'
<1> DEFINE f == Head(tasks[k])
<1>1. /\ tasks[k] \in Seq(DownFrames) /\ tasks[k] # <<>> /\ Write(k, f)
      /\ tasks' = [tasks EXCEPT ![k] = Tail(tasks[k])]
      /\ UNCHANGED <<sock, call, nextSeq, result, heard, up, chan, user, lastSeq,
                     outSeq, reply, fwd, pushed>>
  BY DEF RunTask, clientVars, IInv, TypeOK
<1>2. /\ f \in DownFrames /\ 1 \in DOMAIN tasks[k] /\ f = tasks[k][1]
      /\ Tail(tasks[k]) \in Seq(DownFrames)
      /\ \A i \in DOMAIN Tail(tasks[k]) :
           i + 1 \in DOMAIN tasks[k] /\ Tail(tasks[k])[i] = tasks[k][i + 1]
  BY <1>1, Dropped
<1> HIDE DEF f
<1>3. /\ down' \in [Conns -> Seq(DownFrames)] /\ quiet' \in [Conns -> BOOLEAN]
      /\ \A c \in Conns : chan[c] = "new" => down'[c] = down[c]
      /\ \A c \in Conns : \A i \in DOMAIN down'[c] :
           \/ i \in DOMAIN down[c] /\ down'[c][i] = down[c][i]
           \/ c = k /\ i = Len(down[k]) + 1 /\ down'[c][i] = f
  BY <1>1, <1>2, Written
<1>4. f.of \in pushed /\ f.of \notin Single
  BY <1>2, Kinds DEF IInv, TypeOK, PushMail
<1>5. /\ tasks'[k] = Tail(tasks[k])
      /\ \A c \in Conns : c # k => tasks'[c] = tasks[c]
  BY <1>1 DEF IInv, TypeOK
<1>6. TypeOK'
  <2>1. tasks' \in [Conns -> Seq(DownFrames)]
    BY <1>1, <1>2 DEF IInv, TypeOK
  <2> QED
    BY <1>1, <1>3, <2>1 DEF IInv, TypeOK
<1>7. Fresh' /\ Numbered' /\ ReplyIsMine'
  BY <1>1, <1>3 DEF IInv, Fresh, Numbered, Alive, Base, ReplyIsMine
<1>8. PushMail'
  <2>1. \A c \in Conns : \A i \in DOMAIN down'[c] :
          down'[c][i].of \in Pushes => down'[c][i].of \in pushed
    BY <1>3, <1>4 DEF IInv, PushMail
  <2>2. ASSUME NEW c \in Conns, NEW i \in DOMAIN tasks'[c]
        PROVE  tasks'[c][i].of \in pushed
    <3>1. \A d \in Conns : \A j \in DOMAIN tasks[d] : tasks[d][j].of \in pushed
      BY DEF IInv, PushMail
    <3>2. CASE c = k
      BY <1>2, <1>5, <3>1, <3>2
    <3>3. CASE c # k
      BY <1>5, <3>1, <3>3
    <3> QED
      BY <3>2, <3>3
  <2> QED
    BY <1>1, <2>1, <2>2 DEF IInv, PushMail
<1>9. OneAnswer'
  <2>1. \A c \in Conns : Asked(c)' = Asked(c) /\ Answering(c)' = Answering(c)
    BY <1>1 DEF Asked, Answering
  <2>2. \A c \in Conns : \A i \in Answers(c)' :
          i \in Answers(c) /\ down'[c][i] = down[c][i]
    BY <1>3, <1>4 DEF Answers
  <2> QED
    BY <1>1, <2>1, <2>2 DEF IInv, OneAnswer
<1> QED
  BY <1>1, <1>6, <1>7, <1>8, <1>9 DEF IInv

\* Another loop reads this channel's number ...
LEMMA ForwardGetInv ==
  ASSUME IInv, NEW f \in Loops, NEW k \in Conns, NEW p \in Pushes,
         ForwardGet(f, k, p)
  PROVE  IInv'
<1> DEFINE job == [to |-> k, frame |-> Frame(outSeq[k], p, TRUE)]
<1>1. /\ pushed' = pushed \cup {p} /\ fwd' = [fwd EXCEPT ![f] = job]
      /\ UNCHANGED <<sock, call, nextSeq, result, heard, up, down, chan, user,
                     lastSeq, outSeq, reply, tasks, quiet>>
  BY DEF ForwardGet, clientVars
<1>2. job.frame.of = p /\ job \in [to : Conns, frame : DownFrames]
  BY DEF Frame, DownFrames, IInv, TypeOK
<1> HIDE DEF job
<1>3. TypeOK'
  <2>1. fwd' \in [Loops -> [to : Conns, frame : DownFrames] \cup {None}]
    BY <1>1, <1>2 DEF IInv, TypeOK
  <2> QED
    BY <1>1, <2>1 DEF IInv, TypeOK
<1>4. Fresh' /\ Numbered' /\ ReplyIsMine'
  BY <1>1 DEF IInv, Fresh, Numbered, Alive, Base, ReplyIsMine
<1>5. PushMail'
  <2>1. \A g \in Loops : fwd'[g] # None => fwd'[g].frame.of \in pushed'
    BY <1>1, <1>2 DEF IInv, TypeOK, PushMail
  <2> QED
    BY <1>1, <2>1 DEF IInv, PushMail
<1>6. OneAnswer'
  BY <1>1 DEF IInv, OneAnswer, Asked, Answering, Answers
<1> QED
  BY <1>1, <1>3, <1>4, <1>5, <1>6 DEF IInv

\* ... and later sets it, whatever happened in between.
LEMMA ForwardSetInv ==
  ASSUME IInv, NEW f \in Loops, ForwardSet(f)
  PROVE  IInv'
<1> DEFINE k == fwd[f].to
           e == fwd[f].frame
<1>1. /\ fwd[f] # None /\ fwd' = [fwd EXCEPT ![f] = None]
      /\ \/ UNCHANGED <<outSeq, tasks>>
         \/ /\ outSeq' = [outSeq EXCEPT ![k] = e.seq + 1]
            /\ tasks' = [tasks EXCEPT ![k] = Append(tasks[k], e)]
      /\ UNCHANGED <<sock, call, nextSeq, result, heard, up, down, chan, user,
                     lastSeq, reply, pushed, quiet>>
  BY DEF ForwardSet, clientVars
<1>2. k \in Conns /\ e \in DownFrames /\ e.seq + 1 \in Nat /\ e.of \in pushed
  BY <1>1 DEF IInv, TypeOK, PushMail, DownFrames
<1> HIDE DEF k, e
<1>3. tasks[k] \in Seq(DownFrames)
  BY <1>2 DEF IInv, TypeOK
<1>4. /\ Append(tasks[k], e) \in Seq(DownFrames)
      /\ DOMAIN Append(tasks[k], e) = 1..(Len(tasks[k]) + 1)
      /\ DOMAIN tasks[k] = 1..Len(tasks[k]) /\ Len(tasks[k]) \in Nat
      /\ \A i \in DOMAIN tasks[k] : Append(tasks[k], e)[i] = tasks[k][i]
      /\ Append(tasks[k], e)[Len(tasks[k]) + 1] = e
  BY <1>2, <1>3, Appended
<1>5. TypeOK'
  <2>1. outSeq' \in [Conns -> Nat]
    BY <1>1, <1>2 DEF IInv, TypeOK
  <2>2. tasks' \in [Conns -> Seq(DownFrames)]
    BY <1>1, <1>2, <1>4 DEF IInv, TypeOK
  <2>3. fwd' \in [Loops -> [to : Conns, frame : DownFrames] \cup {None}]
    BY <1>1 DEF IInv, TypeOK
  <2> QED
    BY <1>1, <2>1, <2>2, <2>3 DEF IInv, TypeOK
<1>6. Fresh' /\ Numbered' /\ ReplyIsMine'
  BY <1>1 DEF IInv, Fresh, Numbered, Alive, Base, ReplyIsMine
<1>7. PushMail'
  <2>1. \A g \in Loops : fwd'[g] # None => fwd'[g] = fwd[g]
    BY <1>1 DEF IInv, TypeOK
  <2>2. ASSUME NEW c \in Conns, NEW i \in DOMAIN tasks'[c]
        PROVE  tasks'[c][i].of \in pushed
    <3>1. \A d \in Conns : \A j \in DOMAIN tasks[d] : tasks[d][j].of \in pushed
      BY DEF IInv, PushMail
    <3>2. CASE tasks'[c] = tasks[c]
      BY <3>1, <3>2
    <3>3. CASE c = k /\ tasks'[c] = Append(tasks[k], e)
      BY <1>2, <1>4, <3>1, <3>3
    <3> QED
      BY <1>1, <1>2, <3>2, <3>3 DEF IInv, TypeOK
  <2> QED
    BY <1>1, <2>1, <2>2 DEF IInv, PushMail
<1>8. OneAnswer'
  BY <1>1 DEF IInv, OneAnswer, Asked, Answering, Answers
<1> QED
  BY <1>1, <1>5, <1>6, <1>7, <1>8 DEF IInv

LEMMA CloseChannelInv ==
  ASSUME IInv, NEW k \in Conns, Close(k)
  PROVE  IInv'
<1>1. /\ chan[k] = "open" /\ chan' = [chan EXCEPT ![k] = "closing"]
      /\ UNCHANGED <<sock, call, nextSeq, result, heard, up, down, user, lastSeq,
                     outSeq, reply, fwd, tasks, pushed, quiet>>
  BY DEF Close, clientVars
<1>2. TypeOK' /\ Fresh' /\ Numbered'
  BY <1>1 DEF IInv, TypeOK, Fresh, Numbered, Alive, Base
<1>3. PushMail' /\ OneAnswer' /\ ReplyIsMine'
  BY <1>1 DEF IInv, PushMail, OneAnswer, Asked, Answering, Answers, ReplyIsMine
<1> QED
  BY <1>1, <1>2, <1>3 DEF IInv

LEMMA ChannelInactiveInv ==
  ASSUME IInv, NEW k \in Conns, ChannelInactive(k)
  PROVE  IInv'
<1>1. /\ chan[k] = "closing" /\ chan' = [chan EXCEPT ![k] = "closed"]
      /\ up' = [up EXCEPT ![k] = <<>>] /\ tasks' = [tasks EXCEPT ![k] = <<>>]
      /\ user' = [user EXCEPT ![k] = FALSE] /\ lastSeq' = [lastSeq EXCEPT ![k] = -1]
      /\ outSeq' = [outSeq EXCEPT ![k] = 1] /\ quiet' = [quiet EXCEPT ![k] = FALSE]
      /\ UNCHANGED <<sock, call, nextSeq, result, heard, down, reply, fwd, pushed>>
  BY DEF ChannelInactive, clientVars
<1>2. /\ chan'[k] = "closed" /\ up'[k] = <<>> /\ tasks'[k] = <<>>
      /\ \A c \in Conns : c # k =>
           /\ chan'[c] = chan[c] /\ up'[c] = up[c] /\ tasks'[c] = tasks[c]
           /\ lastSeq'[c] = lastSeq[c]
  BY <1>1 DEF IInv, TypeOK
<1>3. TypeOK'
  <2>1. up' \in [Conns -> Seq(UpFrames)] /\ tasks' \in [Conns -> Seq(DownFrames)]
    BY <1>1 DEF IInv, TypeOK
  <2> QED
    BY <1>1, <2>1 DEF IInv, TypeOK
<1>4. Fresh' /\ Numbered'
  BY <1>1, <1>2 DEF IInv, Fresh, Numbered, Alive, Base
<1>5. PushMail' /\ ReplyIsMine'
  BY <1>1, <1>2 DEF IInv, PushMail, ReplyIsMine
<1>6. OneAnswer'
  <2>1. \A c \in Conns : Asked(c)' \subseteq Asked(c)
                         /\ (Asked(c)' # {} => up'[c] = up[c])
    BY <1>1, <1>2 DEF Asked
  <2>2. \A c \in Conns : Answering(c)' = Answering(c) /\ Answers(c)' = Answers(c)
    BY <1>1 DEF Answering, Answers
  <2> QED
    BY <1>1, <2>1, <2>2 DEF IInv, OneAnswer
<1> QED
  BY <1>1, <1>3, <1>4, <1>5, <1>6 DEF IInv

LEMMA IdleEventInv ==
  ASSUME IInv, NEW k \in Conns, IdleEvent(k)
  PROVE  IInv'
<1>1. /\ quiet' = [quiet EXCEPT ![k] = TRUE]
      /\ UNCHANGED <<sock, call, nextSeq, result, heard, up, down, chan, user,
                     lastSeq, outSeq, reply, fwd, tasks, pushed>>
  BY DEF IdleEvent, ClosesOn, FiredIdleState, clientVars
<1>2. TypeOK' /\ Fresh' /\ Numbered'
  BY <1>1 DEF IInv, TypeOK, Fresh, Numbered, Alive, Base
<1>3. PushMail' /\ OneAnswer' /\ ReplyIsMine'
  BY <1>1 DEF IInv, PushMail, OneAnswer, Asked, Answering, Answers, ReplyIsMine
<1> QED
  BY <1>1, <1>2, <1>3 DEF IInv

LEMMA NextInv == IInv /\ [Next]_vars => IInv'
<1> SUFFICES ASSUME IInv, [Next]_vars PROVE IInv'
  OBVIOUS
<1>1. CASE Timeout \/ Break
  BY <1>1, CallFailsInv DEF Timeout, TimesOut, Break
<1>2. CASE UNCHANGED vars
  <2>1. UNCHANGED <<sock, call, nextSeq, result, heard, up, down, chan, user,
                    lastSeq, outSeq, reply, fwd, tasks, pushed, quiet>>
    BY <1>2 DEF vars, clientVars, gatewayVars
  <2>2. TypeOK' /\ Fresh' /\ Numbered'
    BY <2>1 DEF IInv, TypeOK, Fresh, Numbered, Alive, Base
  <2>3. PushMail' /\ OneAnswer' /\ ReplyIsMine'
    BY <2>1 DEF IInv, PushMail, OneAnswer, Asked, Answering, Answers, ReplyIsMine
  <2> QED
    BY <2>1, <2>2, <2>3 DEF IInv
<1>3. CASE Next /\ ~Timeout /\ ~Break
  BY <1>3, EstablishInv, RequestInv, ReadInv, CloseSessionInv, DispatchInv,
     WriteReplyInv, RunTaskInv, CloseChannelInv, ChannelInactiveInv, IdleEventInv,
     ForwardGetInv, ForwardSetInv DEF Next
<1> QED
  BY <1>1, <1>2, <1>3

-----------------------------------------------------------------------------
(* What holds of every execution.                                          *)

\* Over any number of connections, timeouts and forwarded frames, client and
\* gateway agree on the numbering, and a connection in use owes the client at
\* most the reply to the call in progress.
THEOREM Inductive == Spec => []IInv
<1> QED
  BY InitInv, NextInv, PTL DEF Spec

\* Types hold, and the client waits only on a socket whose numbering is its
\* own (WellFormed).
THEOREM WellFormedHolds == Spec => []WellFormed
<1>1. IInv => WellFormed
  BY DEF IInv, WellFormed
<1> QED
  BY <1>1, Inductive, PTL

\* The replay window accepts every frame the client ever sends
\* (ClientFramesAccepted), whatever its size: reconnecting starts the
\* numbering and the window anew together.
THEOREM ClientFramesAcceptedHolds == Spec => []ClientFramesAccepted
<1>1. IInv => ClientFramesAccepted
  BY NextAccepted DEF ClientFramesAccepted
<1> QED
  BY <1>1, Inductive, PTL

\* A request of a type other than TEXT returns its own reply or null, and the
\* listener hears forwarded messages only (ReplyIsMine).
THEOREM ReplyIsMineHolds == Spec => []ReplyIsMine
<1>1. IInv => ReplyIsMine
  BY DEF IInv
<1> QED
  BY <1>1, Inductive, PTL

=============================================================================

-------------------------- MODULE AuthSessionProofs --------------------------
(***************************************************************************)
(* Proofs about AuthSession, for any users, addresses, limits and ban      *)
(* durations.  The windows are pruned lazily, when a call looks at them;   *)
(* the history forgets at every tick.  The invariant is that pruning a     *)
(* window now gives exactly the history, from which the limits and the     *)
(* matrix of bans follow.                                                  *)
(***************************************************************************)
EXTENDS AuthSession, FiniteSetTheorems, SequenceTheorems, WellFoundedInduction, TLAPS

-----------------------------------------------------------------------------
(* PruneDequeOlderThan.                                                    *)

\* The first k times of q are outside the window at time t, the next is not.
Cut(q, window, t, k) ==
  /\ k \in 0..Len(q)
  /\ \A j \in 1..k : ~(t - q[j] <= window)
  /\ k < Len(q) => t - q[k + 1] <= window

Less == {p \in Nat \X Nat : p[1] < p[2]}

LEMMA Smallest ==
  ASSUME NEW S \in SUBSET Nat, S # {}
  PROVE  \E x \in S : \A y \in S : x <= y
<1>1. IsWellFoundedOn(Less, Nat)
  BY NatLessThanWellFounded DEF OpToRel, Less
<1>2. PICK x \in S : \A y \in S : ~(<<y, x>> \in Less)
  BY <1>1, WFMin
<1>3. ASSUME NEW y \in S
      PROVE  x <= y
  <2>1. x \in Nat /\ y \in Nat
    OBVIOUS
  <2>2. ~(<<y, x>>[1] < <<y, x>>[2])
    BY <1>2, <2>1 DEF Less
  <2> QED
    BY <2>1, <2>2
<1> QED
  BY <1>3

LEMMA CutExists ==
  ASSUME NEW q \in Seq(Nat), NEW window \in Int, NEW t \in Nat
  PROVE  \E k \in 0..Len(q) : Cut(q, window, t, k)
<1> DEFINE kept == {i \in DOMAIN q : t - q[i] <= window}
<1>1. CASE kept = {}
  BY <1>1 DEF Cut
<1>2. CASE kept # {}
  <2>1. PICK x \in kept : \A y \in kept : x <= y
    <3>1. kept \in SUBSET Nat
      OBVIOUS
    <3> QED
      BY <1>2, <3>1, Smallest
  <2>2. x - 1 \in 0..Len(q)
    OBVIOUS
  <2>3. Cut(q, window, t, x - 1)
    BY <2>1 DEF Cut
  <2> QED
    BY <2>2, <2>3
<1> QED
  BY <1>1, <1>2

\* Where the cut is decides what is left.
LEMMA CutLeaves ==
  ASSUME NEW q \in Seq(Nat), NEW window \in Int, NEW t \in Nat,
         NEW k, Cut(q, window, t, k)
  PROVE  Within(q, window, t) = SubSeq(q, k + 1, Len(q))
<1> DEFINE kept == {i \in DOMAIN q : t - q[i] <= window}
           first == CHOOSE i \in kept : \A j \in kept : i <= j
<1>1. Within(q, window, t) = IF kept = {} THEN <<>> ELSE SubSeq(q, first, Len(q))
  BY DEF Within
<1>2. CASE k < Len(q)
  <2>1. k + 1 \in kept /\ \A j \in kept : k + 1 <= j
    BY <1>2 DEF Cut
  <2>2. first \in kept /\ \A j \in kept : first <= j
    BY <2>1
  <2>3. first = k + 1
    BY <2>1, <2>2 DEF Cut
  <2> QED
    BY <1>1, <2>1, <2>3
<1>3. CASE k = Len(q)
  <2>1. kept = {}
    BY <1>3 DEF Cut
  <2>2. SubSeq(q, k + 1, Len(q)) = <<>>
    BY <1>3, SubSeqEmpty
  <2> QED
    BY <1>1, <2>1, <2>2
<1> QED
  BY <1>2, <1>3 DEF Cut

\* What is left of a window, place by place.
LEMMA Left ==
  ASSUME NEW q \in Seq(Nat), NEW k \in 0..Len(q)
  PROVE  LET r == SubSeq(q, k + 1, Len(q))
         IN  /\ r \in Seq(Nat) /\ Len(r) = Len(q) - k
             /\ \A i \in 1..Len(r) : r[i] = q[k + i]
<1>1. /\ k + 1 \in Int /\ Len(q) \in Int
      /\ \A i \in (k + 1)..Len(q) : q[i] \in Nat
  OBVIOUS
<1>2. LET r == SubSeq(q, k + 1, Len(q))
      IN  /\ r \in Seq(Nat) /\ Len(r) = IF k + 1 <= Len(q) THEN Len(q) - (k + 1) + 1 ELSE 0
          /\ \A i \in 1..(Len(q) - (k + 1) + 1) : r[i] = q[k + 1 + i - 1]
  BY <1>1, SubSeqProperties
<1> QED
  BY <1>2

LEMMA CutLeft ==
  ASSUME NEW q \in Seq(Nat), NEW window \in Int, NEW t \in Nat,
         NEW k \in 0..Len(q), Cut(q, window, t, k)
  PROVE  /\ Within(q, window, t) \in Seq(Nat)
         /\ Len(Within(q, window, t)) = Len(q) - k
         /\ \A i \in 1..Len(Within(q, window, t)) : Within(q, window, t)[i] = q[k + i]
<1>1. Within(q, window, t) = SubSeq(q, k + 1, Len(q))
  BY CutLeaves
<1> QED
  BY <1>1, Left

LEMMA Pruned ==
  ASSUME NEW q \in Seq(Nat), NEW window \in Int, NEW t \in Nat
  PROVE  /\ Within(q, window, t) \in Seq(Nat)
         /\ Len(Within(q, window, t)) <= Len(q)
<1>1. PICK k \in 0..Len(q) : Cut(q, window, t, k)
  BY CutExists
<1> QED
  BY <1>1, CutLeft

\* Pruning earlier on does not change what is left later.
LEMMA PrunedTwice ==
  ASSUME NEW q \in Seq(Nat), NEW window \in Int, NEW t \in Nat, NEW u \in Nat, t <= u
  PROVE  Within(Within(q, window, t), window, u) = Within(q, window, u)
<1> DEFINE r == Within(q, window, t)
<1>1. PICK k \in 0..Len(q) : Cut(q, window, t, k)
  BY CutExists
<1>2. PICK n \in 0..Len(q) : Cut(q, window, u, n)
  BY CutExists
<1>3. /\ r = SubSeq(q, k + 1, Len(q))
      /\ r \in Seq(Nat) /\ Len(r) = Len(q) - k
      /\ \A i \in 1..Len(r) : r[i] = q[k + i]
  BY <1>1, CutLeaves, CutLeft
<1>4. Within(q, window, u) = SubSeq(q, n + 1, Len(q))
  BY <1>2, CutLeaves
<1>5. k <= n
  <2>1. SUFFICES ASSUME n < k PROVE FALSE
    OBVIOUS
  <2>2. u - q[n + 1] <= window /\ ~(t - q[n + 1] <= window)
    BY <1>1, <1>2, <2>1 DEF Cut
  <2>3. q[n + 1] \in Nat
    BY <2>1
  <2> QED
    BY <2>2, <2>3
<1> HIDE DEF r
<1>6. Cut(r, window, u, n - k)
  BY <1>2, <1>3, <1>5 DEF Cut
<1>7. Within(r, window, u) = SubSeq(r, n - k + 1, Len(r))
  BY <1>3, <1>6, CutLeaves
<1>8. SubSeq(r, n - k + 1, Len(r)) = SubSeq(q, n + 1, Len(q))
  <2> DEFINE a == SubSeq(r, n - k + 1, Len(r))
             b == SubSeq(q, n + 1, Len(q))
  <2>1. n - k \in 0..Len(r)
    BY <1>3, <1>5
  <2>2. /\ a \in Seq(Nat) /\ Len(a) = Len(r) - (n - k)
        /\ \A i \in 1..Len(a) : a[i] = r[n - k + i]
    BY <1>3, <2>1, Left
  <2>3. /\ b \in Seq(Nat) /\ Len(b) = Len(q) - n
        /\ \A i \in 1..Len(b) : b[i] = q[n + i]
    BY <1>2, Left
  <2>4. Len(a) = Len(b) /\ \A i \in 1..Len(a) : a[i] = b[i]
    BY <1>3, <1>5, <2>2, <2>3
  <2> QED
    BY <2>2, <2>3, <2>4, SeqEqual
<1> QED
  BY <1>4, <1>7, <1>8 DEF r

\* The attempt that is noted now is inside its window, and so is the rest.
LEMMA PrunedAppend ==
  ASSUME NEW q \in Seq(Nat), NEW window \in Int, NEW t \in Nat, 0 <= window
  PROVE  Within(Append(Within(q, window, t), t), window, t)
           = Append(Within(q, window, t), t)
<1> DEFINE r == Within(q, window, t)
           s == Append(r, t)
<1>1. PICK k \in 0..Len(q) : Cut(q, window, t, k)
  BY CutExists
<1>2. /\ r \in Seq(Nat) /\ Len(r) = Len(q) - k
      /\ \A i \in 1..Len(r) : r[i] = q[k + i]
  BY <1>1, CutLeft
<1> HIDE DEF r
<1>3. /\ s \in Seq(Nat) /\ Len(s) = Len(r) + 1 /\ Len(r) \in Nat
      /\ \A i \in 1..Len(r) : s[i] = r[i]
      /\ s[Len(r) + 1] = t
  BY <1>2
<1>4. t - s[1] <= window
  <2>1. CASE Len(r) = 0
    BY <1>3, <2>1
  <2>2. CASE Len(r) > 0
    <3>1. 1 \in 1..Len(r)
      BY <1>3, <2>2
    <3>2. s[1] = r[1] /\ r[1] = q[k + 1] /\ k < Len(q)
      BY <1>2, <1>3, <3>1, <2>2
    <3> QED
      BY <1>1, <3>2 DEF Cut
  <2> QED
    BY <1>3, <2>1, <2>2
<1> HIDE DEF s
<1>5. Cut(s, window, t, 0)
  BY <1>3, <1>4 DEF Cut
<1>6. Within(s, window, t) = SubSeq(s, 0 + 1, Len(s))
  BY <1>3, <1>5, CutLeaves
<1> QED
  BY <1>3, <1>6, SubSeqFull DEF r, s

LEMMA PrunedEmpty ==
  \A window, t : Within(<<>>, window, t) = <<>>
BY DEF Within

-----------------------------------------------------------------------------
(* The invariant.                                                          *)

Taken == {s \in Sids : sessions[s] # None}

\* Pruning now gives the attempts of the last minute since a success.
ChecksAgree ==
  /\ \A u \in Users : checked[u] = UserAttempts(u)
  /\ \A i \in Ips : checked[i] = IpAttempts(i)
FailuresAgree == \A p \in Principals : failed[p] = Failures(p)

InLimits ==
  /\ \A u \in Users : Len(userQ[u]) <= UserMax
  /\ \A i \in Ips : Len(ipQ[i]) <= IpMax

IInv ==
  /\ TypeOK
  /\ IsFiniteSet(Taken) /\ Cardinality(Taken) <= MaxSessions
  /\ InLimits
  /\ ChecksAgree
  /\ FailuresAgree
  /\ BansFollowMatrix

LEMMA Constants ==
  /\ Minute \in Nat /\ FailWindow \in Nat /\ BanStep \in Nat /\ LongBan \in Nat
  /\ Ttl \in Nat /\ UserMax \in Nat \ {0} /\ IpMax \in Nat \ {0}
  /\ BanFrom \in Nat \ {0} /\ LongBanFrom \in Nat \ {0} /\ MaxSessions \in Nat \ {0}
  /\ Minute \in Int /\ FailWindow \in Int /\ 0 <= Minute /\ 0 <= FailWindow
BY LimitsAssumption

\* A principal is a user and the address of a call.
LEMMA Principal ==
  ASSUME NEW p \in Principals
  PROVE  /\ p = <<p[1], p[2]>>
         /\ p[1] \in Users /\ p[1] \in Counted /\ p[1] \notin Ips
         /\ p[2] \in Ips \cup {NoIp}
         /\ p[2] # NoIp => p[2] \in Ips /\ p[2] \in Counted /\ p[2] \notin Users
         /\ p[2] = NoIp => p[2] \notin Counted
BY PrincipalsAssumption, NamesDistinct DEF Counted

LEMMA Types ==
  ASSUME TypeOK
  PROVE  /\ now \in Nat /\ MaxTime \in Nat
         /\ \A u \in Users : userQ[u] \in Seq(Nat) /\ UserAttempts(u) \in Seq(Nat)
         /\ \A u \in Users : Len(UserAttempts(u)) <= Len(userQ[u])
         /\ \A i \in Ips : ipQ[i] \in Seq(Nat) /\ IpAttempts(i) \in Seq(Nat)
         /\ \A i \in Ips : Len(IpAttempts(i)) <= Len(ipQ[i])
         /\ \A p \in Principals : fails[p] \in Seq(Nat) /\ Failures(p) \in Seq(Nat)
         /\ \A p \in Principals : until[p] \in Nat /\ owed[p] \in Nat
         /\ \A x \in Counted : checked[x] \in Seq(Nat)
         /\ \A p \in Principals : failed[p] \in Seq(Nat)
<1>1. now \in Nat /\ MaxTime \in Nat
  BY LimitsAssumption DEF TypeOK, Times
<1>2. /\ \A u \in Users : userQ[u] \in Seq(Nat)
      /\ \A i \in Ips : ipQ[i] \in Seq(Nat)
      /\ \A p \in Principals : fails[p] \in Seq(Nat)
  BY DEF TypeOK
<1>3. /\ \A p \in Principals : until[p] \in Nat /\ owed[p] \in Nat
      /\ \A x \in Counted : checked[x] \in Seq(Nat)
      /\ \A p \in Principals : failed[p] \in Seq(Nat)
  BY DEF TypeOK
<1>4. \A u \in Users : /\ UserAttempts(u) \in Seq(Nat)
                       /\ Len(UserAttempts(u)) <= Len(userQ[u])
  BY <1>1, <1>2, Constants, Pruned DEF UserAttempts, Prune
<1>5. \A i \in Ips : /\ IpAttempts(i) \in Seq(Nat)
                     /\ Len(IpAttempts(i)) <= Len(ipQ[i])
  BY <1>1, <1>2, Constants, Pruned DEF IpAttempts, Prune
<1>6. \A p \in Principals : Failures(p) \in Seq(Nat)
  BY <1>1, <1>2, Constants, Pruned DEF Failures, Prune
<1> QED
  BY <1>1, <1>2, <1>3, <1>4, <1>5, <1>6

LEMMA Init_IInv == Init => IInv
<1> SUFFICES ASSUME Init PROVE IInv
  OBVIOUS
<1>1. TypeOK
  BY LimitsAssumption DEF Init, TypeOK, Times
<1>2. Taken = {}
  BY DEF Init, Taken
<1>3. IsFiniteSet(Taken) /\ Cardinality(Taken) <= MaxSessions
  BY <1>2, FS_EmptySet, Constants
<1>4. InLimits
  BY Constants DEF Init, InLimits
<1>5. ChecksAgree /\ FailuresAgree
  BY PrunedEmpty
  DEF Init, ChecksAgree, FailuresAgree, UserAttempts, IpAttempts, Failures, Prune, Counted
<1>6. BansFollowMatrix
  BY DEF Init, BansFollowMatrix
<1> QED
  BY <1>1, <1>3, <1>4, <1>5, <1>6 DEF IInv

-----------------------------------------------------------------------------
(* What the calls do to the windows and to the bans.                       *)

\* A call leaves uq and iq in the windows, and the history agrees.
LEMMA WindowsStep ==
  ASSUME IInv, NEW p \in Principals,
         NEW uq \in Seq(Nat), NEW iq \in Seq(Nat),
         SetAttempts(p[1], p[2], uq, iq), now' = now,
         Len(uq) <= UserMax,
         p[2] # NoIp => Len(iq) <= IpMax,
         checked' \in [Counted -> Seq(Nat)],
         checked'[p[1]] = Prune(uq, Minute),
         p[2] # NoIp => checked'[p[2]] = Prune(iq, Minute),
         \A x \in Counted : x \notin {p[1], p[2]} => checked'[x] = checked[x]
  PROVE  /\ userQ' \in [Users -> Seq(Nat)] /\ ipQ' \in [Ips -> Seq(Nat)]
         /\ InLimits' /\ ChecksAgree'
<1>1. /\ userQ \in [Users -> Seq(Nat)] /\ ipQ \in [Ips -> Seq(Nat)]
      /\ InLimits /\ ChecksAgree
  BY DEF IInv, TypeOK
<1>2. userQ' = [userQ EXCEPT ![p[1]] = uq]
  BY DEF SetAttempts
<1>3. /\ p[2] = NoIp => ipQ' = ipQ
      /\ p[2] # NoIp => ipQ' = [ipQ EXCEPT ![p[2]] = iq]
  BY DEF SetAttempts
<1>4. /\ userQ' \in [Users -> Seq(Nat)] /\ userQ'[p[1]] = uq
      /\ \A u \in Users : u # p[1] => userQ'[u] = userQ[u]
  BY <1>1, <1>2, Principal
<1>5. /\ ipQ' \in [Ips -> Seq(Nat)]
      /\ p[2] # NoIp => ipQ'[p[2]] = iq
      /\ \A i \in Ips : i # p[2] => ipQ'[i] = ipQ[i]
  BY <1>1, <1>3, Principal
<1>6. InLimits'
  <2>1. ASSUME NEW u \in Users PROVE Len(userQ'[u]) <= UserMax
    BY <1>1, <1>4 DEF InLimits
  <2>2. ASSUME NEW i \in Ips PROVE Len(ipQ'[i]) <= IpMax
    BY <1>1, <1>5, NamesDistinct DEF InLimits
  <2> QED
    BY <2>1, <2>2 DEF InLimits
<1>7. ASSUME NEW u \in Users
      PROVE  checked'[u] = UserAttempts(u)'
  <2>1. CASE u = p[1]
    BY <1>4, <2>1 DEF UserAttempts, Prune
  <2>2. CASE u # p[1]
    <3>1. u # p[2] /\ u \in Counted
      BY Principal, NamesDistinct DEF Counted
    <3> QED
      BY <1>1, <1>4, <2>2, <3>1 DEF ChecksAgree, UserAttempts, Prune
  <2> QED
    BY <2>1, <2>2
<1>8. ASSUME NEW i \in Ips
      PROVE  checked'[i] = IpAttempts(i)'
  <2>1. CASE i = p[2]
    BY <1>5, <2>1, NamesDistinct DEF IpAttempts, Prune
  <2>2. CASE i # p[2]
    <3>1. i # p[1] /\ i \in Counted
      BY Principal DEF Counted
    <3> QED
      BY <1>1, <1>5, <2>2, <3>1 DEF ChecksAgree, IpAttempts, Prune
  <2> QED
    BY <2>1, <2>2
<1> QED
  BY <1>4, <1>5, <1>6, <1>7, <1>8 DEF ChecksAgree

\* A call leaves the failures f and a ban until t, as the history calls for.
LEMMA BansStep ==
  ASSUME IInv, NEW p \in Principals,
         NEW f \in Seq(Nat), NEW t \in Nat,
         SetBan(<<p[1], p[2]>>, f, t), now' = now,
         failed' \in [Principals -> Seq(Nat)], owed' \in [Principals -> Nat],
         failed'[p] = Prune(f, FailWindow),
         now < owed'[p] => t = owed'[p],
         \A x \in Principals : x # p => failed'[x] = failed[x] /\ owed'[x] = owed[x]
  PROVE  /\ fails' \in [Principals -> Seq(Nat)] /\ until' \in [Principals -> Nat]
         /\ FailuresAgree' /\ BansFollowMatrix'
<1>1. /\ fails \in [Principals -> Seq(Nat)] /\ until \in [Principals -> Nat]
      /\ FailuresAgree /\ BansFollowMatrix
  BY DEF IInv, TypeOK
<1>2. p = <<p[1], p[2]>>
  BY Principal
<1>3. fails' = [fails EXCEPT ![p] = f] /\ until' = [until EXCEPT ![p] = t]
  BY <1>2, Zenon DEF SetBan
<1>4. /\ fails' \in [Principals -> Seq(Nat)] /\ until' \in [Principals -> Nat]
      /\ fails'[p] = f /\ until'[p] = t
      /\ \A x \in Principals : x # p => fails'[x] = fails[x] /\ until'[x] = until[x]
  BY <1>1, <1>3
<1>5. FailuresAgree'
  BY <1>1, <1>4 DEF FailuresAgree, Failures, Prune
<1>6. BansFollowMatrix'
  BY <1>1, <1>4 DEF BansFollowMatrix
<1> QED
  BY <1>4, <1>5, <1>6

\* Pruned windows agree with the history as before.
LEMMA PrunedAgain ==
  ASSUME IInv
  PROVE  /\ \A u \in Users : Prune(UserAttempts(u), Minute) = UserAttempts(u)
         /\ \A i \in Ips : Prune(IpAttempts(i), Minute) = IpAttempts(i)
         /\ \A p \in Principals : Prune(Failures(p), FailWindow) = Failures(p)
BY Types, Constants, PrunedTwice DEF IInv, UserAttempts, IpAttempts, Failures, Prune

LEMMA PrunedNoted ==
  ASSUME IInv
  PROVE  /\ \A u \in Users :
              Prune(Append(UserAttempts(u), now), Minute) = Append(UserAttempts(u), now)
         /\ \A i \in Ips :
              Prune(Append(IpAttempts(i), now), Minute) = Append(IpAttempts(i), now)
         /\ \A p \in Principals :
              Prune(Append(Failures(p), now), FailWindow) = Append(Failures(p), now)
BY Types, Constants, PrunedAppend DEF IInv, UserAttempts, IpAttempts, Failures, Prune

LEMMA Durations ==
  \A n \in Nat : BanDuration(n) \in Nat
<1> SUFFICES ASSUME NEW n \in Nat PROVE BanDuration(n) \in Nat
  OBVIOUS
<1>1. ASSUME NEW k \in Nat PROVE k * BanStep \in Nat
  BY Constants
<1>2. n >= BanFrom => n - BanFrom + 1 \in Nat
  BY Constants
<1> HIDE DEF BanDuration
<1> QED
  BY <1>1, <1>2, Constants DEF BanDuration

-----------------------------------------------------------------------------
(* What a call adds to the history.                                        *)

LEMMA CheckNoted ==
  ASSUME TypeOK, NEW p \in Principals, NoteCheck(p[1], p[2])
  PROVE  /\ checked' \in [Counted -> Seq(Nat)]
         /\ checked'[p[1]] = Append(checked[p[1]], now)
         /\ p[2] # NoIp => checked'[p[2]] = Append(checked[p[2]], now)
         /\ \A x \in Counted : x \notin {p[1], p[2]} => checked'[x] = checked[x]
<1>1. checked \in [Counted -> Seq(Nat)] /\ now \in Nat
  BY Types DEF TypeOK
<1>2. checked' = [x \in Counted |-> IF x \in {p[1], p[2]} THEN Append(checked[x], now)
                                                          ELSE checked[x]]
  BY <1>1 DEF NoteCheck, Noted
<1>3. \A x \in Counted : checked[x] \in Seq(Nat) /\ Append(checked[x], now) \in Seq(Nat)
  BY <1>1
<1> QED
  BY <1>2, <1>3, Principal

LEMMA FailureNoted ==
  ASSUME TypeOK, NEW p \in Principals, NoteFailure(<<p[1], p[2]>>)
  PROVE  /\ failed' \in [Principals -> Seq(Nat)] /\ owed' \in [Principals -> Nat]
         /\ failed'[p] = Append(failed[p], now)
         /\ owed'[p] = now + BanDuration(Len(failed[p]) + 1)
         /\ \A x \in Principals : x # p => failed'[x] = failed[x] /\ owed'[x] = owed[x]
<1>1. /\ failed \in [Principals -> Seq(Nat)] /\ owed \in [Principals -> Nat]
      /\ now \in Nat
  BY Types DEF TypeOK
<1>2. NoteFailure(p)
  BY Principal, Zenon
<1>3. /\ failed' = [x \in Principals |-> IF x \in {p} THEN Append(failed[x], now)
                                                      ELSE failed[x]]
      /\ owed' = [owed EXCEPT ![p] = now + BanDuration(Len(failed[p]) + 1)]
  BY <1>1, <1>2 DEF NoteFailure, Noted
<1>4. \A x \in Principals : failed[x] \in Seq(Nat) /\ Append(failed[x], now) \in Seq(Nat)
  BY <1>1
<1>5. now + BanDuration(Len(failed[p]) + 1) \in Nat
  <2>1. Len(failed[p]) + 1 \in Nat
    BY <1>4
  <2>2. BanDuration(Len(failed[p]) + 1) \in Nat
    BY <2>1, Durations
  <2> QED
    BY <1>1, <2>2
<1> QED
  BY <1>1, <1>3, <1>4, <1>5

LEMMA SuccessNoted ==
  ASSUME TypeOK, NEW p \in Principals, NoteSuccess(p[1], p[2])
  PROVE  /\ checked' \in [Counted -> Seq(Nat)]
         /\ checked'[p[1]] = <<>>
         /\ p[2] # NoIp => checked'[p[2]] = <<>>
         /\ \A x \in Counted : x \notin {p[1], p[2]} => checked'[x] = checked[x]
         /\ failed' \in [Principals -> Seq(Nat)] /\ owed' \in [Principals -> Nat]
         /\ failed'[p] = <<>> /\ owed'[p] = 0
         /\ \A x \in Principals : x # p => failed'[x] = failed[x] /\ owed'[x] = owed[x]
<1>1. /\ failed \in [Principals -> Seq(Nat)] /\ owed \in [Principals -> Nat]
      /\ checked \in [Counted -> Seq(Nat)] /\ <<>> \in Seq(Nat)
  BY DEF TypeOK
<1>2. p = <<p[1], p[2]>>
  BY Principal
<1>3. /\ checked' = [x \in Counted |-> IF x \in {p[1], p[2]} THEN <<>> ELSE checked[x]]
      /\ failed' = [x \in Principals |-> IF x \in {<<p[1], p[2]>>} THEN <<>> ELSE failed[x]]
      /\ owed' = [owed EXCEPT ![<<p[1], p[2]>>] = 0]
  BY <1>1 DEF NoteSuccess, Forgotten
<1>4. /\ failed' = [x \in Principals |-> IF x \in {p} THEN <<>> ELSE failed[x]]
      /\ owed' = [owed EXCEPT ![p] = 0]
  BY <1>2, <1>3, Zenon
<1>5. /\ checked' \in [Counted -> Seq(Nat)]
      /\ \A x \in Counted : checked'[x] = IF x \in {p[1], p[2]} THEN <<>> ELSE checked[x]
  <2>1. \A x \in Counted : checked[x] \in Seq(Nat)
    BY <1>1
  <2> QED
    BY <1>1, <1>3, <2>1
<1>6. /\ failed' \in [Principals -> Seq(Nat)] /\ failed'[p] = <<>>
      /\ \A x \in Principals : x # p => failed'[x] = failed[x]
  <2>1. \A x \in Principals : failed[x] \in Seq(Nat)
    BY <1>1
  <2> QED
    BY <1>1, <1>4, <2>1
<1>7. /\ owed' \in [Principals -> Nat] /\ owed'[p] = 0
      /\ \A x \in Principals : x # p => owed'[x] = owed[x]
  BY <1>1, <1>4
<1>8. checked'[p[1]] = <<>> /\ (p[2] # NoIp => checked'[p[2]] = <<>>)
  BY <1>5, Principal
<1>9. \A x \in Counted : x \notin {p[1], p[2]} => checked'[x] = checked[x]
  BY <1>5
<1> QED
  BY <1>5, <1>6, <1>7, <1>8, <1>9

-----------------------------------------------------------------------------
(* The calls.                                                              *)

\* What an attempt has to leave behind.
Attempted ==
  /\ userQ' \in [Users -> Seq(Nat)] /\ ipQ' \in [Ips -> Seq(Nat)]
  /\ fails' \in [Principals -> Seq(Nat)] /\ until' \in [Principals -> Nat]
  /\ checked' \in [Counted -> Seq(Nat)]
  /\ failed' \in [Principals -> Seq(Nat)] /\ owed' \in [Principals -> Nat]
  /\ InLimits' /\ ChecksAgree' /\ FailuresAgree' /\ BansFollowMatrix'

LEMMA LimitsOfPrincipal ==
  ASSUME IInv, NEW p \in Principals
  PROVE  /\ UserAttempts(p[1]) \in Seq(Nat) /\ Len(UserAttempts(p[1])) <= UserMax
         /\ checked[p[1]] = UserAttempts(p[1])
         /\ p[2] # NoIp =>
              /\ IpAttempts(p[2]) \in Seq(Nat) /\ Len(IpAttempts(p[2])) <= IpMax
              /\ checked[p[2]] = IpAttempts(p[2])
              /\ ipQ[p[2]] \in Seq(Nat) /\ Len(ipQ[p[2]]) <= IpMax
         /\ Failures(p) \in Seq(Nat) /\ failed[p] = Failures(p)
         /\ now \in Nat /\ until[p] \in Nat /\ owed[p] \in Nat
<1>1. TypeOK /\ InLimits /\ ChecksAgree /\ FailuresAgree
  BY DEF IInv
<1>2. p[1] \in Users /\ (p[2] # NoIp => p[2] \in Ips)
  BY Principal
<1>3. Len(userQ[p[1]]) <= UserMax /\ (p[2] # NoIp => Len(ipQ[p[2]]) <= IpMax)
  BY <1>1, <1>2 DEF InLimits
<1>4. /\ Len(UserAttempts(p[1])) \in Nat /\ Len(userQ[p[1]]) \in Nat
      /\ p[2] # NoIp => Len(IpAttempts(p[2])) \in Nat /\ Len(ipQ[p[2]]) \in Nat
  BY <1>1, <1>2, Types
<1>5. Len(UserAttempts(p[1])) <= UserMax
  BY <1>1, <1>2, <1>3, <1>4, Types, Constants
<1>6. p[2] # NoIp => Len(IpAttempts(p[2])) <= IpMax
  BY <1>1, <1>2, <1>3, <1>4, Types, Constants
<1> QED
  BY <1>1, <1>2, <1>3, <1>5, <1>6, Types DEF ChecksAgree, FailuresAgree

\* The history is as it was, an expired ban is lifted.
LEMMA LiftedStep ==
  ASSUME IInv, NEW p \in Principals, ~Banned(<<p[1], p[2]>>), now' = now,
         BanLifted(<<p[1], p[2]>>), UNCHANGED <<failed, owed>>
  PROVE  /\ fails' \in [Principals -> Seq(Nat)] /\ until' \in [Principals -> Nat]
         /\ FailuresAgree' /\ BansFollowMatrix'
<1>1. p = <<p[1], p[2]>>
  BY Principal
<1>2. ~(now < until[p])
  BY <1>1 DEF Banned
<1>3. SetBan(<<p[1], p[2]>>, Failures(p), 0)
  BY <1>1, Zenon DEF BanLifted
<1>4. ~(now < owed[p])
  BY <1>2 DEF IInv, BansFollowMatrix
<1>5. failed' \in [Principals -> Seq(Nat)] /\ owed' \in [Principals -> Nat]
  BY DEF IInv, TypeOK
<1>6. failed'[p] = Prune(Failures(p), FailWindow)
  BY LimitsOfPrincipal, PrunedAgain
<1> QED
  BY <1>3, <1>4, <1>5, <1>6, LimitsOfPrincipal, BansStep

\* Windows that are only pruned.
LEMMA PrunedStep ==
  ASSUME IInv, NEW p \in Principals, now' = now, UNCHANGED checked,
         NEW iq, p[2] # NoIp => iq \in {ipQ[p[2]], IpAttempts(p[2])},
         SetAttempts(p[1], p[2], UserAttempts(p[1]), IF p[2] = NoIp THEN <<>> ELSE iq)
  PROVE  /\ userQ' \in [Users -> Seq(Nat)] /\ ipQ' \in [Ips -> Seq(Nat)]
         /\ InLimits' /\ ChecksAgree'
<1> DEFINE i == IF p[2] = NoIp THEN <<>> ELSE iq
<1>1. i \in Seq(Nat) /\ (p[2] # NoIp => Len(i) <= IpMax)
  BY LimitsOfPrincipal
<1>2. checked'[p[1]] = Prune(UserAttempts(p[1]), Minute)
  BY LimitsOfPrincipal, PrunedAgain, Principal
<1>3. p[2] # NoIp => checked'[p[2]] = Prune(i, Minute)
  BY LimitsOfPrincipal, PrunedAgain, Principal DEF IpAttempts
<1>4. checked' \in [Counted -> Seq(Nat)]
  BY DEF IInv, TypeOK
<1> HIDE DEF i
<1>5. SetAttempts(p[1], p[2], UserAttempts(p[1]), i)
  BY DEF i
<1> QED
  BY <1>1, <1>2, <1>3, <1>4, <1>5, LimitsOfPrincipal, WindowsStep

LEMMA RefuseStep ==
  ASSUME IInv, NEW p \in Principals, Refuse(p[1], p[2])
  PROVE  Attempted
<1>1. p = <<p[1], p[2]>>
  BY Principal
<1>2. now' = now /\ checked' = checked /\ UNCHANGED <<failed, owed>>
  BY DEF Refuse, history
<1>3. /\ checked' \in [Counted -> Seq(Nat)]
      /\ failed' \in [Principals -> Seq(Nat)] /\ owed' \in [Principals -> Nat]
  BY <1>2 DEF IInv, TypeOK
<1>4. CASE Banned(<<p[1], p[2]>>)
  <2>1. /\ SetBan(<<p[1], p[2]>>, Failures(p), until[p])
        /\ UNCHANGED <<userQ, ipQ>>
    BY <1>1, <1>4, Zenon DEF Refuse
  <2>2. /\ userQ' \in [Users -> Seq(Nat)] /\ ipQ' \in [Ips -> Seq(Nat)]
        /\ InLimits' /\ ChecksAgree'
    BY <1>2, <2>1
    DEF IInv, TypeOK, InLimits, ChecksAgree, UserAttempts, IpAttempts, Prune
  <2>3. failed'[p] = Prune(Failures(p), FailWindow)
    BY <1>2, LimitsOfPrincipal, PrunedAgain
  <2>4. now < owed'[p] => until[p] = owed'[p]
    BY <1>2 DEF IInv, BansFollowMatrix
  <2>5. /\ fails' \in [Principals -> Seq(Nat)] /\ until' \in [Principals -> Nat]
        /\ FailuresAgree' /\ BansFollowMatrix'
    BY <1>2, <1>3, <2>1, <2>3, <2>4, LimitsOfPrincipal, BansStep
  <2> QED
    BY <1>3, <2>2, <2>5 DEF Attempted
<1>5. CASE ~Banned(<<p[1], p[2]>>)
  <2> DEFINE iq == IF Len(UserAttempts(p[1])) >= UserMax THEN ipQ[p[2]]
                   ELSE IpAttempts(p[2])
  <2>1. /\ BanLifted(<<p[1], p[2]>>)
        /\ SetAttempts(p[1], p[2], UserAttempts(p[1]), IF p[2] = NoIp THEN <<>> ELSE iq)
    BY <1>5, Zenon DEF Refuse
  <2>2. iq \in {ipQ[p[2]], IpAttempts(p[2])}
    OBVIOUS
  <2> HIDE DEF iq
  <2>3. /\ userQ' \in [Users -> Seq(Nat)] /\ ipQ' \in [Ips -> Seq(Nat)]
        /\ InLimits' /\ ChecksAgree'
    BY <1>2, <2>1, <2>2, PrunedStep
  <2>4. /\ fails' \in [Principals -> Seq(Nat)] /\ until' \in [Principals -> Nat]
        /\ FailuresAgree' /\ BansFollowMatrix'
    BY <1>2, <1>5, <2>1, LiftedStep
  <2> QED
    BY <1>3, <2>3, <2>4 DEF Attempted
<1> QED
  BY <1>4, <1>5

\* An admitted attempt is not the one too many.
LEMMA AdmittedRoom ==
  ASSUME IInv, NEW p \in Principals, Admitted(p[1], p[2])
  PROVE  /\ Append(UserAttempts(p[1]), now) \in Seq(Nat)
         /\ Len(Append(UserAttempts(p[1]), now)) <= UserMax
         /\ p[2] # NoIp => /\ Append(IpAttempts(p[2]), now) \in Seq(Nat)
                           /\ Len(Append(IpAttempts(p[2]), now)) <= IpMax
         /\ ~Banned(<<p[1], p[2]>>)
<1>1. /\ ~Banned(<<p[1], p[2]>>)
      /\ Len(UserAttempts(p[1])) < UserMax
      /\ p[2] # NoIp => Len(IpAttempts(p[2])) < IpMax
  BY DEF Admitted
<1> QED
  BY <1>1, LimitsOfPrincipal, Constants

\* An attempt that stays counted.
LEMMA CountStep ==
  ASSUME IInv, NEW p \in Principals, now' = now,
         Admitted(p[1], p[2]), Count(p[1], p[2]), NoteCheck(p[1], p[2])
  PROVE  /\ userQ' \in [Users -> Seq(Nat)] /\ ipQ' \in [Ips -> Seq(Nat)]
         /\ checked' \in [Counted -> Seq(Nat)]
         /\ InLimits' /\ ChecksAgree'
<1> DEFINE uq == Append(UserAttempts(p[1]), now)
           iq == IF p[2] = NoIp THEN <<>> ELSE Append(IpAttempts(p[2]), now)
<1>1. /\ uq \in Seq(Nat) /\ Len(uq) <= UserMax
      /\ iq \in Seq(Nat) /\ (p[2] # NoIp => Len(iq) <= IpMax)
  <2>1. uq \in Seq(Nat) /\ Len(uq) <= UserMax
    BY AdmittedRoom
  <2>2. CASE p[2] = NoIp
    BY <2>1, <2>2
  <2>3. CASE p[2] # NoIp
    <3>1. iq = Append(IpAttempts(p[2]), now)
      BY <2>3
    <3> HIDE DEF iq
    <3> QED
      BY <2>1, <2>3, <3>1, AdmittedRoom
  <2> QED
    BY <2>2, <2>3
<1>2. /\ checked' \in [Counted -> Seq(Nat)]
      /\ checked'[p[1]] = Append(checked[p[1]], now)
      /\ p[2] # NoIp => checked'[p[2]] = Append(checked[p[2]], now)
      /\ \A x \in Counted : x \notin {p[1], p[2]} => checked'[x] = checked[x]
  BY CheckNoted DEF IInv
<1>3. checked'[p[1]] = Prune(uq, Minute)
  BY <1>2, LimitsOfPrincipal, PrunedNoted, Principal
<1>4. p[2] # NoIp => checked'[p[2]] = Prune(iq, Minute)
  BY <1>2, LimitsOfPrincipal, PrunedNoted, Principal
<1>5. SetAttempts(p[1], p[2], uq, iq)
  BY DEF Count
<1> HIDE DEF uq, iq
<1> QED
  BY <1>1, <1>2, <1>3, <1>4, <1>5, WindowsStep

LEMMA FailStep ==
  ASSUME IInv, NEW p \in Principals, Fail(p[1], p[2])
  PROVE  Attempted
<1>1. p = <<p[1], p[2]>>
  BY Principal
<1>2. /\ now' = now /\ Admitted(p[1], p[2]) /\ Count(p[1], p[2])
      /\ NoteCheck(p[1], p[2])
      /\ RecordAuthFailure(<<p[1], p[2]>>) /\ NoteFailure(<<p[1], p[2]>>)
  BY DEF Fail
<1>3. /\ userQ' \in [Users -> Seq(Nat)] /\ ipQ' \in [Ips -> Seq(Nat)]
      /\ checked' \in [Counted -> Seq(Nat)]
      /\ InLimits' /\ ChecksAgree'
  BY <1>2, CountStep
<1>4. /\ failed' \in [Principals -> Seq(Nat)] /\ owed' \in [Principals -> Nat]
      /\ failed'[p] = Append(failed[p], now)
      /\ owed'[p] = now + BanDuration(Len(failed[p]) + 1)
      /\ \A x \in Principals : x # p => failed'[x] = failed[x] /\ owed'[x] = owed[x]
  BY <1>2, FailureNoted DEF IInv
<1> DEFINE f == Append(Failures(p), now)
           n == Len(f)
           t == IF n < BanFrom THEN 0 ELSE now + BanDuration(n)
<1>5. f \in Seq(Nat) /\ n = Len(failed[p]) + 1 /\ n \in Nat
  BY LimitsOfPrincipal
<1>6. failed'[p] = Prune(f, FailWindow)
  BY <1>4, LimitsOfPrincipal, PrunedNoted
<1>7. SetBan(<<p[1], p[2]>>, f, t)
  BY <1>1, <1>2, Zenon DEF RecordAuthFailure
<1> HIDE DEF f
<1>8. n < BanFrom => BanDuration(n) = 0
  BY DEF BanDuration
<1>9. t \in Nat
  <2>1. BanDuration(n) \in Nat
    BY <1>5, Durations
  <2>2. now \in Nat
    BY LimitsOfPrincipal
  <2> QED
    BY <2>1, <2>2
<1>10. now < owed'[p] => t = owed'[p]
  BY <1>4, <1>5, <1>8, LimitsOfPrincipal
<1> HIDE DEF t
<1>11. /\ fails' \in [Principals -> Seq(Nat)] /\ until' \in [Principals -> Nat]
       /\ FailuresAgree' /\ BansFollowMatrix'
  BY <1>2, <1>4, <1>5, <1>6, <1>7, <1>9, <1>10, BansStep
<1> QED
  BY <1>3, <1>4, <1>11 DEF Attempted

\* A success forgets the windows and the history together.
LEMMA ClearedStep ==
  ASSUME IInv, NEW p \in Principals, now' = now,
         ClearThrottle(p[1], p[2]), NoteSuccess(p[1], p[2])
  PROVE  Attempted
<1>1. /\ checked' \in [Counted -> Seq(Nat)]
      /\ checked'[p[1]] = <<>>
      /\ p[2] # NoIp => checked'[p[2]] = <<>>
      /\ \A x \in Counted : x \notin {p[1], p[2]} => checked'[x] = checked[x]
  BY SuccessNoted DEF IInv
<1>2. /\ failed' \in [Principals -> Seq(Nat)] /\ owed' \in [Principals -> Nat]
      /\ failed'[p] = <<>> /\ owed'[p] = 0
      /\ \A x \in Principals : x # p => failed'[x] = failed[x] /\ owed'[x] = owed[x]
  BY SuccessNoted DEF IInv
<1>3. /\ SetAttempts(p[1], p[2], <<>>, <<>>)
      /\ SetBan(<<p[1], p[2]>>, <<>>, 0)
  BY DEF ClearThrottle
<1>4. /\ <<>> \in Seq(Nat) /\ Len(<<>>) <= UserMax /\ Len(<<>>) <= IpMax
      /\ 0 \in Nat /\ ~(now < 0)
  BY Constants, LimitsOfPrincipal
<1>5. Prune(<<>>, Minute) = <<>> /\ Prune(<<>>, FailWindow) = <<>>
  BY PrunedEmpty DEF Prune
<1>6. /\ userQ' \in [Users -> Seq(Nat)] /\ ipQ' \in [Ips -> Seq(Nat)]
      /\ InLimits' /\ ChecksAgree'
  BY <1>1, <1>3, <1>4, <1>5, WindowsStep
<1>7. /\ fails' \in [Principals -> Seq(Nat)] /\ until' \in [Principals -> Nat]
      /\ FailuresAgree' /\ BansFollowMatrix'
  BY <1>2, <1>3, <1>4, <1>5, BansStep
<1> QED
  BY <1>1, <1>2, <1>6, <1>7 DEF Attempted

LEMMA NoSessionStep ==
  ASSUME IInv, NEW p \in Principals, NoSession(p[1], p[2])
  PROVE  Attempted
<1>1. /\ now' = now /\ UNCHANGED checked /\ UNCHANGED <<failed, owed>>
      /\ BanLifted(<<p[1], p[2]>>) /\ ~Banned(<<p[1], p[2]>>)
      /\ SetAttempts(p[1], p[2], UserAttempts(p[1]),
                     IF p[2] = NoIp THEN <<>> ELSE IpAttempts(p[2]))
  BY DEF NoSession, Uncount, Admitted, history
<1>2. /\ checked' \in [Counted -> Seq(Nat)]
      /\ failed' \in [Principals -> Seq(Nat)] /\ owed' \in [Principals -> Nat]
  BY <1>1 DEF IInv, TypeOK
<1>3. /\ userQ' \in [Users -> Seq(Nat)] /\ ipQ' \in [Ips -> Seq(Nat)]
      /\ InLimits' /\ ChecksAgree'
  BY <1>1, PrunedStep
<1>4. /\ fails' \in [Principals -> Seq(Nat)] /\ until' \in [Principals -> Nat]
      /\ FailuresAgree' /\ BansFollowMatrix'
  BY <1>1, LiftedStep
<1> QED
  BY <1>2, <1>3, <1>4 DEF Attempted

LEMMA ResetNotStoredStep ==
  ASSUME IInv, NEW p \in Principals, ResetNotStored(p[1], p[2])
  PROVE  Attempted
<1>1. /\ now' = now /\ UNCHANGED <<failed, owed>>
      /\ Admitted(p[1], p[2]) /\ Count(p[1], p[2]) /\ NoteCheck(p[1], p[2])
      /\ BanLifted(<<p[1], p[2]>>) /\ ~Banned(<<p[1], p[2]>>)
  BY DEF ResetNotStored, Admitted
<1>2. failed' \in [Principals -> Seq(Nat)] /\ owed' \in [Principals -> Nat]
  BY <1>1 DEF IInv, TypeOK
<1> QED
  BY <1>1, <1>2, CountStep, LiftedStep DEF Attempted

-----------------------------------------------------------------------------
(* The table of sessions and the clock.                                    *)

\* Entries go, and one comes only while there is room.
TableKept ==
  /\ sessions' \in [Sids -> Session \cup {None}]
  /\ IsFiniteSet(Taken') /\ Cardinality(Taken') <= MaxSessions

LEMMA EntriesGo ==
  ASSUME IInv, sessions' \in [Sids -> Session \cup {None}],
         \A s \in Sids : sessions'[s] \in {sessions[s], None}
  PROVE  TableKept
<1>1. Taken' \in SUBSET Taken
  BY DEF Taken
<1>2. /\ IsFiniteSet(Taken')
      /\ Cardinality(Taken') <= Cardinality(Taken)
  BY <1>1, FS_Subset DEF IInv
<1>3. Cardinality(Taken) \in Nat /\ Cardinality(Taken') \in Nat
  BY <1>2, FS_CardinalityType DEF IInv
<1> QED
  BY <1>2, <1>3, Constants DEF IInv, TableKept

LEMMA TableUnchanged ==
  ASSUME IInv, sessions' = sessions
  PROVE  TableKept
BY DEF IInv, TypeOK, TableKept, Taken

LEMMA LoginTable ==
  ASSUME IInv, NEW p \in Principals, NEW s \in Sids, Login(p[1], p[2], s)
  PROVE  TableKept
<1> DEFINE new == [user |-> p[1], expires |-> now + Ttl]
<1>1. sessions \in [Sids -> Session \cup {None}]
  BY DEF IInv, TypeOK
<1>2. new \in Session
  BY Principal, Constants, LimitsOfPrincipal DEF Session
<1>3. sessions' = [sessions EXCEPT ![s] = new] /\ ~Full
  BY DEF Login
<1> HIDE DEF new
<1>4. sessions' \in [Sids -> Session \cup {None}]
  BY <1>1, <1>2, <1>3
<1>5. Taken' \in SUBSET (Taken \cup {s})
  BY <1>1, <1>3 DEF Taken
<1>6. IsFiniteSet(Taken) /\ ~(Cardinality(Taken) >= MaxSessions)
  BY <1>3 DEF IInv, Full, Taken
<1>7. /\ IsFiniteSet(Taken \cup {s})
      /\ Cardinality(Taken \cup {s}) <= Cardinality(Taken) + 1
      /\ Cardinality(Taken) \in Nat /\ Cardinality(Taken \cup {s}) \in Nat
  <2>1. /\ IsFiniteSet(Taken \cup {s})
        /\ Cardinality(Taken \cup {s}) =
             IF s \in Taken THEN Cardinality(Taken) ELSE Cardinality(Taken) + 1
    BY <1>6, FS_AddElement
  <2>2. Cardinality(Taken) \in Nat
    BY <1>6, FS_CardinalityType
  <2> QED
    BY <2>1, <2>2
<1>8. /\ IsFiniteSet(Taken')
      /\ Cardinality(Taken') <= Cardinality(Taken \cup {s})
  BY <1>5, <1>7, FS_Subset
<1>9. Cardinality(Taken') \in Nat
  BY <1>8, FS_CardinalityType
<1> QED
  BY <1>4, <1>6, <1>7, <1>8, <1>9, Constants DEF TableKept

LEMMA AttemptKeeps ==
  ASSUME IInv, Attempted, TableKept, now' = now
  PROVE  IInv'
<1>1. TypeOK'
  BY DEF IInv, TypeOK, Attempted, TableKept
<1> QED
  BY <1>1 DEF IInv, Attempted, TableKept

LEMMA SessionCallKeeps ==
  ASSUME IInv, TableKept, UNCHANGED <<now, limits, history>>
  PROVE  IInv'
<1>1. /\ now' = now /\ userQ' = userQ /\ ipQ' = ipQ /\ fails' = fails /\ until' = until
      /\ checked' = checked /\ failed' = failed /\ owed' = owed
  BY DEF limits, history
<1>2. TypeOK'
  BY <1>1 DEF IInv, TypeOK, TableKept
<1>3. InLimits' /\ ChecksAgree' /\ FailuresAgree' /\ BansFollowMatrix'
  BY <1>1 DEF IInv, InLimits, ChecksAgree, FailuresAgree, BansFollowMatrix,
              UserAttempts, IpAttempts, Failures, Prune
<1> QED
  BY <1>2, <1>3 DEF IInv, TableKept

LEMMA MetEntries ==
  ASSUME IInv, NEW S, sessions' = Met(S)
  PROVE  TableKept
<1>1. sessions \in [Sids -> Session \cup {None}]
  BY DEF IInv, TypeOK
<1>2. /\ sessions' \in [Sids -> Session \cup {None}]
      /\ \A s \in Sids : sessions'[s] \in {sessions[s], None}
  BY <1>1 DEF Met
<1> QED
  BY <1>2, EntriesGo

LEMMA DestroyKeeps ==
  ASSUME IInv, NEW c \in Sids, NEW s \in Sids, DestroySession(c, s)
  PROVE  IInv'
<1>1. CASE sessions' = [sessions EXCEPT ![s] = None]
  <2>1. sessions \in [Sids -> Session \cup {None}]
    BY DEF IInv, TypeOK
  <2>2. /\ sessions' \in [Sids -> Session \cup {None}]
        /\ \A x \in Sids : sessions'[x] \in {sessions[x], None}
    BY <1>1, <2>1
  <2> QED
    BY <2>2, EntriesGo, SessionCallKeeps DEF DestroySession
<1>2. CASE sessions' = Met({c}) \/ sessions' = Met({s})
  BY <1>2, MetEntries, SessionCallKeeps DEF DestroySession
<1> QED
  BY <1>1, <1>2 DEF DestroySession

LEMMA ClearKeeps ==
  ASSUME IInv, ClearAllSessions
  PROVE  IInv'
<1>1. /\ sessions' \in [Sids -> Session \cup {None}]
      /\ \A s \in Sids : sessions'[s] \in {sessions[s], None}
  BY DEF ClearAllSessions
<1>2. TableKept
  BY <1>1, EntriesGo
<1>3. /\ \A u \in Users : userQ'[u] = <<>> /\ checked'[u] = <<>>
      /\ \A i \in Ips : ipQ'[i] = <<>> /\ checked'[i] = <<>>
      /\ \A p \in Principals : fails'[p] = <<>> /\ failed'[p] = <<>> /\ owed'[p] = 0
  BY DEF ClearAllSessions, Counted
<1>4. TypeOK'
  BY <1>1 DEF IInv, TypeOK, ClearAllSessions
<1>5. InLimits'
  BY <1>3, Constants DEF InLimits
<1>6. ChecksAgree' /\ FailuresAgree'
  BY <1>3, PrunedEmpty
  DEF ChecksAgree, FailuresAgree, UserAttempts, IpAttempts, Failures, Prune
<1>7. BansFollowMatrix'
  BY <1>3, <1>4, Types DEF BansFollowMatrix, TypeOK, ClearAllSessions, IInv
<1> QED
  BY <1>2, <1>4, <1>5, <1>6, <1>7 DEF IInv, TableKept

\* The history forgets at the tick what the windows forget when looked at.
LEMMA TickKeeps ==
  ASSUME IInv, Tick
  PROVE  IInv'
<1>1. /\ userQ' = userQ /\ ipQ' = ipQ /\ fails' = fails /\ until' = until
      /\ sessions' = sessions /\ owed' = owed
      /\ now' = now + 1 /\ now < MaxTime
      /\ checked' = [x \in Counted |-> Within(checked[x], Minute, now')]
      /\ failed' = [p \in Principals |-> Within(failed[p], FailWindow, now')]
  BY DEF Tick, limits
<1>2. TypeOK /\ InLimits /\ ChecksAgree /\ FailuresAgree /\ BansFollowMatrix
  BY DEF IInv
<1>3. now \in Nat /\ now' \in Nat /\ now <= now' /\ now' \in Times
  BY <1>1, <1>2, Types DEF TypeOK, Times
<1>4. /\ \A x \in Counted : Within(checked[x], Minute, now') \in Seq(Nat)
      /\ \A p \in Principals : Within(failed[p], FailWindow, now') \in Seq(Nat)
  BY <1>2, <1>3, Types, Constants, Pruned
<1>5. checked' \in [Counted -> Seq(Nat)] /\ failed' \in [Principals -> Seq(Nat)]
  BY <1>1, <1>4
<1>6. TypeOK'
  BY <1>1, <1>2, <1>3, <1>5 DEF TypeOK
<1>7. TableKept
  BY <1>1, TableUnchanged
<1>8. InLimits'
  BY <1>1, <1>2 DEF InLimits
<1>9. ASSUME NEW u \in Users
      PROVE  checked'[u] = UserAttempts(u)'
  <2>1. checked'[u] = Within(Within(userQ[u], Minute, now), Minute, now')
    BY <1>1, <1>2 DEF ChecksAgree, UserAttempts, Prune, Counted
  <2> QED
    BY <1>1, <1>2, <1>3, <2>1, Types, Constants, PrunedTwice DEF UserAttempts, Prune
<1>10. ASSUME NEW i \in Ips
       PROVE  checked'[i] = IpAttempts(i)'
  <2>1. checked'[i] = Within(Within(ipQ[i], Minute, now), Minute, now')
    BY <1>1, <1>2 DEF ChecksAgree, IpAttempts, Prune, Counted
  <2> QED
    BY <1>1, <1>2, <1>3, <2>1, Types, Constants, PrunedTwice DEF IpAttempts, Prune
<1>11. ASSUME NEW p \in Principals
       PROVE  failed'[p] = Failures(p)'
  <2>1. failed'[p] = Within(Within(fails[p], FailWindow, now), FailWindow, now')
    BY <1>1, <1>2 DEF FailuresAgree, Failures, Prune
  <2> QED
    BY <1>1, <1>2, <1>3, <2>1, Types, Constants, PrunedTwice DEF Failures, Prune
<1>12. BansFollowMatrix'
  <2>1. ASSUME NEW p \in Principals, now + 1 < owed[p]
        PROVE  until[p] = owed[p]
    BY <1>2, <1>3, <2>1, Types DEF BansFollowMatrix
  <2> QED
    BY <1>1, <2>1 DEF BansFollowMatrix
<1> QED
  BY <1>6, <1>7, <1>8, <1>9, <1>10, <1>11, <1>12
  DEF IInv, TableKept, ChecksAgree, FailuresAgree

LEMMA IInv_Next ==
  ASSUME IInv, [Next]_vars
  PROVE  IInv'
<1>1. ASSUME NEW p \in Principals, Refuse(p[1], p[2])
      PROVE  IInv'
  BY <1>1, RefuseStep, TableUnchanged, AttemptKeeps DEF Refuse
<1>2. ASSUME NEW p \in Principals, Fail(p[1], p[2])
      PROVE  IInv'
  BY <1>2, FailStep, TableUnchanged, AttemptKeeps DEF Fail
<1>3. ASSUME NEW p \in Principals, NoSession(p[1], p[2])
      PROVE  IInv'
  BY <1>3, NoSessionStep, TableUnchanged, AttemptKeeps DEF NoSession
<1>4. ASSUME NEW p \in Principals, ResetPassword(p[1], p[2])
      PROVE  IInv'
  BY <1>4, ClearedStep, TableUnchanged, AttemptKeeps DEF ResetPassword
<1>5. ASSUME NEW p \in Principals, ResetNotStored(p[1], p[2])
      PROVE  IInv'
  BY <1>5, ResetNotStoredStep, TableUnchanged, AttemptKeeps DEF ResetNotStored
<1>6. ASSUME NEW p \in Principals, NEW s \in Sids, Login(p[1], p[2], s)
      PROVE  IInv'
  BY <1>6, ClearedStep, LoginTable, AttemptKeeps DEF Login
<1>7. ASSUME NEW s \in Sids, VerifySession(s) \/ ChangeLocalPassword(s)
      PROVE  IInv'
  BY <1>7, MetEntries, SessionCallKeeps DEF VerifySession, ChangeLocalPassword
<1>8. CASE UNCHANGED vars
  BY <1>8, TableUnchanged, SessionCallKeeps DEF vars
<1> QED
  BY <1>1, <1>2, <1>3, <1>4, <1>5, <1>6, <1>7, <1>8,
     DestroyKeeps, ClearKeeps, TickKeeps DEF Next

-----------------------------------------------------------------------------
(* The theorems.                                                           *)

\* The windows that are pruned when a call looks at them agree at any time
\* with what happened, and the bans with the failures (IInv).
THEOREM Inductive == Spec => []IInv
<1> QED
  BY Init_IInv, IInv_Next, PTL DEF Spec

\* Types, and no window and not the table of sessions outgrows its limit
\* (WellFormed), whatever the limits are.
THEOREM WellFormedHolds == Spec => []WellFormed
<1>1. IInv => WellFormed
  BY DEF IInv, WellFormed, InLimits, Taken
<1> QED
  BY <1>1, Inductive, PTL

\* Within a minute no more credentials of a user, or from an address, are
\* checked by the calls that take an attempt slot than the limits say
\* (AttemptsLimited); ChangeLocalPassword takes none.
THEOREM AttemptsLimitedHolds == Spec => []AttemptsLimited
<1>1. IInv => AttemptsLimited
  <2> SUFFICES ASSUME IInv, NEW x \in Counted
               PROVE  Len(checked[x]) <= IF x \in Users THEN UserMax ELSE IpMax
    BY DEF AttemptsLimited
  <2>1. TypeOK /\ InLimits /\ ChecksAgree
    BY DEF IInv
  <2>2. CASE x \in Users
    <3>1. Len(checked[x]) <= Len(userQ[x]) /\ Len(userQ[x]) <= UserMax
      BY <2>1, <2>2, Types DEF ChecksAgree, InLimits
    <3>2. Len(checked[x]) \in Nat /\ Len(userQ[x]) \in Nat
      BY <2>1, <2>2, Types
    <3> QED
      BY <2>2, <3>1, <3>2, Constants
  <2>3. CASE x \notin Users
    <3>1. x \in Ips
      BY <2>3 DEF Counted
    <3>2. Len(checked[x]) <= Len(ipQ[x]) /\ Len(ipQ[x]) <= IpMax
      BY <2>1, <3>1, Types DEF ChecksAgree, InLimits
    <3>3. Len(checked[x]) \in Nat /\ Len(ipQ[x]) \in Nat
      BY <2>1, <3>1, Types
    <3> QED
      BY <2>3, <3>2, <3>3, Constants
  <2> QED
    BY <2>2, <2>3
<1> QED
  BY <1>1, Inductive, PTL

\* The ban of a principal is the one its failures call for
\* (BansFollowMatrix), for any thresholds and durations.
THEOREM BansFollowMatrixHolds == Spec => []BansFollowMatrix
<1>1. IInv => BansFollowMatrix
  BY DEF IInv
<1> QED
  BY <1>1, Inductive, PTL

\* A ban in force ends by time or with the whole state only (BanStands).
THEOREM BanStandsHolds == Spec => BanStands
<1> DEFINE Stands == \A p \in Principals : now < until[p] => until'[p] >= until[p]
<1>1. ASSUME IInv, Next, ~ClearAllSessions
      PROVE  Stands
  <2> SUFFICES ASSUME NEW b \in Principals, now < until[b]
               PROVE  until'[b] >= until[b]
    OBVIOUS
  <2>1. until \in [Principals -> Nat] /\ until[b] \in Nat
    BY <1>1 DEF IInv, TypeOK
  <2>2. CASE until' = until
    BY <2>1, <2>2
  <2>3. ASSUME NEW p \in Principals, NEW f, NEW t,
               SetBan(<<p[1], p[2]>>, f, t),
               ~Banned(<<p[1], p[2]>>) \/ t = until[p]
        PROVE  until'[b] >= until[b]
    <3>1. p = <<p[1], p[2]>>
      BY Principal
    <3>2. until' = [until EXCEPT ![p] = t]
      BY <2>3, <3>1, Zenon DEF SetBan
    <3>3. ~(now < until[p]) \/ t = until[p]
      BY <2>3, <3>1, Zenon DEF Banned
    <3>4. CASE b = p
      BY <2>1, <3>2, <3>3, <3>4
    <3>5. CASE b # p
      BY <2>1, <3>2, <3>5
    <3> QED
      BY <3>4, <3>5
  <2>4. ASSUME NEW p \in Principals, Refuse(p[1], p[2])
        PROVE  until'[b] >= until[b]
    <3>1. p = <<p[1], p[2]>>
      BY Principal
    <3>2. CASE Banned(<<p[1], p[2]>>)
      <4>1. SetBan(<<p[1], p[2]>>, Failures(p), until[p])
        BY <2>4, <3>1, <3>2, Zenon DEF Refuse
      <4> QED
        BY <2>3, <4>1
    <3>3. CASE ~Banned(<<p[1], p[2]>>)
      BY <2>3, <2>4, <3>3 DEF Refuse, BanLifted
    <3> QED
      BY <3>2, <3>3
  <2>5. ASSUME NEW p \in Principals,
               \/ Fail(p[1], p[2]) \/ NoSession(p[1], p[2])
               \/ ResetPassword(p[1], p[2]) \/ ResetNotStored(p[1], p[2])
               \/ \E s \in Sids : Login(p[1], p[2], s)
        PROVE  until'[b] >= until[b]
    <3>1. Admitted(p[1], p[2])
      BY <2>5 DEF Fail, NoSession, ResetPassword, ResetNotStored, Login
    <3>2. ~Banned(<<p[1], p[2]>>)
      BY <3>1 DEF Admitted
    <3>3. \E f, t : SetBan(<<p[1], p[2]>>, f, t)
      BY <2>5 DEF Fail, NoSession, ResetPassword, ResetNotStored, Login,
                  RecordAuthFailure, BanLifted, ClearThrottle
    <3> QED
      BY <2>3, <3>2, <3>3
  <2>6. CASE \/ \E s \in Sids : VerifySession(s) \/ ChangeLocalPassword(s)
             \/ \E c, s \in Sids : DestroySession(c, s)
             \/ Tick
    BY <2>2, <2>6 DEF VerifySession, ChangeLocalPassword, DestroySession, Tick, limits
  <2> QED
    BY <1>1, <2>4, <2>5, <2>6 DEF Next
<1>2. ASSUME IInv, [Next]_vars
      PROVE  [~ClearAllSessions => Stands]_vars
  BY <1>1, <1>2
<1> QED
  BY <1>2, Inductive, PTL DEF Spec, BanStands

=============================================================================

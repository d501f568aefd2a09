----------------------------- MODULE AuthSession -----------------------------
(***************************************************************************)
(* AuthSessionManager of MM1: the table of authenticated sessions, the     *)
(* sliding windows that limit attempts per user and per IP, and the bans   *)
(* that follow failures of one principal (a user at an IP).                *)
(*                                                                         *)
(* Every native call runs under the API mutex of JniBridge, so a call is   *)
(* one step: Auth, AuthWithLocalPassword (ConsumeAuthAttemptSlot, then     *)
(* OnAuthIdentityCheckFailed or FinalizeAuthSuccess) and                   *)
(* ResetLocalPasswordWithRecovery (ClearAuthThrottleSuccess), which take   *)
(* an attempt slot, and ChangeLocalPassword, which takes none.  Whether a  *)
(* token, password or recovery secret is right is the environment's        *)
(* choice.  Everything is lazy: nothing is pruned or expires by itself,    *)
(* only when a call looks at it.                                           *)
(*                                                                         *)
(* Time is counted in ticks and does not go back; the system clock that    *)
(* stamps attempts and the steady clock that ends sessions advance         *)
(* together.                                                               *)
(***************************************************************************)
EXTENDS Integers, Sequences, FiniteSets

CONSTANTS
  Users,
  Ips,          \* client addresses
  NoIp,         \* Auth without clientIp: no limit per address
  Principals,   \* the users and where each of them logs in from
  Sids,         \* session ids, 16 random bytes
  MaxSessions,  \* kMaxActiveSessions
  Ttl,          \* kDefaultSessionTtl
  UserMax,      \* kUserAuthMaxPerMin
  IpMax,        \* kIpAuthMaxPerMin
  Minute,       \* kUserAuthWindowMs = kIpAuthWindowMs
  FailWindow,   \* kBanFailWindowMs
  BanFrom,      \* failures that start a ban: 5
  LongBanFrom,  \* failures that start the longest ban: 11
  BanStep,      \* 15 minutes
  LongBan,      \* 24 hours
  MaxTime,      \* bound of the model: the last tick
  None

ASSUME LimitsAssumption ==
  /\ {MaxSessions, Ttl, UserMax, IpMax, BanFrom, LongBanFrom} \subseteq Nat \ {0}
  /\ {Minute, FailWindow, BanStep, LongBan, MaxTime} \subseteq Nat
ASSUME NamesDistinct == NoIp \notin Ips \cup Users /\ Users \cap Ips = {}
ASSUME PrincipalsAssumption == Principals \subseteq Users \X (Ips \cup {NoIp})
ASSUME NoneAssumption == None \notin Users

VARIABLES
  now,
  sessions,  \* sessions[s]: [user, expires], or None
  userQ,     \* authAttemptsByUser: times, oldest first
  ipQ,       \* authAttemptsByIp
  fails,     \* failTimesWithinWindow of a principal
  until,     \* bannedUntilMs, 0 for none
  checked,   \* history: checks with a slot in the last minute, since a success
  failed,    \* history: failures of the last FailWindow, since a success
  owed       \* history: the end of the ban the last failure calls for

limits == <<userQ, ipQ, fails, until>>
history == <<checked, failed, owed>>
vars == <<now, sessions, limits, history>>

Times == 0..MaxTime
Session == [user : Users, expires : Nat]

\* Whose checks a window counts: a user, or the users of an address.
Counted == Users \cup Ips

TypeOK ==
  /\ now \in Times
  /\ sessions \in [Sids -> Session \cup {None}]
  /\ userQ \in [Users -> Seq(Nat)]
  /\ ipQ \in [Ips -> Seq(Nat)]
  /\ fails \in [Principals -> Seq(Nat)]
  /\ until \in [Principals -> Nat]
  /\ checked \in [Counted -> Seq(Nat)]
  /\ failed \in [Principals -> Seq(Nat)]
  /\ owed \in [Principals -> Nat]

Init ==
  /\ now = 0
  /\ sessions = [s \in Sids |-> None]
  /\ userQ = [u \in Users |-> <<>>]
  /\ ipQ = [i \in Ips |-> <<>>]
  /\ fails = [p \in Principals |-> <<>>]
  /\ until = [p \in Principals |-> 0]
  /\ checked = [x \in Counted |-> <<>>]
  /\ failed = [p \in Principals |-> <<>>]
  /\ owed = [p \in Principals |-> 0]

-----------------------------------------------------------------------------
(* Windows and bans.                                                       *)

\* PruneDequeOlderThan at time t: drop from the front until the first time
\* that is inside the window.
Within(q, window, t) ==
  LET kept == {i \in DOMAIN q : t - q[i] <= window}
  IN  IF kept = {} THEN <<>>
      ELSE SubSeq(q, CHOOSE i \in kept : \A j \in kept : i <= j, Len(q))

PruneEarly(q, window) == Within(q, window - 1, now)
Prune(q, window) == Within(q, window, now)

UserAttempts(u) == Prune(userQ[u], Minute)
IpAttempts(i) == Prune(ipQ[i], Minute)
Failures(p) == Prune(fails[p], FailWindow)

\* BanDurationMsForFailureCount
BanDuration(n) ==
  IF n < BanFrom THEN 0
  ELSE IF n < LongBanFrom THEN (n - BanFrom + 1) * BanStep
  ELSE LongBan

BannedNot(p) == FALSE
Banned(p) == now < until[p]

SetAttempts(u, i, uq, iq) ==
  /\ userQ' = [userQ EXCEPT ![u] = uq]
  /\ ipQ' = IF i = NoIp THEN ipQ ELSE [ipQ EXCEPT ![i] = iq]

SetBan(p, f, t) ==
  /\ fails' = [fails EXCEPT ![p] = f]
  /\ until' = [until EXCEPT ![p] = t]

\* An expired ban is reset before the windows are looked at.
BanLifted(p) == SetBan(p, Failures(p), 0)

\* The ban, the user's window and the address's window let the attempt in.
Admitted(u, i) ==
  /\ ~Banned(<<u, i>>)
  /\ Len(UserAttempts(u)) < UserMax
  /\ i # NoIp => Len(IpAttempts(i)) < IpMax

\* The attempt is counted before its credential is checked.
Count(u, i) ==
  SetAttempts(u, i, Append(UserAttempts(u), now),
              IF i = NoIp THEN <<>> ELSE Append(IpAttempts(i), now))

\* ... and the count is taken back when the server is at its capacity.
Uncount(u, i) ==
  SetAttempts(u, i, UserAttempts(u), IF i = NoIp THEN <<>> ELSE IpAttempts(i))

\* RecordAuthFailure: a failure below the threshold leaves bannedUntilMs.
RecordBeforeCount(p) ==
  LET n == Len(Failures(p))
  IN  SetBan(p, Append(Failures(p), now), IF n < BanFrom THEN 0 ELSE now + BanDuration(n))
RecordAuthFailure(p) ==
  LET f == Append(Failures(p), now)
      n == Len(f)
  IN  SetBan(p, f, IF n < BanFrom THEN 0 ELSE now + BanDuration(n))

\* A success forgets the attempts of the user and of the address, and the
\* failures of the principal.
ClearThrottle(u, i) ==
  /\ SetAttempts(u, i, <<>>, <<>>)
  /\ SetBan(<<u, i>>, <<>>, 0)

-----------------------------------------------------------------------------
(* History: what happened, kept eagerly and per tick.                      *)

Forgotten(f, X) == [x \in DOMAIN f |-> IF x \in X THEN <<>> ELSE f[x]]
Noted(f, X) == [x \in DOMAIN f |-> IF x \in X THEN Append(f[x], now) ELSE f[x]]

NoteCheck(u, i) == checked' = Noted(checked, {u, i})

NoteFailure(p) ==
  /\ failed' = Noted(failed, {p})
  /\ owed' = [owed EXCEPT ![p] = now + BanDuration(Len(failed[p]) + 1)]

NoteSuccess(u, i) ==
  /\ checked' = Forgotten(checked, {u, i})
  /\ failed' = Forgotten(failed, {<<u, i>>})
  /\ owed' = [owed EXCEPT ![<<u, i>>] = 0]

-----------------------------------------------------------------------------
(* Auth, AuthWithLocalPassword, ResetLocalPasswordWithRecovery.            *)

\* The attempt is turned away: what was looked at on the way is pruned.
Refuse(u, i) ==
  LET p == <<u, i>>
      userFull == Len(UserAttempts(u)) >= UserMax
  IN  /\ ~Admitted(u, i)
      /\ \/ /\ Banned(p)
            /\ SetBan(p, Failures(p), until[p])
            /\ UNCHANGED <<userQ, ipQ>>
         \/ /\ ~Banned(p)
            /\ BanLifted(p)
            /\ SetAttempts(u, i, UserAttempts(u),
                           IF i = NoIp THEN <<>>
                           ELSE IF userFull THEN ipQ[i] ELSE IpAttempts(i))
      /\ UNCHANGED <<now, sessions, history>>

\* A wrong token, password or recovery secret.
Fail(u, i) ==
  /\ Admitted(u, i)
  /\ Count(u, i)
  /\ RecordAuthFailure(<<u, i>>)
  /\ NoteCheck(u, i)
  /\ NoteFailure(<<u, i>>)
  /\ UNCHANGED <<now, sessions>>

FullLate == Cardinality({s \in Sids : sessions[s] # None}) > MaxSessions
Full == Cardinality({s \in Sids : sessions[s] # None}) >= MaxSessions

\* The rest of Auth, FinalizeAuthSuccess: a session of seven days.
Login(u, i, s) ==
  /\ Admitted(u, i)
  /\ ~Full
  /\ sessions[s] = None   \* GenerateUniqueSessionId
  /\ sessions' = [sessions EXCEPT ![s] = [user |-> u, expires |-> now + Ttl]]
  /\ ClearThrottle(u, i)
  /\ NoteSuccess(u, i)
  /\ UNCHANGED now

\* The credential is right, but the table is full (expired sessions count
\* until somebody verifies them) or no random id could be had.
NoSession(u, i) ==
  /\ Admitted(u, i)
  /\ Uncount(u, i)
  /\ BanLifted(<<u, i>>)
  /\ UNCHANGED <<now, sessions, history>>

\* The recovery secret is right and the new password is stored.
ResetPassword(u, i) ==
  /\ Admitted(u, i)
  /\ ClearThrottle(u, i)
  /\ NoteSuccess(u, i)
  /\ UNCHANGED <<now, sessions>>

\* The recovery secret is right, but the new password cannot be stored.
ResetNotStored(u, i) ==
  /\ Admitted(u, i)
  /\ Count(u, i)
  /\ BanLifted(<<u, i>>)
  /\ NoteCheck(u, i)
  /\ UNCHANGED <<now, sessions, failed, owed>>

-----------------------------------------------------------------------------
(* Sessions.                                                               *)

Live(s) == sessions[s] # None /\ now < sessions[s].expires

\* VerifySession, TryGetSessionUserId: an expired entry goes when it is met.
Met(S) == [s \in Sids |-> IF s \in S /\ ~Live(s) THEN None ELSE sessions[s]]

VerifySession(s) ==
  /\ sessions[s] # None
  /\ sessions' = Met({s})
  /\ UNCHANGED <<now, limits, history>>

\* ChangeLocalPassword checks the old password of the user of session s, right
\* or wrong, and asks no window for it: the attempt is counted nowhere.
ChangeLocalPassword(s) ==
  /\ sessions[s] # None
  /\ sessions' = Met({s})
  /\ UNCHANGED <<now, limits, history>>

\* JniBridge::DestroySession: both ids must be of the same user.
DestroySession(c, s) ==
  /\ sessions[c] # None
  /\ sessions[s] # None
  /\ sessions' =
       IF ~Live(c) THEN Met({c})
       ELSE IF Live(s) /\ sessions[c].user = sessions[s].user
            THEN [sessions EXCEPT ![s] = None]
            ELSE Met({s})
  /\ UNCHANGED <<now, limits, history>>

\* ClearAllSessions (Cleanup, EmergencyWipe), or a restart of the process.
ClearAllSessions ==
  /\ sessions' = [s \in Sids |-> None]
  /\ userQ' = [u \in Users |-> <<>>]
  /\ ipQ' = [i \in Ips |-> <<>>]
  /\ fails' = [p \in Principals |-> <<>>]
  /\ until' = [p \in Principals |-> 0]
  /\ checked' = [x \in Counted |-> <<>>]
  /\ failed' = [p \in Principals |-> <<>>]
  /\ owed' = [p \in Principals |-> 0]
  /\ UNCHANGED now

\* A tick passes; only the history forgets by itself.
Tick ==
  /\ now < MaxTime
  /\ now' = now + 1
  /\ checked' = [x \in Counted |-> Within(checked[x], Minute, now')]
  /\ failed' = [p \in Principals |-> Within(failed[p], FailWindow, now')]
  /\ UNCHANGED <<sessions, limits, owed>>

Next ==
  \/ \E p \in Principals :
       \/ Refuse(p[1], p[2]) \/ Fail(p[1], p[2]) \/ NoSession(p[1], p[2])
       \/ ResetPassword(p[1], p[2]) \/ ResetNotStored(p[1], p[2])
       \/ \E s \in Sids : Login(p[1], p[2], s)
  \/ \E s \in Sids : VerifySession(s) \/ ChangeLocalPassword(s)
  \/ \E c, s \in Sids : DestroySession(c, s)
  \/ ClearAllSessions
  \/ Tick

Spec == Init /\ [][Next]_vars

-----------------------------------------------------------------------------
(* Properties.                                                             *)

(***************************************************************************)
(* Types, and every window and the table stay within their limits.         *)
(***************************************************************************)
WellFormed ==
  /\ TypeOK
  /\ \A u \in Users : Len(userQ[u]) <= UserMax
  /\ \A i \in Ips : Len(ipQ[i]) <= IpMax
  /\ Cardinality({s \in Sids : sessions[s] # None}) <= MaxSessions

(***************************************************************************)
(* Within a minute that no success interrupts, at most UserMax credentials *)
(* of a user and at most IpMax from an address are checked by the calls    *)
(* that take an attempt slot (Auth, AuthWithLocalPassword and              *)
(* ResetLocalPasswordWithRecovery), whichever of these calls, addresses    *)
(* and users they come through: the lazily pruned windows never forget an  *)
(* attempt too early.  The old passwords ChangeLocalPassword checks for    *)
(* the user of a live session are not among them: they have no limit.      *)
(***************************************************************************)
AttemptsLimited ==
  \A x \in Counted : Len(checked[x]) <= IF x \in Users THEN UserMax ELSE IpMax

(***************************************************************************)
(* Bans follow the documented matrix: the n-th failure of a principal      *)
(* within FailWindow, without a success in between, bans it from then on   *)
(* for the time of n, also when earlier bans have been served meanwhile.   *)
(***************************************************************************)
BansFollowMatrix == \A p \in Principals : now < owed[p] => until[p] = owed[p]

(***************************************************************************)
(* A ban in force is not shortened or lifted by anything but its end and   *)
(* the loss of the whole state: not by a right password, a password reset, *)
(* or a success of the user at another address.                            *)
(***************************************************************************)
BanStands ==
  [][~ClearAllSessions =>
       \A p \in Principals : now < until[p] => until'[p] >= until[p]]_vars

=============================================================================

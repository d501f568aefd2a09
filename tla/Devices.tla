------------------------------- MODULE Devices -------------------------------
(***************************************************************************)
(* The table mm1_device_sessions: at most two sessions per user, the       *)
(* earliest login makes room for a third.  A registration is two deletes   *)
(* and an insert without a transaction: any of them may fail, or the       *)
(* process be killed between two, and the caller is then told nothing of   *)
(* the session that was already kicked.  All times come from the callers.  *)
(* The device id is stored and never looked at.  A session id is what the  *)
(* caller says: nobody checks whose it is, and a registration takes it     *)
(* over from another user.                                                 *)
(***************************************************************************)
EXTENDS Tables

CONSTANTS
  Tokens,       \* the session ids the callers register
  MaxDevices,   \* 2
  IdleTimeout,  \* 30 min
  MaxFaults     \* bound of the model: failing or interrupted calls

\* What the calls and their replies say of a session
Told == [user : Users, active : Times]

ASSUME DevicesAssumption ==
  /\ MaxDevices \in Nat \ {0}
  /\ {IdleTimeout, MaxTime, MaxFaults} \subseteq Nat
  /\ None \notin Told

VARIABLES
  devices,  \* mm1_device_sessions, a set of rows
  told,     \* history: the sessions that exist by the calls and their replies
  torn,     \* history: tokens a failed or interrupted registration touched
  faults

deviceVars == <<devices, told, torn, faults>>

Row == [user : Users, token : Tokens, login : Times, active : Times]

DevicesInit ==
  /\ devices = {}
  /\ told = [s \in Tokens |-> None]
  /\ torn = {}
  /\ faults = 0

\* One more failing or interrupted call
Fault == faults < MaxFaults /\ faults' = faults + 1

RowsOf(u, rows) == {x \in rows : x.user = u}
TokensOf(rows) == {x.token : x \in rows}

-----------------------------------------------------------------------------
\* Mutant: the latest login makes room.
LatestKicked(own) ==
  {K \in SUBSET own :
     /\ Cardinality(own) < MaxDevices => K = {}
     /\ Cardinality(own) >= MaxDevices => Cardinality(own \ K) = MaxDevices - 1
     /\ \A x \in K, y \in own \ K : x.login >= y.login}

\* Mutant: the loop stops while the table is full.
KickedTooLate(own) ==
  {K \in SUBSET own :
     /\ Cardinality(own) <= MaxDevices => K = {}
     /\ Cardinality(own) > MaxDevices => Cardinality(own \ K) = MaxDevices
     /\ \A x \in K, y \in own \ K : x.login <= y.login}

\* The rows the loop deletes.  Equal logins are ordered by the token, which is
\* random.
Kicked(own) ==
  {K \in SUBSET own :
     /\ Cardinality(own) < MaxDevices => K = {}
     /\ Cardinality(own) >= MaxDevices => Cardinality(own \ K) = MaxDevices - 1
     /\ \A x \in K, y \in own \ K : x.login <= y.login}

\* DeleteMm1DeviceSessionsWhereSessionId: whoever the user is
OtherTokens(s) == {x \in devices : x.token # s}

\* outKickedSessionId names one session, the last the loop deleted.
RegisterDevice(u, s, login, active) ==
  /\ \E K \in Kicked(RowsOf(u, OtherTokens(s))) :
     \E reported \in IF K = {} THEN {{}} ELSE {{x} : x \in K} :
       /\ \A x \in K, y \in reported : x.login <= y.login
       /\ devices' = (OtherTokens(s) \ K) \cup
            {[user |-> u, token |-> s, login |-> login, active |-> active]}
       /\ told' = [t \in Tokens |-> IF t = s THEN [user |-> u, active |-> active]
                                    ELSE IF t \in TokensOf(reported) THEN None
                                    ELSE told[t]]
       /\ torn' = torn \ {s}
  /\ UNCHANGED faults

\* It stops before the insert: the row of the token is gone, perhaps that of
\* the kicked session too.  The reply, if any, is null.
RegisterDeviceBreaks(u, s) ==
  /\ \E K \in Kicked(RowsOf(u, OtherTokens(s))) \cup {{}} :
       /\ devices' = OtherTokens(s) \ K
       /\ torn' = torn \cup TokensOf(devices \ devices')
  /\ Fault
  /\ UNCHANGED told

UpdateLastActive(u, s, t) ==
  /\ \E x \in devices :
       /\ x.user = u /\ x.token = s
       /\ devices' = (devices \ {x}) \cup {[x EXCEPT !.active = t]}
  /\ told' = [told EXCEPT ![s] = [user |-> u, active |-> t]]
  /\ UNCHANGED <<torn, faults>>

\* Mutant: idle since the login.
LongLoggedIn(t) == {x \in devices : x.active <= t /\ t - x.login > IdleTimeout}

Idle(t) == {x \in devices : x.active <= t /\ t - x.active > IdleTimeout}

\* t is the caller's time, or the server's when that is far ahead of it.  The
\* callers know the activity they reported and need no reply.
CleanupExpiredDeviceSessions(t) ==
  /\ devices' = devices \ Idle(t)
  /\ told' = [s \in Tokens |->
                IF told[s] # None /\ told[s].active <= t /\ t - told[s].active > IdleTimeout
                THEN None ELSE told[s]]
  /\ UNCHANGED <<torn, faults>>

DevicesNext ==
  \/ \E u \in Users, s \in Tokens :
       \/ \E login, active \in Times : RegisterDevice(u, s, login, active)
       \/ RegisterDeviceBreaks(u, s)
       \/ \E t \in Times : UpdateLastActive(u, s, t)
  \/ \E t \in Times : CleanupExpiredDeviceSessions(t)

-----------------------------------------------------------------------------
(* Properties.                                                             *)

\* Types; a token has one row, whichever users registered it; no user has more
\* than MaxDevices sessions, whatever failed before (Mm1RegisterDeviceSession).
DevicesOK ==
  /\ devices \subseteq Row
  /\ told \in [Tokens -> Told \cup {None}]
  /\ torn \subseteq Tokens
  /\ faults \in 0..MaxFaults
  /\ \A x, y \in devices : x.token = y.token => x = y
  /\ \A u \in Users : Cardinality(RowsOf(u, devices)) <= MaxDevices

\* Who follows the calls of all users and the replies of RegisterDeviceSession,
\* the one kicked session it names included, and the idle rule of
\* CleanupExpiredSessions, knows the table, as the gateway between the clients
\* and MM1 can: a session it counts on is there, of the user who registered the
\* token last and with the activity reported, and no other is, except where a
\* registration failed or was interrupted.  A single client knows less: when
\* another user registers its token, no reply tells it.
DevicesAsReported ==
  \A s \in Tokens \ torn :
    /\ told[s] # None =>
         \E x \in devices : /\ x.token = s
                           /\ x.user = told[s].user /\ x.active = told[s].active
    /\ s \in TokensOf(devices) => told[s] # None

\* A session never goes before an earlier login of the same user, unless it was
\* idle for longer or a registration of its own token failed: the earliest
\* login is kicked (06-MultiDevice.md), and an idle one never in its place.
EarliestKicked ==
  [][\A x, y \in devices :
       /\ x.user = y.user
       /\ x.token \notin TokensOf(devices') \cup torn'
       /\ y.token \in TokensOf(devices')
       => x.login <= y.login \/ x.active < y.active]_deviceVars
=============================================================================

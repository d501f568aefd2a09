------------------------------ MODULE MM2Proofs ------------------------------
(***************************************************************************)
(* Proofs about what MM2 keeps, which share no state: the rows of Devices  *)
(* and Accounts, for any number of users, tokens, places and faults, and   *)
(* the IM messages in memory, for any users, sessions, limits and bounds.  *)
(* That the reply of a registration names every device session it kicked   *)
(* rests on the bound: with no more rows than places the loop runs once.   *)
(* That a reply stays sound rests on ids that are never handed out again.  *)
(***************************************************************************)
EXTENDS Accounts, Messages, FiniteSetTheorems, SequenceTheorems, WellFoundedInduction, TLAPS

DeviceInv ==
  /\ DevicesOK
  /\ IsFiniteSet(devices)
  /\ DevicesAsReported

Rows == [Users -> [Types -> Blob]]
NotesParse(rows) == \A u \in Users : rows[u]["notes"] \in Bundle \cup {None, Junk}

AccountInv ==
  /\ kv \in Rows /\ NotesParse(kv)
  /\ acked \in Rows /\ NotesParse(acked)
  /\ damaged \subseteq Users \X Types
  /\ StoredAsAcknowledged

-----------------------------------------------------------------------------
(* What a registration deletes.                                            *)

\* Fewer rows of a user are no more rows.
LEMMA FewerRows ==
  ASSUME NEW R, IsFiniteSet(R), NEW Q \in SUBSET R, NEW v
  PROVE  /\ IsFiniteSet(RowsOf(v, R)) /\ Cardinality(RowsOf(v, R)) \in Nat
         /\ IsFiniteSet(RowsOf(v, Q)) /\ Cardinality(RowsOf(v, Q)) \in Nat
         /\ Cardinality(RowsOf(v, Q)) <= Cardinality(RowsOf(v, R))
<1>1. RowsOf(v, R) \in SUBSET R /\ RowsOf(v, Q) \in SUBSET RowsOf(v, R)
  BY DEF RowsOf
<1>2. IsFiniteSet(RowsOf(v, R))
  BY <1>1, FS_Subset
<1> QED
  BY <1>1, <1>2, FS_Subset, FS_CardinalityType

LEMMA OneMore ==
  ASSUME NEW S, IsFiniteSet(S), NEW x
  PROVE  Cardinality(S \cup {x}) \in Nat /\ Cardinality(S \cup {x}) <= Cardinality(S) + 1
<1>1. Cardinality(S) \in Nat
  BY FS_CardinalityType
<1>2. Cardinality(S \cup {x}) = IF x \in S THEN Cardinality(S) ELSE Cardinality(S) + 1
  BY FS_AddElement
<1> QED
  BY <1>1, <1>2

\* The loop of Mm1RegisterDeviceSession leaves room for one row and, on a table
\* that kept the bound, deletes one row at most.
LEMMA RoomIsMade ==
  ASSUME NEW own, IsFiniteSet(own), Cardinality(own) <= MaxDevices,
         NEW K \in Kicked(own)
  PROVE  /\ IsFiniteSet(own \ K)
         /\ Cardinality(own \ K) \in Nat /\ Cardinality(own \ K) <= MaxDevices - 1
         /\ K = {} \/ \E x : K = {x}
<1>1. K \in SUBSET own /\ Cardinality(own) \in Nat
  BY FS_CardinalityType DEF Kicked
<1>2. /\ IsFiniteSet(K) /\ Cardinality(K) \in Nat
      /\ IsFiniteSet(own \ K) /\ Cardinality(own \ K) \in Nat
      /\ Cardinality(own \ K) = Cardinality(own) - Cardinality(K)
  <2>1. IsFiniteSet(K) /\ own \cap K = K
    BY <1>1, FS_Subset
  <2>2. IsFiniteSet(own \ K)
    BY FS_Difference
  <2>3. Cardinality(own \ K) = Cardinality(own) - Cardinality(own \cap K)
    BY FS_Difference
  <2> QED
    BY <2>1, <2>2, <2>3, FS_CardinalityType
<1>3. CASE Cardinality(own) < MaxDevices
  <2>1. K = {} /\ own \ K = own
    BY <1>3 DEF Kicked
  <2> QED
    BY <2>1, <1>1, <1>2, <1>3, DevicesAssumption
<1>4. CASE Cardinality(own) >= MaxDevices
  <2>1. Cardinality(own \ K) = MaxDevices - 1
    BY <1>4 DEF Kicked
  <2>2. Cardinality(K) = 1
    BY <2>1, <1>1, <1>2, <1>4, DevicesAssumption
  <2>3. \E x : K = {x}
    BY <2>2, <1>2, FS_Singleton
  <2> QED
    BY <2>1, <2>3, <1>2, DevicesAssumption
<1> QED
  BY <1>1, <1>3, <1>4, DevicesAssumption

\* Rows that remain keep the bound.
LEMMA RowsStay ==
  ASSUME DeviceInv, NEW Q \in SUBSET devices
  PROVE  /\ IsFiniteSet(Q)
         /\ \A v \in Users : Cardinality(RowsOf(v, Q)) \in Nat
                             /\ Cardinality(RowsOf(v, Q)) <= MaxDevices
<1>1. IsFiniteSet(Q)
  BY FS_Subset DEF DeviceInv
<1>2. ASSUME NEW v \in Users
      PROVE  Cardinality(RowsOf(v, Q)) \in Nat /\ Cardinality(RowsOf(v, Q)) <= MaxDevices
  <2>1. Cardinality(RowsOf(v, devices)) <= MaxDevices
    BY DEF DeviceInv, DevicesOK
  <2>2. Cardinality(RowsOf(v, Q)) <= Cardinality(RowsOf(v, devices))
    BY FewerRows DEF DeviceInv
  <2>3. Cardinality(RowsOf(v, Q)) \in Nat /\ Cardinality(RowsOf(v, devices)) \in Nat
    BY FewerRows DEF DeviceInv
  <2> QED
    BY <2>1, <2>2, <2>3, DevicesAssumption
<1> QED
  BY <1>1, <1>2

-----------------------------------------------------------------------------
(* The device sessions.                                                    *)

\* A registration that succeeds (Mm1RegisterDeviceSession).
LEMMA RegisterDeviceInv ==
  ASSUME DeviceInv, NEW u \in Users, NEW s \in Tokens,
         NEW login \in Times, NEW active \in Times,
         RegisterDevice(u, s, login, active)
  PROVE  DeviceInv'
<1> DEFINE other == OtherTokens(s)
           new == [user |-> u, token |-> s, login |-> login, active |-> active]
<1>1. PICK K \in Kicked(RowsOf(u, other)) :
        \E reported \in IF K = {} THEN {{}} ELSE {{x} : x \in K} :
          /\ devices' = (other \ K) \cup {new}
          /\ told' = [t \in Tokens |-> IF t = s THEN [user |-> u, active |-> active]
                                       ELSE IF t \in TokensOf(reported) THEN None
                                       ELSE told[t]]
          /\ torn' = torn \ {s}
  BY DEF RegisterDevice
<1>2. faults' = faults
  BY DEF RegisterDevice
<1>3. other \in SUBSET devices /\ K \in SUBSET RowsOf(u, other)
  BY DEF OtherTokens, Kicked
<1>4. /\ IsFiniteSet(RowsOf(u, other))
      /\ Cardinality(RowsOf(u, other)) <= MaxDevices
  BY <1>3, RowsStay, FewerRows DEF DeviceInv
<1>5. /\ IsFiniteSet(RowsOf(u, other) \ K)
      /\ Cardinality(RowsOf(u, other) \ K) \in Nat
      /\ Cardinality(RowsOf(u, other) \ K) <= MaxDevices - 1
      /\ K = {} \/ \E x : K = {x}
  BY <1>1, <1>4, RoomIsMade
<1>6. /\ devices' = (other \ K) \cup {new}
      /\ told' = [t \in Tokens |-> IF t = s THEN [user |-> u, active |-> active]
                                   ELSE IF t \in TokensOf(K) THEN None
                                   ELSE told[t]]
      /\ torn' = torn \ {s}
  BY <1>1, <1>5
<1>7. /\ devices' \subseteq Row
      /\ told' \in [Tokens -> Told \cup {None}]
      /\ torn' \subseteq Tokens
      /\ faults' \in 0..MaxFaults
  BY <1>2, <1>3, <1>6 DEF DeviceInv, DevicesOK, Row, Told
<1>8. \A x, y \in devices' : x.token = y.token => x = y
  <2>1. \A x \in other \ K : x.token # s /\ x \in devices
    BY DEF OtherTokens
  <2> QED
    BY <1>2, <1>6, <2>1 DEF DeviceInv, DevicesOK, Row
<1>9. IsFiniteSet(devices')
  <2>1. IsFiniteSet(other \ K)
    BY <1>3, RowsStay
  <2> QED
    BY <2>1, <1>6, FS_AddElement
<1>10. ASSUME NEW v \in Users PROVE Cardinality(RowsOf(v, devices')) <= MaxDevices
  <2>1. CASE v = u
    <3>1. RowsOf(u, devices') = (RowsOf(u, other) \ K) \cup {new}
      BY <1>6 DEF RowsOf
    <3>2. /\ Cardinality(RowsOf(u, devices')) \in Nat
          /\ Cardinality(RowsOf(u, devices')) <= Cardinality(RowsOf(u, other) \ K) + 1
      <4> HIDE DEF new
      <4> QED
        BY <3>1, <1>5, OneMore
    <3> QED
      BY <2>1, <3>2, <1>5, DevicesAssumption
  <2>2. CASE v # u
    <3>1. RowsOf(v, devices') = RowsOf(v, other)
      BY <2>2, <1>3, <1>6 DEF RowsOf
    <3> QED
      BY <3>1, <1>3, RowsStay
  <2> QED
    BY <2>1, <2>2
<1>11. DevicesAsReported'
  <2> SUFFICES ASSUME NEW t \in Tokens \ torn'
               PROVE  /\ told'[t] # None =>
                           \E x \in devices' : /\ x.token = t /\ x.user = told'[t].user
                                              /\ x.active = told'[t].active
                      /\ t \in TokensOf(devices') => told'[t] # None
    BY DEF DevicesAsReported
  <2>1. CASE t = s
    <3>1. told'[t].user = u /\ told'[t].active = active
      BY <2>1, <1>6
    <3>2. new \in devices' /\ new.token = t /\ new.user = u /\ new.active = active
      BY <2>1, <1>6
    <3>3. told'[t] # None
      BY <2>1, <1>6, DevicesAssumption DEF Told
    <3> QED
      BY <3>1, <3>2, <3>3
  <2>2. CASE t # s /\ t \in TokensOf(K)
    <3>1. told'[t] = None
      BY <2>2, <1>6
    <3>2. t \notin TokensOf(devices')
      BY <2>2, <1>3, <1>6 DEF TokensOf, RowsOf, DeviceInv, DevicesOK
    <3> QED
      BY <3>1, <3>2
  <2>3. CASE t # s /\ t \notin TokensOf(K)
    <3>1. told'[t] = told[t] /\ t \in Tokens \ torn
      BY <2>3, <1>6
    <3>2. /\ told[t] # None =>
               \E x \in devices : /\ x.token = t /\ x.user = told[t].user
                                 /\ x.active = told[t].active
          /\ t \in TokensOf(devices) => told[t] # None
      BY <3>1 DEF DeviceInv, DevicesAsReported
    <3>3. \A x : x.token = t => (x \in devices' <=> x \in devices)
      BY <2>3, <1>6 DEF TokensOf, OtherTokens
    <3> QED
      BY <3>1, <3>2, <3>3 DEF TokensOf
  <2> QED
    BY <2>1, <2>2, <2>3
<1> QED
  BY <1>7, <1>8, <1>9, <1>10, <1>11 DEF DeviceInv, DevicesOK

\* One that stops half way.
LEMMA RegisterDeviceBreaksInv ==
  ASSUME DeviceInv, NEW u \in Users, NEW s \in Tokens, RegisterDeviceBreaks(u, s)
  PROVE  DeviceInv'
<1>1. /\ devices' \in SUBSET devices
      /\ \A x \in devices' : x.token # s
      /\ torn' = torn \cup TokensOf(devices \ devices')
      /\ told' = told
      /\ faults < MaxFaults /\ faults' = faults + 1
  BY DEF RegisterDeviceBreaks, Fault, OtherTokens, Kicked, RowsOf
<1>2. /\ IsFiniteSet(devices')
      /\ \A v \in Users : Cardinality(RowsOf(v, devices')) <= MaxDevices
  BY <1>1, RowsStay
<1>3. /\ devices' \subseteq Row
      /\ told' \in [Tokens -> Told \cup {None}]
      /\ torn' \subseteq Tokens
      /\ faults' \in 0..MaxFaults
      /\ \A x, y \in devices' : x.token = y.token => x = y
  BY <1>1, DevicesAssumption DEF DeviceInv, DevicesOK, TokensOf, Row
<1>4. DevicesAsReported'
  BY <1>1 DEF DeviceInv, DevicesAsReported, TokensOf
<1> QED
  BY <1>2, <1>3, <1>4 DEF DeviceInv, DevicesOK

LEMMA UpdateLastActiveInv ==
  ASSUME DeviceInv, NEW u \in Users, NEW s \in Tokens, NEW t \in Times,
         UpdateLastActive(u, s, t)
  PROVE  DeviceInv'
<1>1. PICK x \in devices :
        /\ x.user = u /\ x.token = s
        /\ devices' = (devices \ {x}) \cup {[x EXCEPT !.active = t]}
  BY DEF UpdateLastActive
<1>2. told' = [told EXCEPT ![s] = [user |-> u, active |-> t]] /\ UNCHANGED <<torn, faults>>
  BY DEF UpdateLastActive
<1> DEFINE new == [x EXCEPT !.active = t]
<1>3. new \in Row /\ new.user = u /\ new.token = s /\ new.active = t
  BY <1>1 DEF DeviceInv, DevicesOK, Row
<1>4. \A y \in devices \ {x} : y.token # s
  BY <1>1 DEF DeviceInv, DevicesOK
<1>5. /\ devices' \subseteq Row
      /\ told' \in [Tokens -> Told \cup {None}]
      /\ \A y, z \in devices' : y.token = z.token => y = z
  BY <1>1, <1>2, <1>3, <1>4 DEF DeviceInv, DevicesOK, Told
<1>6. devices \ {x} \in SUBSET devices /\ IsFiniteSet(devices \ {x})
  BY RowsStay
<1>7. IsFiniteSet(devices')
  BY <1>1, <1>6, FS_AddElement
<1>8. ASSUME NEW v \in Users PROVE Cardinality(RowsOf(v, devices')) <= MaxDevices
  <2>1. CASE v # u
    <3>1. RowsOf(v, devices') = RowsOf(v, devices \ {x})
      BY <1>1, <1>3, <2>1 DEF RowsOf
    <3> QED
      BY <3>1, <1>6, RowsStay
  <2>2. CASE v = u
    <3>1. /\ RowsOf(u, devices') = (RowsOf(u, devices) \ {x}) \cup {new}
          /\ x \in RowsOf(u, devices)
      BY <1>1, <1>3 DEF RowsOf
    <3>2. /\ IsFiniteSet(RowsOf(u, devices))
          /\ Cardinality(RowsOf(u, devices)) \in Nat
          /\ Cardinality(RowsOf(u, devices)) <= MaxDevices
      BY FewerRows, RowsStay DEF DeviceInv
    <3>3. /\ IsFiniteSet(RowsOf(u, devices) \ {x})
          /\ Cardinality(RowsOf(u, devices) \ {x}) = Cardinality(RowsOf(u, devices)) - 1
      BY <3>1, <3>2, FS_RemoveElement
    <3>4. Cardinality(RowsOf(u, devices')) \in {Cardinality(RowsOf(u, devices) \ {x}),
                                                Cardinality(RowsOf(u, devices) \ {x}) + 1}
      BY <3>1, <3>3, FS_AddElement
    <3> QED
      BY <2>2, <3>2, <3>3, <3>4, DevicesAssumption
  <2> QED
    BY <2>1, <2>2
<1>9. DevicesAsReported'
  <2> SUFFICES ASSUME NEW r \in Tokens \ torn
               PROVE  /\ told'[r] # None =>
                           \E y \in devices' : /\ y.token = r /\ y.user = told'[r].user
                                              /\ y.active = told'[r].active
                      /\ r \in TokensOf(devices') => told'[r] # None
    BY <1>2 DEF DevicesAsReported
  <2>1. CASE r = s
    <3>1. /\ told'[r] = [user |-> u, active |-> t]
          /\ told'[r].user = u /\ told'[r].active = t
      BY <2>1, <1>2 DEF DeviceInv, DevicesOK
    <3>2. told'[r] # None
      BY <3>1, DevicesAssumption DEF Told
    <3>3. new \in devices'
      BY <1>1
    <3> QED
      BY <2>1, <1>3, <3>1, <3>2, <3>3
  <2>2. CASE r # s
    <3>1. told'[r] = told[r] /\ \A y : y.token = r => (y \in devices' <=> y \in devices)
      BY <2>2, <1>1, <1>2, <1>3 DEF DeviceInv, DevicesOK
    <3> QED
      BY <3>1 DEF DeviceInv, DevicesAsReported, TokensOf
  <2> QED
    BY <2>1, <2>2
<1> QED
  BY <1>2, <1>5, <1>7, <1>8, <1>9 DEF DeviceInv, DevicesOK

LEMMA CleanupInv ==
  ASSUME DeviceInv, NEW t \in Times, CleanupExpiredDeviceSessions(t)
  PROVE  DeviceInv'
<1>1. /\ devices' = devices \ Idle(t)
      /\ told' = [s \in Tokens |->
                    IF /\ told[s] # None /\ told[s].active <= t
                       /\ t - told[s].active > IdleTimeout
                    THEN None ELSE told[s]]
      /\ UNCHANGED <<torn, faults>>
  BY DEF CleanupExpiredDeviceSessions
<1>2. devices' \in SUBSET devices
  BY <1>1
<1>3. /\ IsFiniteSet(devices')
      /\ \A v \in Users : Cardinality(RowsOf(v, devices')) <= MaxDevices
  BY <1>2, RowsStay
<1>4. /\ devices' \subseteq Row
      /\ told' \in [Tokens -> Told \cup {None}]
      /\ \A x, y \in devices' : x.token = y.token => x = y
  BY <1>1, <1>2 DEF DeviceInv, DevicesOK
<1>5. DevicesAsReported'
  <2> SUFFICES ASSUME NEW r \in Tokens \ torn
               PROVE  /\ told'[r] # None =>
                           \E y \in devices' : /\ y.token = r /\ y.user = told'[r].user
                                              /\ y.active = told'[r].active
                      /\ r \in TokensOf(devices') => told'[r] # None
    BY <1>1 DEF DevicesAsReported
  <2>1. \A x \in devices : x.token = r =>
          told[r].active = x.active /\ told[r] # None /\ x.active \in Times
    BY DevicesAssumption DEF DeviceInv, DevicesAsReported, DevicesOK, TokensOf, Row
  <2>2. told[r] # None =>
          \E x \in devices : /\ x.token = r /\ x.user = told[r].user
                            /\ x.active = told[r].active
    BY DEF DeviceInv, DevicesAsReported
  <2>3. \A x \in devices : x.token = r => (x \in Idle(t) <=> told'[r] = None)
    BY <1>1, <2>1 DEF Idle
  <2> QED
    BY <1>1, <2>1, <2>2, <2>3 DEF TokensOf
<1> QED
  BY <1>1, <1>3, <1>4, <1>5 DEF DeviceInv, DevicesOK
-----------------------------------------------------------------------------
(* The rows of mm1_user_kv.                                                *)

\* A row written with a value of its type keeps the tables typed.
LEMMA WriteRow ==
  ASSUME NEW rows \in Rows, NotesParse(rows), NEW u \in Users, NEW t \in Types,
         NEW b \in Blob, t = "notes" => b \in Bundle \cup {None, Junk}
  PROVE  /\ [rows EXCEPT ![u][t] = b] \in Rows
         /\ NotesParse([rows EXCEPT ![u][t] = b])
         /\ \A v \in Users, r \in Types :
              [rows EXCEPT ![u][t] = b][v][r] = IF v = u /\ r = t THEN b ELSE rows[v][r]
<1>1. rows[u] \in [Types -> Blob]
  BY DEF Rows
<1>2. \A v \in Users, r \in Types :
        [rows EXCEPT ![u][t] = b][v][r] = IF v = u /\ r = t THEN b ELSE rows[v][r]
  BY DEF Rows
<1>3. [rows EXCEPT ![u][t] = b] \in Rows
  BY <1>1 DEF Rows
<1> QED
  BY <1>2, <1>3 DEF NotesParse, Types

LEMMA StoresInv ==
  ASSUME AccountInv, NEW u \in Users, NEW t \in Types,
         NEW b \in Secrets \cup {None, Junk, Mark},
         t = "notes" => b \in {None, Junk},
         Stores(u, t, b)
  PROVE  AccountInv'
<1>1. /\ kv' = [kv EXCEPT ![u][t] = b]
      /\ acked' = [acked EXCEPT ![u][t] = b]
      /\ damaged' = damaged \ {<<u, t>>}
  BY DEF Stores
<1>2. b \in Blob /\ (t = "notes" => b \in Bundle \cup {None, Junk})
  BY DEF Blob
<1>3. /\ kv' \in Rows /\ NotesParse(kv')
      /\ \A v \in Users, r \in Types :
           kv'[v][r] = IF v = u /\ r = t THEN b ELSE kv[v][r]
  <2>1. kv \in Rows /\ NotesParse(kv)
    BY DEF AccountInv
  <2>2. /\ [kv EXCEPT ![u][t] = b] \in Rows
        /\ NotesParse([kv EXCEPT ![u][t] = b])
        /\ \A v \in Users, r \in Types :
             [kv EXCEPT ![u][t] = b][v][r] = IF v = u /\ r = t THEN b ELSE kv[v][r]
    BY <2>1, <1>2, WriteRow
  <2> QED
    BY <2>2, <1>1
<1>4. /\ acked' \in Rows /\ NotesParse(acked')
      /\ \A v \in Users, r \in Types :
           acked'[v][r] = IF v = u /\ r = t THEN b ELSE acked[v][r]
  <2>1. acked \in Rows /\ NotesParse(acked)
    BY DEF AccountInv
  <2>2. /\ [acked EXCEPT ![u][t] = b] \in Rows
        /\ NotesParse([acked EXCEPT ![u][t] = b])
        /\ \A v \in Users, r \in Types :
             [acked EXCEPT ![u][t] = b][v][r] = IF v = u /\ r = t THEN b ELSE acked[v][r]
    BY <2>1, <1>2, WriteRow
  <2> QED
    BY <2>2, <1>1
<1>5. StoredAsAcknowledged'
  BY <1>1, <1>3, <1>4 DEF AccountInv, StoredAsAcknowledged
<1> QED
  BY <1>1, <1>3, <1>4, <1>5 DEF AccountInv, NotesParse

\* The two rows of a registration.
Written(rows, u, p, r) == [rows EXCEPT ![u]["password"] = p, ![u]["recovery"] = r]

LEMMA WriteAccount ==
  ASSUME NEW rows \in Rows, NotesParse(rows), NEW u \in Users,
         NEW p \in Secrets, NEW r \in Secrets
  PROVE  /\ Written(rows, u, p, r) \in Rows /\ NotesParse(Written(rows, u, p, r))
         /\ \A v \in Users, t \in Types :
              Written(rows, u, p, r)[v][t] =
                IF v = u /\ t = "password" THEN p
                ELSE IF v = u /\ t = "recovery" THEN r
                ELSE rows[v][t]
<1> DEFINE one == [rows EXCEPT ![u]["password"] = p]
           two == [one EXCEPT ![u]["recovery"] = r]
<1>1. p \in Blob /\ r \in Blob /\ "password" \in Types /\ "recovery" \in Types
  BY DEF Blob, Types
<1>2. /\ one \in Rows /\ NotesParse(one)
      /\ \A v \in Users, t \in Types :
           one[v][t] = IF v = u /\ t = "password" THEN p ELSE rows[v][t]
  BY <1>1, WriteRow
<1>3. /\ two \in Rows /\ NotesParse(two)
      /\ \A v \in Users, t \in Types :
           two[v][t] = IF v = u /\ t = "recovery" THEN r ELSE one[v][t]
  <2> HIDE DEF one
  <2> QED
    BY <1>1, <1>2, WriteRow
<1>4. Written(rows, u, p, r) = two
  BY DEF Written
<1> HIDE DEF one, two
<1>5. \A v \in Users, t \in Types :
        two[v][t] = IF v = u /\ t = "password" THEN p
                    ELSE IF v = u /\ t = "recovery" THEN r
                    ELSE rows[v][t]
  BY <1>2, <1>3
<1> QED
  BY <1>3, <1>4, <1>5

LEMMA RegisterInv ==
  ASSUME AccountInv, NEW u \in Users, NEW p \in Secrets, NEW r \in Secrets,
         NEW misread \in BOOLEAN, RegisterLocalUser(u, p, r, misread)
  PROVE  AccountInv'
<1> DEFINE both == {<<u, "password">>, <<u, "recovery">>}
<1>1. /\ kv' = Written(kv, u, p, r)
      /\ \/ acked' = Written(acked, u, p, r) /\ damaged' = damaged \ both
         \/ acked' = acked /\ damaged' = damaged \cup both
  BY DEF RegisterLocalUser, Written
<1>2. /\ kv \in Rows /\ NotesParse(kv)
      /\ acked \in Rows /\ NotesParse(acked)
      /\ damaged \subseteq Users \X Types
      /\ \A v \in Users, t \in Types : <<v, t>> \notin damaged => kv[v][t] = acked[v][t]
  BY DEF AccountInv, StoredAsAcknowledged
<1>3. /\ Written(kv, u, p, r) \in Rows /\ NotesParse(Written(kv, u, p, r))
      /\ \A v \in Users, t \in Types :
           Written(kv, u, p, r)[v][t] = IF v = u /\ t = "password" THEN p
                               ELSE IF v = u /\ t = "recovery" THEN r
                               ELSE kv[v][t]
  BY <1>2, WriteAccount
<1>4. /\ Written(acked, u, p, r) \in Rows /\ NotesParse(Written(acked, u, p, r))
      /\ \A v \in Users, t \in Types :
           Written(acked, u, p, r)[v][t] = IF v = u /\ t = "password" THEN p
                                  ELSE IF v = u /\ t = "recovery" THEN r
                                  ELSE acked[v][t]
  BY <1>2, WriteAccount
<1>5. /\ kv' \in Rows /\ NotesParse(kv)' /\ acked' \in Rows /\ NotesParse(acked)'
  BY <1>1, <1>2, <1>3, <1>4 DEF NotesParse
<1>6. damaged' \subseteq Users \X Types
  BY <1>1, <1>2 DEF Types
<1>7. StoredAsAcknowledged'
  BY <1>1, <1>2, <1>3, <1>4 DEF StoredAsAcknowledged
<1> QED
  BY <1>1, <1>2, <1>5, <1>6, <1>7 DEF AccountInv

\* A registration that stops after the password, or takes it back.
LEMMA HalfRegisterInv ==
  ASSUME AccountInv, NEW u \in Users, NEW p \in Secrets,
         RegisterLocalUserFails(u, p) \/ RegisterLocalUserBreaks(u, p)
  PROVE  AccountInv'
<1>1. /\ acked' = acked
      /\ \/ kv' = [kv EXCEPT ![u]["password"] = p]
         \/ kv' = [kv EXCEPT ![u]["password"] = None]
      /\ \/ damaged' = damaged \cup {<<u, "password">>}
         \/ /\ kv[u]["password"] = None
            /\ kv' = [kv EXCEPT ![u]["password"] = None]
            /\ damaged' = damaged
  BY DEF RegisterLocalUserFails, RegisterLocalUserBreaks, Reverted, Taken
<1>2. /\ kv \in Rows /\ NotesParse(kv)
      /\ acked \in Rows /\ NotesParse(acked)
      /\ damaged \subseteq Users \X Types
      /\ \A v \in Users, t \in Types : <<v, t>> \notin damaged => kv[v][t] = acked[v][t]
  BY DEF AccountInv, StoredAsAcknowledged
<1>3. "password" \in Types /\ p \in Blob /\ None \in Blob
  BY DEF Types, Blob
<1>4. ASSUME NEW b \in {p, None}
      PROVE  /\ [kv EXCEPT ![u]["password"] = b] \in Rows
             /\ NotesParse([kv EXCEPT ![u]["password"] = b])
             /\ \A v \in Users, t \in Types :
                  [kv EXCEPT ![u]["password"] = b][v][t] =
                    IF v = u /\ t = "password" THEN b ELSE kv[v][t]
  BY <1>2, <1>3, WriteRow
<1>5. PICK b \in {p, None} : kv' = [kv EXCEPT ![u]["password"] = b]
  BY <1>1
<1>6. /\ kv' \in Rows
      /\ \A v \in Users, t \in Types :
           kv'[v][t] = IF v = u /\ t = "password" THEN b ELSE kv[v][t]
  BY <1>4, <1>5
<1>7. NotesParse(kv)' /\ NotesParse(acked)'
  BY <1>1, <1>2, <1>6 DEF NotesParse, Types
<1>8. damaged' \subseteq Users \X Types
  BY <1>1, <1>2, <1>3
<1>9. StoredAsAcknowledged'
  <2>1. CASE damaged' = damaged \cup {<<u, "password">>}
    BY <2>1, <1>1, <1>2, <1>6 DEF StoredAsAcknowledged
  <2>2. CASE kv[u]["password"] = None /\ kv' = [kv EXCEPT ![u]["password"] = None]
             /\ damaged' = damaged
    <3>1. \A v \in Users, t \in Types : kv'[v][t] = kv[v][t]
      BY <2>2, <1>4
    <3> QED
      BY <3>1, <2>2, <1>1, <1>2 DEF StoredAsAcknowledged
  <2> QED
    BY <1>1, <2>1, <2>2
<1> QED
  BY <1>1, <1>2, <1>6, <1>7, <1>8, <1>9 DEF AccountInv

\* A note, read correctly or not.
LEMMA NoteInv ==
  ASSUME AccountInv, NEW u \in Users, NEW f \in Peers, NEW n \in Notes,
         UpdateFriendNote(u, f, n) \/ UpdateFriendNoteMisread(u, f, n)
  PROVE  AccountInv'
<1> DEFINE old == kv[u]["notes"]
           base == IF old = None THEN NoNotes ELSE old
           said == IF acked[u]["notes"] \in {None, Junk} THEN NoNotes
                   ELSE acked[u]["notes"]
<1>1. /\ kv \in Rows /\ NotesParse(kv)
      /\ acked \in Rows /\ NotesParse(acked)
      /\ damaged \subseteq Users \X Types
      /\ \A v \in Users, t \in Types : <<v, t>> \notin damaged => kv[v][t] = acked[v][t]
      /\ "notes" \in Types
  BY DEF AccountInv, StoredAsAcknowledged, Types
<1>2. NoNotes \in Bundle /\ said \in Bundle
  BY <1>1 DEF NotesParse, NoNotes, Bundle
<1>3. \A k \in Bundle : [k EXCEPT ![f] = n] \in Bundle
  BY DEF Bundle
<1>4. /\ acked' = [acked EXCEPT ![u]["notes"] = [said EXCEPT ![f] = n]]
      /\ \/ /\ old # Junk
            /\ kv' = [kv EXCEPT ![u]["notes"] = [base EXCEPT ![f] = n]]
            /\ damaged' = damaged
         \/ /\ kv' = [kv EXCEPT ![u]["notes"] = [NoNotes EXCEPT ![f] = n]]
            /\ damaged' = damaged \cup {<<u, "notes">>}
  BY <1>1 DEF UpdateFriendNote, UpdateFriendNoteMisread, WithNote, Rows
<1>5. old # Junk => base \in Bundle
  BY <1>1, <1>2 DEF NotesParse
<1>6. old # Junk /\ <<u, "notes">> \notin damaged => base = said
  BY <1>1
<1> HIDE DEF base, said
<1>7. PICK a \in Bundle, k \in Bundle :
        /\ acked' = [acked EXCEPT ![u]["notes"] = a]
        /\ kv' = [kv EXCEPT ![u]["notes"] = k]
        /\ \/ damaged' = damaged \cup {<<u, "notes">>}
           \/ damaged' = damaged /\ (<<u, "notes">> \notin damaged => k = a)
  <2>1. CASE /\ old # Junk
             /\ kv' = [kv EXCEPT ![u]["notes"] = [base EXCEPT ![f] = n]]
             /\ damaged' = damaged
    <3>1. [base EXCEPT ![f] = n] \in Bundle /\ [said EXCEPT ![f] = n] \in Bundle
      BY <2>1, <1>2, <1>3, <1>5
    <3>2. <<u, "notes">> \notin damaged => [base EXCEPT ![f] = n] = [said EXCEPT ![f] = n]
      BY <2>1, <1>6
    <3> QED
      BY <3>1, <3>2, <2>1, <1>4
  <2>2. CASE /\ kv' = [kv EXCEPT ![u]["notes"] = [NoNotes EXCEPT ![f] = n]]
             /\ damaged' = damaged \cup {<<u, "notes">>}
    <3>1. [NoNotes EXCEPT ![f] = n] \in Bundle /\ [said EXCEPT ![f] = n] \in Bundle
      BY <1>2, <1>3
    <3> QED
      BY <3>1, <2>2, <1>4
  <2> QED
    BY <1>4, <2>1, <2>2
<1>8. a \in Blob /\ k \in Blob
  BY DEF Blob
<1>9. /\ [kv EXCEPT ![u]["notes"] = k] \in Rows
      /\ NotesParse([kv EXCEPT ![u]["notes"] = k])
      /\ \A v \in Users, t \in Types :
           [kv EXCEPT ![u]["notes"] = k][v][t] =
             IF v = u /\ t = "notes" THEN k ELSE kv[v][t]
  BY <1>1, <1>8, WriteRow
<1>10. /\ [acked EXCEPT ![u]["notes"] = a] \in Rows
       /\ NotesParse([acked EXCEPT ![u]["notes"] = a])
       /\ \A v \in Users, t \in Types :
            [acked EXCEPT ![u]["notes"] = a][v][t] =
              IF v = u /\ t = "notes" THEN a ELSE acked[v][t]
  BY <1>1, <1>8, WriteRow
<1>11. /\ kv' \in Rows /\ NotesParse(kv)' /\ acked' \in Rows /\ NotesParse(acked)'
  BY <1>7, <1>9, <1>10 DEF NotesParse
<1>12. StoredAsAcknowledged'
  BY <1>1, <1>7, <1>9, <1>10 DEF StoredAsAcknowledged
<1>13. damaged' \subseteq Users \X Types
  BY <1>1, <1>7
<1> QED
  BY <1>1, <1>4, <1>11, <1>12, <1>13 DEF AccountInv

-----------------------------------------------------------------------------
(* The theorems.                                                           *)

LEMMA InitInv == Init => DeviceInv /\ AccountInv
<1> SUFFICES ASSUME Init PROVE DeviceInv /\ AccountInv
  OBVIOUS
<1>1. DeviceInv
  <2>1. /\ devices = {} /\ torn = {} /\ faults = 0
        /\ told = [s \in Tokens |-> None]
    BY DEF Init, DevicesInit
  <2>2. \A u \in Users : RowsOf(u, devices) = {}
    BY <2>1 DEF RowsOf
  <2>3. IsFiniteSet(devices) /\ \A u \in Users : Cardinality(RowsOf(u, devices)) <= MaxDevices
    BY <2>1, <2>2, FS_EmptySet, DevicesAssumption
  <2>4. TokensOf(devices) = {}
    BY <2>1 DEF TokensOf
  <2>5. DevicesAsReported
    BY <2>1, <2>4 DEF DevicesAsReported
  <2>6. faults \in 0..MaxFaults
    BY <2>1, DevicesAssumption
  <2> QED
    BY <2>1, <2>3, <2>5, <2>6 DEF DeviceInv, DevicesOK
<1>2. AccountInv
  BY DEF Init, AccountInv, Rows, Blob, NotesParse, StoredAsAcknowledged, Types
<1> QED
  BY <1>1, <1>2

LEMMA DevicesStep ==
  ASSUME DeviceInv, DevicesNext
  PROVE  DeviceInv'
<1>1. CASE \E u \in Users, s \in Tokens, login, active \in Times :
             RegisterDevice(u, s, login, active)
  BY <1>1, RegisterDeviceInv
<1>2. CASE \E u \in Users, s \in Tokens : RegisterDeviceBreaks(u, s)
  BY <1>2, RegisterDeviceBreaksInv
<1>3. CASE \E u \in Users, s \in Tokens, t \in Times : UpdateLastActive(u, s, t)
  BY <1>3, UpdateLastActiveInv
<1>4. CASE \E t \in Times : CleanupExpiredDeviceSessions(t)
  BY <1>4, CleanupInv
<1> QED
  BY <1>1, <1>2, <1>3, <1>4 DEF DevicesNext

LEMMA AccountsStep ==
  ASSUME AccountInv, AccountsNext
  PROVE  AccountInv'
<1> PICK u \in Users : Credentials(u) \/ OtherCalls(u)
  BY AccountsAssumption DEF AccountsNext
<1>1. CASE Credentials(u)
  <2> PICK p \in Secrets, q \in Secrets :
        \/ \E misread \in BOOLEAN : RegisterLocalUser(u, p, q, misread)
        \/ ChangeLocalPassword(u, p, q)
        \/ ResetLocalPasswordWithRecovery(u, p, q)
    BY <1>1 DEF Credentials
  <2>1. CASE \E misread \in BOOLEAN : RegisterLocalUser(u, p, q, misread)
    BY <2>1, RegisterInv
  <2>2. CASE ChangeLocalPassword(u, p, q) \/ ResetLocalPasswordWithRecovery(u, p, q)
    <3>1. Stores(u, "password", q) /\ "password" \in Types
      BY <2>2 DEF ChangeLocalPassword, ResetLocalPasswordWithRecovery, Types
    <3> QED
      BY <3>1, StoresInv
  <2> QED
    BY <2>1, <2>2
<1>2. CASE \E p \in Secrets :
             RegisterLocalUserFails(u, p) \/ RegisterLocalUserBreaks(u, p)
  BY <1>2, HalfRegisterInv
<1>3. CASE \E f \in Peers, n \in Notes :
             UpdateFriendNote(u, f, n) \/ UpdateFriendNoteMisread(u, f, n)
  BY <1>3, NoteInv
<1>4. CASE DeleteAccount(u)
  <2>1. Stores(u, "deleted", Mark) /\ "deleted" \in Types
    BY <1>4 DEF DeleteAccount, Types
  <2> QED
    BY <2>1, StoresInv
<1>5. CASE \E t \in Types : StoreUserData(u, t) \/ DeleteUserData(u, t)
  <2>1. PICK t \in Types, b \in {None, Junk} : Stores(u, t, b)
    BY <1>5 DEF StoreUserData, DeleteUserData
  <2> QED
    BY <2>1, StoresInv
<1> QED
  BY <1>1, <1>2, <1>3, <1>4, <1>5 DEF OtherCalls

LEMMA CountedFaults ==
  ASSUME DeviceInv, AccountsNext
  PROVE  faults' \in 0..MaxFaults
<1>1. Fault => faults' \in 0..MaxFaults
  BY DevicesAssumption DEF DeviceInv, DevicesOK, Fault
<1>2. ASSUME NEW u \in Users, Credentials(u) PROVE Fault \/ faults' = faults
  BY <1>2 DEF Credentials, RegisterLocalUser, MayRegister, ChangeLocalPassword,
         ResetLocalPasswordWithRecovery
<1>3. ASSUME NEW u \in Users, OtherCalls(u) PROVE Fault \/ faults' = faults
  <2>1. CASE \E p \in Secrets :
               RegisterLocalUserFails(u, p) \/ RegisterLocalUserBreaks(u, p)
    BY <2>1 DEF RegisterLocalUserFails, RegisterLocalUserBreaks
  <2>2. CASE \E f \in Peers, n \in Notes :
               UpdateFriendNote(u, f, n) \/ UpdateFriendNoteMisread(u, f, n)
    BY <2>2 DEF UpdateFriendNote, UpdateFriendNoteMisread
  <2>3. CASE DeleteAccount(u) \/ \E t \in Types : StoreUserData(u, t) \/ DeleteUserData(u, t)
    BY <2>3 DEF DeleteAccount, StoreUserData, DeleteUserData
  <2> QED
    BY <1>3, <2>1, <2>2, <2>3 DEF OtherCalls
<1> QED
  BY <1>1, <1>2, <1>3, AccountsAssumption DEF AccountsNext, DeviceInv, DevicesOK

\* Both parts are inductive: the table of sessions keeps its bound through
\* registrations that stop anywhere, the rows of a user what was acknowledged.
THEOREM Inductive == Spec => [](DeviceInv /\ AccountInv)
<1>1. ASSUME DeviceInv, AccountInv, [Next]_vars
      PROVE  DeviceInv' /\ AccountInv'
  <2>1. CASE AccountsNext /\ UNCHANGED <<devices, told, torn>>
    <3>1. faults' \in 0..MaxFaults
      BY <2>1, <1>1, CountedFaults
    <3>2. DeviceInv'
      BY <3>1, <2>1, <1>1 DEF DeviceInv, DevicesOK, DevicesAsReported
    <3> QED
      BY <3>2, <2>1, <1>1, AccountsStep
  <2>2. CASE DevicesNext /\ UNCHANGED accountVars
    <3>1. DeviceInv'
      BY <2>2, <1>1, DevicesStep
    <3>2. AccountInv'
      BY <2>2, <1>1 DEF accountVars, AccountInv, NotesParse, StoredAsAcknowledged
    <3> QED
      BY <3>1, <3>2
  <2>3. CASE UNCHANGED vars
    BY <2>3, <1>1 DEF vars, deviceVars, accountVars, DeviceInv, DevicesOK,
         DevicesAsReported, AccountInv, NotesParse, StoredAsAcknowledged
  <2> QED
    BY <1>1, <2>1, <2>2, <2>3 DEF Next
<1> QED
  BY <1>1, InitInv, PTL DEF Spec

\* The types, and at most MaxDevices sessions of a user, each token once.
THEOREM WellFormedHolds == Spec => []WellFormed
<1>1. DeviceInv /\ AccountInv => WellFormed
  BY DEF DeviceInv, AccountInv, WellFormed, Rows
<1> QED
  BY <1>1, Inductive, PTL

\* Every row is as the last acknowledged call left it, but for misread and
\* broken calls.
THEOREM StoredAsAcknowledgedHolds == Spec => []StoredAsAcknowledged
<1>1. AccountInv => StoredAsAcknowledged
  BY DEF AccountInv
<1> QED
  BY <1>1, Inductive, PTL

\* The replies of registrations tell which sessions there are.
THEOREM DevicesAsReportedHolds == Spec => []DevicesAsReported
<1>1. DeviceInv => DevicesAsReported
  BY DEF DeviceInv
<1> QED
  BY <1>1, Inductive, PTL
-----------------------------------------------------------------------------
(* Whom a registration and the cleanup take.                               *)

\* Whoever goes, and whoever stays, in a step.
Gone(x) == x \in devices /\ x.token \notin TokensOf(devices') \cup torn'
Stays(y) == y \in devices /\ y.token \in TokensOf(devices')

\* The user whose own session is registered anew has room for it already.
LEMMA RoomAlready ==
  ASSUME DeviceInv, NEW u \in Users, NEW s \in Tokens,
         NEW y \in devices, y.user = u, y.token = s,
         NEW K \in Kicked(RowsOf(u, OtherTokens(s)))
  PROVE  K = {}
<1> DEFINE mine == RowsOf(u, devices)
           own == RowsOf(u, OtherTokens(s))
<1>1. /\ IsFiniteSet(mine) /\ Cardinality(mine) \in Nat
      /\ Cardinality(mine) <= MaxDevices
  BY FewerRows, RowsStay DEF DeviceInv
<1>2. y \in mine /\ own \in SUBSET (mine \ {y})
  BY DEF RowsOf, OtherTokens
<1>3. /\ IsFiniteSet(mine \ {y})
      /\ Cardinality(mine \ {y}) = Cardinality(mine) - 1
  BY <1>1, <1>2, FS_RemoveElement
<1>4. Cardinality(own) \in Nat /\ Cardinality(own) <= Cardinality(mine \ {y})
  BY <1>2, <1>3, FS_Subset, FS_CardinalityType
<1>5. Cardinality(own) < MaxDevices
  BY <1>1, <1>3, <1>4, DevicesAssumption
<1> QED
  BY <1>5 DEF Kicked

LEMMA RegisterTakesEarliest ==
  ASSUME DeviceInv, NEW u \in Users, NEW s \in Tokens,
         NEW login \in Times, NEW active \in Times,
         RegisterDevice(u, s, login, active),
         NEW x, NEW y, Gone(x), Stays(y), x.user = y.user
  PROVE  x.login <= y.login
<1> DEFINE other == OtherTokens(s)
           new == [user |-> u, token |-> s, login |-> login, active |-> active]
<1>1. PICK K \in Kicked(RowsOf(u, other)) : devices' = (other \ K) \cup {new}
  BY DEF RegisterDevice
<1>2. x.token # s
  <2>1. new \in devices' /\ new.token = s
    BY <1>1
  <2> HIDE DEF new
  <2> QED
    BY <2>1 DEF Gone, TokensOf
<1>3. x \in K /\ x.user = u
  BY <1>1, <1>2 DEF Gone, TokensOf, OtherTokens, Kicked, RowsOf
<1>4. y.token # s
  BY <1>1, <1>3, RoomAlready DEF Stays
<1>5. y \in other \ K
  <2>1. PICK z \in devices' : z.token = y.token
    BY DEF Stays, TokensOf
  <2>2. z \in other \ K /\ z \in devices
    BY <2>1, <1>1, <1>4 DEF OtherTokens
  <2> QED
    BY <2>1, <2>2 DEF DeviceInv, DevicesOK, Stays
<1>6. y \in RowsOf(u, other) \ K
  BY <1>3, <1>5 DEF RowsOf
<1> QED
  BY <1>1, <1>3, <1>6 DEF Kicked

LEMMA CleanupTakesIdle ==
  ASSUME DeviceInv, NEW t \in Times, CleanupExpiredDeviceSessions(t),
         NEW x, NEW y, Gone(x), Stays(y)
  PROVE  x.active < y.active
<1>1. devices' = devices \ Idle(t)
  BY DEF CleanupExpiredDeviceSessions
<1>2. x \in Idle(t)
  BY <1>1 DEF Gone, TokensOf
<1>3. y \in devices /\ y \notin Idle(t)
  <2>1. PICK z \in devices' : z.token = y.token
    BY DEF Stays, TokensOf
  <2> QED
    BY <2>1, <1>1 DEF DeviceInv, DevicesOK, Stays
<1>4. x.active \in Nat /\ y.active \in Nat /\ t \in Nat /\ IdleTimeout \in Nat
  BY <1>2, <1>3, DevicesAssumption DEF DeviceInv, DevicesOK, Row, Times, Idle
<1> QED
  BY <1>2, <1>3, <1>4 DEF Idle

\* The other calls take nobody who did not fail.
LEMMA OthersTakeNobody ==
  ASSUME DeviceInv, NEW u \in Users, NEW s \in Tokens, NEW t \in Times,
         RegisterDeviceBreaks(u, s) \/ UpdateLastActive(u, s, t),
         NEW x, Gone(x)
  PROVE  FALSE
<1>1. CASE RegisterDeviceBreaks(u, s)
  BY <1>1 DEF RegisterDeviceBreaks, Gone, TokensOf
<1>2. CASE UpdateLastActive(u, s, t)
  <2>1. PICK z \in devices :
          devices' = (devices \ {z}) \cup {[z EXCEPT !.active = t]}
    BY <1>2 DEF UpdateLastActive
  <2>2. [z EXCEPT !.active = t].token = z.token
    BY <2>1 DEF DeviceInv, DevicesOK, Row
  <2> QED
    BY <2>1, <2>2 DEF Gone, TokensOf
<1> QED
  BY <1>1, <1>2

\* A registration makes room with the earliest login, the cleanup takes who was
\* idle for longer: of two sessions of a user no other step takes the one and
\* leaves the other.
THEOREM EarliestKickedHolds == Spec => EarliestKicked
<1>1. ASSUME DeviceInv, [Next]_vars, NEW x \in devices, NEW y \in devices,
             x.user = y.user,
             x.token \notin TokensOf(devices') \cup torn',
             y.token \in TokensOf(devices')
      PROVE  x.login <= y.login \/ x.active < y.active
  <2>1. Gone(x) /\ Stays(y)
    BY <1>1 DEF Gone, Stays
  <2>2. CASE \E u \in Users, s \in Tokens, login, active \in Times :
               RegisterDevice(u, s, login, active)
    BY <2>1, <2>2, <1>1, RegisterTakesEarliest
  <2>3. CASE \E t \in Times : CleanupExpiredDeviceSessions(t)
    BY <2>1, <2>3, <1>1, CleanupTakesIdle
  <2>4. CASE \E u \in Users, s \in Tokens :
               \/ RegisterDeviceBreaks(u, s)
               \/ \E t \in Times : UpdateLastActive(u, s, t)
    <3>1. 0 \in Times
      BY DevicesAssumption DEF Times
    <3> QED
      BY <3>1, <2>1, <2>4, <1>1, OthersTakeNobody
  <2>5. CASE UNCHANGED devices
    BY <2>1, <2>5 DEF Gone, TokensOf
  <2> QED
    BY <1>1, <2>2, <2>3, <2>4, <2>5 DEF Next, DevicesNext, vars, deviceVars
<1>2. DeviceInv /\ [Next]_vars =>
        [\A x, y \in devices :
           /\ x.user = y.user
           /\ x.token \notin TokensOf(devices') \cup torn'
           /\ y.token \in TokensOf(devices')
           => x.login <= y.login \/ x.active < y.active]_deviceVars
  BY <1>1
<1>3. (DeviceInv /\ AccountInv) => DeviceInv
  OBVIOUS
<1> QED
  BY <1>2, <1>3, Inductive, PTL DEF Spec, EarliestKicked

-----------------------------------------------------------------------------
(* Lists of messages, oldest first.                                        *)

Sorted(c) == \A i, k \in DOMAIN c : i < k => c[i].id < c[k].id

\* Messages with numbers as ids.
Numbered(S) == \A x \in S : x.id \in Int

LEMMA ListIs ==
  ASSUME NEW S, NEW c \in Seq(S)
  PROVE  /\ DOMAIN c = 1..Len(c) /\ Len(c) \in Nat
         /\ \A i \in 1..Len(c) : c[i] \in S
BY LenProperties

\* In a sorted list an id has one place.
LEMMA OnePlaceOf ==
  ASSUME NEW S, Numbered(S), NEW c \in Seq(S), Sorted(c),
         NEW i \in DOMAIN c, NEW k \in DOMAIN c, c[i].id = c[k].id
  PROVE  i = k
<1>1. i \in Int /\ k \in Int /\ c[i].id \in Int /\ c[k].id \in Int
  BY ListIs DEF Numbered
<1> QED
  BY <1>1 DEF Sorted

LEMMA AtIs ==
  ASSUME NEW S, Numbered(S), NEW c \in Seq(S), Sorted(c), NEW i \in DOMAIN c
  PROVE  c[i].id \in Ids(c) /\ At(c, c[i].id) = i
<1>1. \E k \in DOMAIN c : c[k].id = c[i].id
  OBVIOUS
<1>2. At(c, c[i].id) \in DOMAIN c /\ c[At(c, c[i].id)].id = c[i].id
  BY <1>1 DEF At
<1> QED
  BY <1>2, OnePlaceOf DEF Ids

\* Taking a message out of a sorted list leaves the others, as they were and
\* in their order.
LEMMA WithoutIs ==
  ASSUME NEW S, Numbered(S), NEW c \in Seq(S), Sorted(c), NEW id
  PROVE  /\ Without(c, id) \in Seq(S)
         /\ Sorted(Without(c, id))
         /\ Ids(Without(c, id)) = Ids(c) \ {id}
         /\ \A i \in DOMAIN Without(c, id) : \E k \in DOMAIN c : Without(c, id)[i] = c[k]
<1>1. CASE id \notin Ids(c)
  BY <1>1 DEF Without
<1>2. CASE id \in Ids(c)
  <2>1. PICK at \in DOMAIN c : c[at].id = id
    BY <1>2 DEF Ids
  <2>2. At(c, id) = at
    BY <2>1, AtIs
  <2>3. /\ DOMAIN c = 1..Len(c) /\ Len(c) \in Nat /\ at \in 1..Len(c)
        /\ \A i \in 1..Len(c) : c[i] \in S
    BY <2>1, ListIs
  <2>4. PICK a : a = SubSeq(c, 1, at - 1)
    OBVIOUS
  <2>5. PICK b : b = SubSeq(c, at + 1, Len(c))
    OBVIOUS
  <2>6. /\ a \in Seq(S) /\ Len(a) = at - 1
        /\ \A i \in 1..(at - 1) : a[i] = c[i]
    <3>1. \A i \in 1..(at - 1) : c[i] \in S
      BY <2>3
    <3>2. /\ a \in Seq(S) /\ Len(a) = IF 1 <= at - 1 THEN at - 1 - 1 + 1 ELSE 0
          /\ \A i \in 1..(at - 1 - 1 + 1) : a[i] = c[1 + i - 1]
      BY <2>3, <2>4, <3>1, SubSeqProperties
    <3> QED
      BY <2>3, <3>2
  <2>7. /\ b \in Seq(S) /\ Len(b) = Len(c) - at
        /\ \A i \in 1..(Len(c) - at) : b[i] = c[at + i]
    <3>1. \A i \in (at + 1)..Len(c) : c[i] \in S
      BY <2>3
    <3>2. /\ b \in Seq(S)
          /\ Len(b) = IF at + 1 <= Len(c) THEN Len(c) - (at + 1) + 1 ELSE 0
          /\ \A i \in 1..(Len(c) - (at + 1) + 1) : b[i] = c[(at + 1) + i - 1]
      BY <2>3, <2>5, <3>1, SubSeqProperties
    <3> QED
      BY <2>3, <3>2
  <2>8. PICK w : w = Without(c, id)
    OBVIOUS
  <2>9. w = a \o b
    BY <1>2, <2>2, <2>4, <2>5, <2>8 DEF Without
  <2>10. /\ w \in Seq(S) /\ Len(w) = Len(c) - 1
         /\ \A i \in 1..(Len(c) - 1) : w[i] = IF i <= at - 1 THEN c[i] ELSE c[i + 1]
    <3>1. /\ w \in Seq(S) /\ Len(w) = Len(a) + Len(b)
          /\ \A i \in 1..(Len(a) + Len(b)) :
                w[i] = IF i <= Len(a) THEN a[i] ELSE b[i - Len(a)]
      BY <2>6, <2>7, <2>9, ConcatProperties
    <3>2. ASSUME NEW i \in 1..(Len(c) - 1)
          PROVE  w[i] = IF i <= at - 1 THEN c[i] ELSE c[i + 1]
      <4>1. CASE i <= at - 1
        BY <2>3, <2>6, <2>7, <3>1, <4>1
      <4>2. CASE ~(i <= at - 1)
        <5>1. i - (at - 1) \in 1..(Len(c) - at) /\ at + (i - (at - 1)) = i + 1
          BY <2>3, <4>2
        <5>2. i \in 1..(Len(a) + Len(b)) /\ ~(i <= Len(a))
          BY <2>3, <2>6, <2>7, <4>2
        <5>3. w[i] = b[i - (at - 1)]
          BY <2>6, <3>1, <5>2
        <5>4. b[i - (at - 1)] = c[at + (i - (at - 1))]
          BY <2>7, <5>1
        <5> QED
          BY <4>2, <5>1, <5>3, <5>4
      <4> QED
        BY <4>1, <4>2
    <3> QED
      BY <2>3, <2>6, <2>7, <3>1, <3>2
  <2>11. DOMAIN w = 1..(Len(c) - 1)
    BY <2>10, ListIs
  <2>12. Sorted(w)
    <3>1. ASSUME NEW i \in DOMAIN w, NEW k \in DOMAIN w, i < k PROVE w[i].id < w[k].id
      <4>1. PICK j \in DOMAIN c : w[i] = c[j] /\ j = IF i <= at - 1 THEN i ELSE i + 1
        BY <2>3, <2>10, <2>11
      <4>2. PICK l \in DOMAIN c : w[k] = c[l] /\ l = IF k <= at - 1 THEN k ELSE k + 1
        BY <2>3, <2>10, <2>11
      <4>3. j < l
        BY <2>3, <2>11, <3>1, <4>1, <4>2
      <4> QED
        BY <4>1, <4>2, <4>3 DEF Sorted
    <3> QED
      BY <3>1 DEF Sorted
  <2>13. \A i \in DOMAIN w : \E k \in DOMAIN c \ {at} : w[i] = c[k]
    <3>1. ASSUME NEW i \in DOMAIN w PROVE \E k \in DOMAIN c \ {at} : w[i] = c[k]
      <4>1. CASE i <= at - 1
        <5>1. i \in DOMAIN c \ {at} /\ w[i] = c[i]
          BY <2>3, <2>10, <2>11, <4>1
        <5> QED
          BY <5>1
      <4>2. CASE ~(i <= at - 1)
        <5>1. i + 1 \in DOMAIN c \ {at} /\ w[i] = c[i + 1]
          BY <2>3, <2>10, <2>11, <4>2
        <5> QED
          BY <5>1
      <4> QED
        BY <4>1, <4>2
    <3> QED
      BY <3>1
  <2>14. \A k \in DOMAIN c \ {at} : \E i \in DOMAIN w : w[i] = c[k]
    <3>1. ASSUME NEW k \in DOMAIN c \ {at} PROVE \E i \in DOMAIN w : w[i] = c[k]
      <4>1. CASE k < at
        <5>1. k \in DOMAIN w /\ w[k] = c[k]
          BY <2>3, <2>10, <2>11, <4>1
        <5> QED
          BY <5>1
      <4>2. CASE ~(k < at)
        <5>1. k - 1 \in DOMAIN w /\ w[k - 1] = c[k]
          BY <2>3, <2>10, <2>11, <4>2
        <5> QED
          BY <5>1
      <4> QED
        BY <4>1, <4>2
    <3> QED
      BY <3>1
  <2>15. \A k \in DOMAIN c \ {at} : c[k].id # id
    BY <2>1, OnePlaceOf
  <2>16. Ids(w) = Ids(c) \ {id}
    <3>1. \A x \in Ids(w) : x \in Ids(c) /\ x # id
      BY <2>13, <2>15 DEF Ids
    <3>2. \A x \in Ids(c) \ {id} : x \in Ids(w)
      <4>1. ASSUME NEW x \in Ids(c), x # id PROVE x \in Ids(w)
        <5>1. PICK k \in DOMAIN c : c[k].id = x
          BY DEF Ids
        <5>2. PICK i \in DOMAIN w : w[i] = c[k]
          BY <2>1, <2>14, <4>1, <5>1
        <5> QED
          BY <5>1, <5>2 DEF Ids
      <4> QED
        BY <4>1
    <3> QED
      BY <3>1, <3>2
  <2> QED
    BY <2>8, <2>10, <2>12, <2>13, <2>16
<1> QED
  BY <1>1, <1>2

\* The newest message goes to the end of its list.
LEMMA AppendIs ==
  ASSUME NEW S, Numbered(S), NEW c \in Seq(S), Sorted(c), NEW x \in S,
         \A i \in DOMAIN c : c[i].id < x.id
  PROVE  /\ Append(c, x) \in Seq(S)
         /\ Sorted(Append(c, x))
         /\ Ids(Append(c, x)) = Ids(c) \cup {x.id}
         /\ \A i \in DOMAIN Append(c, x) :
              Append(c, x)[i] = x \/ \E k \in DOMAIN c : Append(c, x)[i] = c[k]
<1>1. PICK w : w = Append(c, x)
  OBVIOUS
<1>2. /\ w \in Seq(S) /\ DOMAIN w = 1..(Len(c) + 1) /\ DOMAIN c = 1..Len(c) /\ Len(c) \in Nat
      /\ \A i \in DOMAIN c : w[i] = c[i]
      /\ w[Len(c) + 1] = x
  BY <1>1, AppendProperties, ListIs
<1>3. \A i \in DOMAIN w : i \in DOMAIN c \/ i = Len(c) + 1
  BY <1>2
<1>4. Sorted(w)
  <2>1. ASSUME NEW i \in DOMAIN w, NEW k \in DOMAIN w, i < k PROVE w[i].id < w[k].id
    <3>1. i \in DOMAIN c
      BY <1>2, <2>1
    <3>2. CASE k \in DOMAIN c
      BY <1>2, <2>1, <3>1, <3>2 DEF Sorted
    <3>3. CASE k = Len(c) + 1
      BY <1>2, <3>1, <3>3
    <3> QED
      BY <1>3, <3>2, <3>3
  <2> QED
    BY <2>1 DEF Sorted
<1>5. Ids(w) = Ids(c) \cup {x.id}
  <2>1. Len(c) + 1 \in DOMAIN w
    BY <1>2
  <2>2. \A i \in DOMAIN c : i \in DOMAIN w
    BY <1>2
  <2> QED
    BY <1>2, <1>3, <2>1, <2>2 DEF Ids
<1> QED
  BY <1>1, <1>2, <1>3, <1>4, <1>5

-----------------------------------------------------------------------------
(* The tables hold together: every row is in the list the index names, the *)
(* lists are in the order of the ids handed out so far, and a reply speaks *)
(* of an id that was handed out, so no later message can take its place.   *)

Span(row) ==
  row.edits > 0 =>
    /\ row.firstAt <= row.editedAt
    /\ row.editedAt - row.firstAt <= (row.edits - 1) * EditWindow

Indexed(r) == \A m \in MsgIds, s \in Sessions : m \in Ids(r.im[s]) <=> r.sessionOf[m] = s

RowsOK(r, n) == \A s \in Sessions :
  /\ Sorted(r.im[s])
  /\ \A i \in DOMAIN r.im[s] : r.im[s][i].id <= n /\ Span(r.im[s][i])

ReplyOK(r, n, m) == r.replies[m] # None =>
  /\ r.sessionOf[m] # None
  /\ r.replies[m].to <= n
  /\ \A s \in Sessions : \A i \in DOMAIN r.im[s] :
       r.im[s][i].id = r.replies[m].to =>
         s = r.sessionOf[m] /\ r.im[s][i].sender = r.replies[m].sender

TablesOK(r, n) ==
  /\ r \in Ram /\ Indexed(r) /\ RowsOK(r, n)
  /\ \A m \in MsgIds : ReplyOK(r, n, m)

LEMMA IdsNumbered ==
  /\ Numbered(MessageRow) /\ MsgIds \subseteq Nat /\ MaxMsgs \in Nat
  /\ EditWindow \in Nat /\ MaxEdits \in Nat \ {0} /\ MaxTime \in Nat
<1>1. /\ MaxMsgs \in Nat /\ EditWindow \in Nat /\ MaxTime \in Nat
      /\ MaxEdits \in Nat \ {0}
  BY LimitsAssumption
<1>2. MsgIds \subseteq Nat
  BY <1>1 DEF MsgIds
<1>3. \A x \in MessageRow : x.id \in MsgIds
  BY DEF MessageRow
<1>4. \A x \in MsgIds : x \in Int
  BY <1>1 DEF MsgIds
<1> QED
  BY <1>1, <1>2, <1>3, <1>4 DEF Numbered

LEMMA RamIs ==
  ASSUME NEW r \in Ram
  PROVE  /\ r.im \in [Sessions -> Seq(MessageRow)]
         /\ r.sessionOf \in [MsgIds -> Sessions \cup {None}]
         /\ r.replies \in [MsgIds -> {None} \cup Reply]
         /\ r = [im |-> r.im, sessionOf |-> r.sessionOf, replies |-> r.replies]
         /\ \A s \in Sessions : r.im[s] \in Seq(MessageRow)
BY DEF Ram

\* Rows that go, and relations that go with them, leave the tables in order.
LEMMA ShrinkOK ==
  ASSUME NEW n, NEW r, TablesOK(r, n), NEW q \in Ram, Indexed(q),
         \A s \in Sessions :
           /\ Sorted(q.im[s])
           /\ \A i \in DOMAIN q.im[s] : \E k \in DOMAIN r.im[s] : q.im[s][i] = r.im[s][k],
         \A m \in MsgIds : q.replies[m] # None =>
           /\ q.sessionOf[m] = r.sessionOf[m] /\ q.sessionOf[m] # None
           /\ q.replies[m] = r.replies[m]
  PROVE  TablesOK(q, n)
<1>1. RowsOK(q, n)
  BY DEF TablesOK, RowsOK
<1>2. \A m \in MsgIds : ReplyOK(q, n, m)
  <2>1. ASSUME NEW m \in MsgIds, q.replies[m] # None PROVE ReplyOK(q, n, m)
    <3>1. /\ q.sessionOf[m] = r.sessionOf[m] /\ q.sessionOf[m] # None
          /\ q.replies[m] = r.replies[m]
      BY <2>1
    <3>2. ReplyOK(r, n, m)
      BY DEF TablesOK
    <3> QED
      BY <2>1, <3>1, <3>2 DEF ReplyOK
  <2> QED
    BY <2>1 DEF ReplyOK
<1> QED
  BY <1>1, <1>2 DEF TablesOK

LEMMA ErasedOK ==
  ASSUME NEW n, NEW r, TablesOK(r, n), NEW m \in MsgIds
  PROVE  TablesOK(Erased(r, m), n)
<1>1. PICK q : q = Erased(r, m)
  OBVIOUS
<1>2. PICK s : s = r.sessionOf[m]
  OBVIOUS
<1>3. r \in Ram /\ Indexed(r)
  BY DEF TablesOK
<1>4. /\ q.im = [r.im EXCEPT ![s] = Without(@, m)]
      /\ q.sessionOf = [r.sessionOf EXCEPT ![m] = None]
      /\ q.replies = [r.replies EXCEPT ![m] = None]
      /\ q = [im |-> q.im, sessionOf |-> q.sessionOf, replies |-> q.replies]
  BY <1>1, <1>2, <1>3 DEF Erased, Ram
<1>5. \A x \in Sessions : q.im[x] = IF x = s THEN Without(r.im[x], m) ELSE r.im[x]
  BY <1>3, <1>4, RamIs
<1>6. \A x \in Sessions : r.im[x] \in Seq(MessageRow) /\ Sorted(r.im[x])
  BY <1>3, RamIs DEF TablesOK, RowsOK
<1>7. \A x \in Sessions :
        /\ q.im[x] \in Seq(MessageRow) /\ Sorted(q.im[x])
        /\ Ids(q.im[x]) = IF x = s THEN Ids(r.im[x]) \ {m} ELSE Ids(r.im[x])
        /\ \A i \in DOMAIN q.im[x] : \E k \in DOMAIN r.im[x] : q.im[x][i] = r.im[x][k]
  <2>1. ASSUME NEW x \in Sessions
        PROVE  /\ Without(r.im[x], m) \in Seq(MessageRow) /\ Sorted(Without(r.im[x], m))
               /\ Ids(Without(r.im[x], m)) = Ids(r.im[x]) \ {m}
               /\ \A i \in DOMAIN Without(r.im[x], m) :
                    \E k \in DOMAIN r.im[x] : Without(r.im[x], m)[i] = r.im[x][k]
    BY <1>6, WithoutIs, IdsNumbered
  <2>2. ASSUME NEW x \in Sessions
        PROVE  /\ q.im[x] \in Seq(MessageRow) /\ Sorted(q.im[x])
               /\ Ids(q.im[x]) = IF x = s THEN Ids(r.im[x]) \ {m} ELSE Ids(r.im[x])
               /\ \A i \in DOMAIN q.im[x] : \E k \in DOMAIN r.im[x] : q.im[x][i] = r.im[x][k]
    <3>1. CASE x = s
      <4>1. PICK w : w = Without(r.im[x], m)
        OBVIOUS
      <4>2. /\ w \in Seq(MessageRow) /\ Sorted(w)
            /\ Ids(w) = Ids(r.im[x]) \ {m}
            /\ \A i \in DOMAIN w : \E k \in DOMAIN r.im[x] : w[i] = r.im[x][k]
        BY <2>1, <4>1
      <4>3. q.im[x] = w
        BY <1>5, <3>1, <4>1
      <4> QED
        BY <3>1, <4>2, <4>3
    <3>2. CASE x # s
      BY <1>5, <1>6, <3>2
    <3> QED
      BY <3>1, <3>2
  <2> QED
    BY <2>2
<1>8. \A x \in MsgIds : /\ q.sessionOf[x] = IF x = m THEN None ELSE r.sessionOf[x]
                        /\ q.replies[x] = IF x = m THEN None ELSE r.replies[x]
  BY <1>3, <1>4, RamIs
<1>9. q \in Ram
  <2>1. DOMAIN q.im = Sessions
    BY <1>3, <1>4, RamIs
  <2>2. q.im \in [Sessions -> Seq(MessageRow)]
    BY <1>3, <1>4, <1>7, <2>1, RamIs
  <2>3. q.sessionOf \in [MsgIds -> Sessions \cup {None}]
    BY <1>3, <1>4, RamIs
  <2>4. q.replies \in [MsgIds -> {None} \cup Reply]
    BY <1>3, <1>4, RamIs
  <2> QED
    BY <1>4, <2>2, <2>3, <2>4 DEF Ram
<1>10. Indexed(q)
  <2>1. ASSUME NEW y \in MsgIds, NEW x \in Sessions
        PROVE  y \in Ids(q.im[x]) <=> q.sessionOf[y] = x
    <3>1. y \in Ids(r.im[x]) <=> r.sessionOf[y] = x
      BY <1>3 DEF Indexed
    <3>2. CASE y # m
      BY <1>7, <1>8, <3>1, <3>2
    <3>3. CASE y = m
      <4>1. q.sessionOf[y] # x
        BY <1>8, <3>3, NoneAssumption
      <4>2. y \notin Ids(q.im[x])
        BY <1>2, <1>7, <3>1, <3>3
      <4> QED
        BY <4>1, <4>2
    <3> QED
      BY <3>2, <3>3
  <2> QED
    BY <2>1 DEF Indexed
<1>11. \A x \in MsgIds : q.replies[x] # None =>
         /\ q.sessionOf[x] = r.sessionOf[x] /\ q.sessionOf[x] # None
         /\ q.replies[x] = r.replies[x]
  BY <1>8 DEF TablesOK, ReplyOK
<1>12. \A x \in Sessions :
         /\ Sorted(q.im[x])
         /\ \A i \in DOMAIN q.im[x] : \E k \in DOMAIN r.im[x] : q.im[x][i] = r.im[x][k]
  BY <1>7
<1>13. TablesOK(q, n)
  BY <1>9, <1>10, <1>11, <1>12, ShrinkOK
<1> QED
  BY <1>1, <1>13

LEMMA ClearedOK ==
  ASSUME NEW n, NEW r, TablesOK(r, n), NEW s \in Sessions
  PROVE  TablesOK(Cleared(r, s), n)
<1>1. PICK q : q = Cleared(r, s)
  OBVIOUS
<1>2. PICK gone : gone = Ids(r.im[s])
  OBVIOUS
<1>3. r \in Ram /\ Indexed(r)
  BY DEF TablesOK
<1>4. /\ q.im = [r.im EXCEPT ![s] = <<>>]
      /\ q.sessionOf = [m \in MsgIds |-> IF m \in gone THEN None ELSE r.sessionOf[m]]
      /\ q.replies = [m \in MsgIds |-> IF m \in gone THEN None ELSE r.replies[m]]
      /\ q = [im |-> q.im, sessionOf |-> q.sessionOf, replies |-> q.replies]
  BY <1>1, <1>2, <1>3 DEF Cleared, Ram
<1>5. \A x \in Sessions : q.im[x] = IF x = s THEN <<>> ELSE r.im[x]
  BY <1>3, <1>4, RamIs
<1>6. <<>> \in Seq(MessageRow) /\ DOMAIN <<>> = {}
  OBVIOUS
<1>7. \A x \in Sessions :
        /\ q.im[x] \in Seq(MessageRow) /\ Sorted(q.im[x])
        /\ Ids(q.im[x]) = IF x = s THEN {} ELSE Ids(r.im[x])
        /\ \A i \in DOMAIN q.im[x] : \E k \in DOMAIN r.im[x] : q.im[x][i] = r.im[x][k]
  <2>1. \A x \in Sessions : r.im[x] \in Seq(MessageRow) /\ Sorted(r.im[x])
    BY <1>3, RamIs DEF TablesOK, RowsOK
  <2>2. Sorted(<<>>) /\ Ids(<<>>) = {}
    BY <1>6 DEF Sorted, Ids
  <2> QED
    BY <1>5, <1>6, <2>1, <2>2
<1>8. \A x \in MsgIds : /\ q.sessionOf[x] = IF x \in gone THEN None ELSE r.sessionOf[x]
                        /\ q.replies[x] = IF x \in gone THEN None ELSE r.replies[x]
  BY <1>4
<1>9. q \in Ram
  <2>1. q.im \in [Sessions -> Seq(MessageRow)]
    BY <1>3, <1>4, <1>6, RamIs
  <2>2. q.sessionOf \in [MsgIds -> Sessions \cup {None}]
    BY <1>3, <1>4, RamIs
  <2>3. q.replies \in [MsgIds -> {None} \cup Reply]
    BY <1>3, <1>4, RamIs
  <2> QED
    BY <1>4, <2>1, <2>2, <2>3 DEF Ram
<1>10. Indexed(q)
  <2>1. ASSUME NEW y \in MsgIds, NEW x \in Sessions
        PROVE  y \in Ids(q.im[x]) <=> q.sessionOf[y] = x
    <3>1. /\ y \in Ids(r.im[x]) <=> r.sessionOf[y] = x
          /\ y \in gone <=> r.sessionOf[y] = s
      BY <1>2, <1>3 DEF Indexed
    <3>2. CASE y \in gone
      BY <1>7, <1>8, <3>1, <3>2, NoneAssumption
    <3>3. CASE y \notin gone
      BY <1>7, <1>8, <3>1, <3>3
    <3> QED
      BY <3>2, <3>3
  <2> QED
    BY <2>1 DEF Indexed
<1>11. \A x \in MsgIds : q.replies[x] # None =>
         /\ q.sessionOf[x] = r.sessionOf[x] /\ q.sessionOf[x] # None
         /\ q.replies[x] = r.replies[x]
  BY <1>8 DEF TablesOK, ReplyOK
<1>12. \A x \in Sessions :
         /\ Sorted(q.im[x])
         /\ \A i \in DOMAIN q.im[x] : \E k \in DOMAIN r.im[x] : q.im[x][i] = r.im[x][k]
  BY <1>7
<1>13. TablesOK(q, n)
  BY <1>9, <1>10, <1>11, <1>12, ShrinkOK
<1> QED
  BY <1>1, <1>13

LEMMA EmptyOK ==
  ASSUME NEW n
  PROVE  TablesOK(Empty, n)
<1>1. /\ Empty.im = [s \in Sessions |-> <<>>]
      /\ Empty.sessionOf = [m \in MsgIds |-> None]
      /\ Empty.replies = [m \in MsgIds |-> None]
  BY DEF Empty
<1>2. <<>> \in Seq(MessageRow) /\ DOMAIN <<>> = {}
  OBVIOUS
<1>3. Empty \in Ram
  BY <1>2 DEF Empty, Ram
<1>4. Sorted(<<>>) /\ Ids(<<>>) = {}
  BY <1>2 DEF Sorted, Ids
<1>5. Indexed(Empty)
  BY <1>1, <1>4, NoneAssumption DEF Indexed
<1>6. RowsOK(Empty, n)
  BY <1>1, <1>2, <1>4 DEF RowsOK
<1>7. \A m \in MsgIds : ReplyOK(Empty, n, m)
  BY <1>1 DEF ReplyOK
<1> QED
  BY <1>3, <1>5, <1>6, <1>7 DEF TablesOK

LEMMA NewRowIs ==
  ASSUME NEW m \in MsgIds, NEW u \in Users
  PROVE  NewRow(m, u) \in MessageRow /\ NewRow(m, u).id = m /\ Span(NewRow(m, u))
<1>1. 0 \in 0..MaxEdits /\ 0 \in Times
  BY IdsNumbered DEF Times
<1> QED
  BY <1>1 DEF NewRow, MessageRow, Span

LEMMA InsertedIs ==
  ASSUME NEW r \in Ram, NEW s \in Sessions, NEW row \in MessageRow
  PROVE  /\ Inserted(r, s, row) \in Ram
         /\ Inserted(r, s, row).im = [r.im EXCEPT ![s] = Append(@, row)]
         /\ Inserted(r, s, row).sessionOf = [r.sessionOf EXCEPT ![row.id] = s]
         /\ Inserted(r, s, row).replies = r.replies
<1>1. PICK q : q = Inserted(r, s, row)
  OBVIOUS
<1>2. /\ q.im = [r.im EXCEPT ![s] = Append(@, row)]
      /\ q.sessionOf = [r.sessionOf EXCEPT ![row.id] = s]
      /\ q.replies = r.replies
      /\ q = [im |-> q.im, sessionOf |-> q.sessionOf, replies |-> q.replies]
  BY <1>1 DEF Inserted, Ram
<1>3. Append(r.im[s], row) \in Seq(MessageRow)
  BY RamIs, AppendProperties
<1>4. q.im \in [Sessions -> Seq(MessageRow)]
  BY <1>2, <1>3, RamIs
<1>5. q.sessionOf \in [MsgIds -> Sessions \cup {None}]
  <2>1. r.sessionOf \in [MsgIds -> Sessions \cup {None}] /\ s \in Sessions \cup {None}
    BY RamIs
  <2> QED
    BY <1>2, <2>1
<1>6. q.replies \in [MsgIds -> {None} \cup Reply]
  BY <1>2, RamIs
<1>7. q \in Ram
  BY <1>2, <1>4, <1>5, <1>6 DEF Ram
<1> QED
  BY <1>1, <1>2, <1>7

\* The message that comes next is nobody's message yet, and nobody's reply.
LEMMA InsertedOK ==
  ASSUME NEW n \in Nat, n + 1 <= MaxMsgs, NEW r, TablesOK(r, n),
         NEW s \in Sessions, NEW u \in Users
  PROVE  TablesOK(Inserted(r, s, NewRow(n + 1, u)), n + 1)
<1>0. n + 1 \in MsgIds
  BY IdsNumbered DEF MsgIds
<1>1. PICK row \in MessageRow : row = NewRow(n + 1, u) /\ row.id = n + 1 /\ Span(row)
  BY <1>0, NewRowIs
<1>2. r \in Ram /\ Indexed(r)
  BY DEF TablesOK
<1>3. PICK q \in Ram : /\ q = Inserted(r, s, row)
                       /\ q.im = [r.im EXCEPT ![s] = Append(@, row)]
                       /\ q.sessionOf = [r.sessionOf EXCEPT ![n + 1] = s]
                       /\ q.replies = r.replies
  BY <1>1, <1>2, InsertedIs
<1>4. \A x \in Sessions : q.im[x] = IF x = s THEN Append(r.im[x], row) ELSE r.im[x]
  BY <1>2, <1>3, RamIs
<1>5. \A x \in MsgIds : q.sessionOf[x] = IF x = n + 1 THEN s ELSE r.sessionOf[x]
  BY <1>2, <1>3, RamIs
<1>6. ASSUME NEW x \in Sessions
      PROVE  /\ r.im[x] \in Seq(MessageRow) /\ Sorted(r.im[x])
             /\ \A i \in DOMAIN r.im[x] : /\ r.im[x][i].id <= n /\ r.im[x][i].id \in Int
                                          /\ Span(r.im[x][i])
             /\ n + 1 \notin Ids(r.im[x])
  <2>1. /\ r.im[x] \in Seq(MessageRow) /\ Sorted(r.im[x])
        /\ \A i \in DOMAIN r.im[x] : r.im[x][i].id <= n /\ Span(r.im[x][i])
    BY <1>2, RamIs DEF TablesOK, RowsOK
  <2>2. \A i \in DOMAIN r.im[x] : r.im[x][i].id \in Int
    BY <2>1, ListIs, IdsNumbered DEF Numbered
  <2>3. n + 1 \notin Ids(r.im[x])
    BY <2>1, <2>2 DEF Ids
  <2> QED
    BY <2>1, <2>2, <2>3
<1>7. r.sessionOf[n + 1] = None
  <2>1. r.sessionOf[n + 1] \in Sessions \cup {None}
    BY <1>0, <1>2, RamIs
  <2>2. ASSUME NEW x \in Sessions PROVE r.sessionOf[n + 1] # x
    BY <1>0, <1>2, <1>6 DEF Indexed
  <2> QED
    BY <2>1, <2>2
<1>8. ASSUME NEW x \in Sessions
      PROVE  /\ Sorted(q.im[x])
             /\ Ids(q.im[x]) = IF x = s THEN Ids(r.im[x]) \cup {n + 1} ELSE Ids(r.im[x])
             /\ \A i \in DOMAIN q.im[x] :
                  (q.im[x][i] = row /\ x = s) \/ \E k \in DOMAIN r.im[x] : q.im[x][i] = r.im[x][k]
  <2>1. CASE x = s
    <3>1. \A i \in DOMAIN r.im[x] : r.im[x][i].id < row.id
      BY <1>1, <1>6
    <3>2. /\ Sorted(Append(r.im[x], row))
          /\ Ids(Append(r.im[x], row)) = Ids(r.im[x]) \cup {row.id}
          /\ \A i \in DOMAIN Append(r.im[x], row) :
               Append(r.im[x], row)[i] = row
                 \/ \E k \in DOMAIN r.im[x] : Append(r.im[x], row)[i] = r.im[x][k]
      BY <1>6, <3>1, AppendIs, IdsNumbered
    <3>3. q.im[x] = Append(r.im[x], row)
      BY <1>4, <2>1
    <3>4. Ids(q.im[x]) = Ids(r.im[x]) \cup {n + 1}
      BY <1>1, <3>2, <3>3
    <3>5. /\ Sorted(q.im[x])
          /\ \A i \in DOMAIN q.im[x] :
               q.im[x][i] = row \/ \E k \in DOMAIN r.im[x] : q.im[x][i] = r.im[x][k]
      BY <3>2, <3>3
    <3> QED
      BY <2>1, <3>4, <3>5
  <2>2. CASE x # s
    BY <1>4, <1>6, <2>2
  <2> QED
    BY <2>1, <2>2
<1>9. RowsOK(q, n + 1)
  <2>1. ASSUME NEW x \in Sessions, NEW i \in DOMAIN q.im[x]
        PROVE  q.im[x][i].id <= n + 1 /\ Span(q.im[x][i])
    <3>1. CASE q.im[x][i] = row
      BY <1>1, <3>1
    <3>2. ASSUME NEW k \in DOMAIN r.im[x], q.im[x][i] = r.im[x][k]
          PROVE  q.im[x][i].id <= n + 1 /\ Span(q.im[x][i])
      BY <1>6, <3>2
    <3> QED
      BY <1>8, <3>1, <3>2
  <2> QED
    BY <1>8, <2>1 DEF RowsOK
<1>10. Indexed(q)
  <2>1. ASSUME NEW y \in MsgIds, NEW x \in Sessions
        PROVE  y \in Ids(q.im[x]) <=> q.sessionOf[y] = x
    <3>1. y \in Ids(r.im[x]) <=> r.sessionOf[y] = x
      BY <1>2 DEF Indexed
    <3>2. CASE y = n + 1
      BY <1>5, <1>6, <1>8, <3>2
    <3>3. CASE y # n + 1
      BY <1>5, <1>8, <3>1, <3>3
    <3> QED
      BY <3>2, <3>3
  <2> QED
    BY <2>1 DEF Indexed
<1>11. ASSUME NEW m \in MsgIds, q.replies[m] # None PROVE ReplyOK(q, n + 1, m)
  <2>1. /\ r.replies[m] # None /\ q.replies[m] = r.replies[m]
        /\ r.replies[m].to \in MsgIds
    BY <1>2, <1>3, <1>11, RamIs DEF Reply
  <2>2. ReplyOK(r, n, m)
    BY DEF TablesOK
  <2>3. m # n + 1 /\ r.replies[m].to <= n /\ r.sessionOf[m] # None
    BY <1>7, <2>1, <2>2 DEF ReplyOK
  <2>4. r.replies[m].to # n + 1 /\ r.replies[m].to <= n + 1
    <3>1. r.replies[m].to \in Nat
      BY <2>1, IdsNumbered
    <3> QED
      BY <2>3, <3>1
  <2>5. q.sessionOf[m] = r.sessionOf[m]
    BY <1>5, <2>3
  <2>6. ASSUME NEW x \in Sessions, NEW i \in DOMAIN q.im[x], q.im[x][i].id = q.replies[m].to
        PROVE  x = q.sessionOf[m] /\ q.im[x][i].sender = q.replies[m].sender
    <3>1. q.im[x][i] # row
      BY <1>1, <2>1, <2>4, <2>6
    <3>2. PICK k \in DOMAIN r.im[x] : q.im[x][i] = r.im[x][k]
      BY <1>8, <3>1
    <3> QED
      BY <2>1, <2>2, <2>5, <2>6, <3>2 DEF ReplyOK
  <2> QED
    BY <2>1, <2>3, <2>4, <2>5, <2>6 DEF ReplyOK
<1>12. \A m \in MsgIds : ReplyOK(q, n + 1, m)
  BY <1>11 DEF ReplyOK
<1> QED
  BY <1>1, <1>3, <1>9, <1>10, <1>12 DEF TablesOK

-----------------------------------------------------------------------------
(* Batches, and what follows from one number to the next.                  *)

Smaller == {p \in Nat \X Nat : p[1] < p[2]}

LEMMA UpTo ==
  ASSUME NEW k \in Nat, NEW G, 0 \in G, \A i \in 1..k : i - 1 \in G => i \in G
  PROVE  0..k \subseteq G
<1> SUFFICES ASSUME NEW x \in 0..k, x \notin G PROVE FALSE
  OBVIOUS
<1>1. IsWellFoundedOn(Smaller, Nat)
  BY NatLessThanWellFounded DEF OpToRel, Smaller
<1>2. PICK Bad \in SUBSET Nat : Bad = {i \in 0..k : i \notin G}
  <2>1. {i \in 0..k : i \notin G} \in SUBSET Nat
    OBVIOUS
  <2> QED
    BY <2>1
<1>3. Bad # {}
  BY <1>2
<1>4. PICK j \in Bad : \A i \in Bad : ~(<<i, j>> \in Smaller)
  BY <1>1, <1>3, WFMin
<1>5. j \in Nat /\ j \in 0..k /\ j \notin G
  BY <1>2
<1>6. j # 0 /\ j - 1 \in Nat /\ j \in 1..k /\ j - 1 \in 0..k
  BY <1>5
<1>7. j - 1 \in Bad
  BY <1>2, <1>5, <1>6
<1>8. <<j - 1, j>> \in Smaller
  <2>1. <<j - 1, j>> \in Nat \X Nat /\ <<j - 1, j>>[1] < <<j - 1, j>>[2]
    BY <1>5, <1>6
  <2> QED
    BY <2>1 DEF Smaller
<1> QED
  BY <1>4, <1>7, <1>8

\* Steps that stay in a set have their results, one after the other.
Results(S, k, first, step, f) ==
  /\ f \in [0..k -> S]
  /\ f[0] = first
  /\ \A i \in 1..k : f[i] = step[i][f[i - 1]]

LEMMA Iterates ==
  ASSUME NEW S, NEW k \in Nat, NEW first \in S, NEW step, step \in [1..k -> [S -> S]]
  PROVE  \E f : Results(S, k, first, step, f)
<1> DEFINE Reached(j, f) == f[0] = first /\ \A i \in 1..j : f[i] = step[i][f[i - 1]]
           G == {j \in 0..k : \E f \in [0..j -> S] : Reached(j, f)}
<1>1. 0 \in G
  <2>1. PICK f : f = [i \in 0..0 |-> first]
    OBVIOUS
  <2>2. f \in [0..0 -> S] /\ f[0] = first
    BY <2>1
  <2>3. Reached(0, f)
    BY <2>2
  <2> QED
    BY <2>2, <2>3
<1>2. ASSUME NEW j \in 1..k, j - 1 \in G PROVE j \in G
  <2>1. PICK f \in [0..(j - 1) -> S] : Reached(j - 1, f)
    BY <1>2
  <2>2. j \in Nat /\ j - 1 \in 0..(j - 1) /\ j \in 0..k
    OBVIOUS
  <2>3. PICK y \in S : y = step[j][f[j - 1]]
    BY <2>2
  <2>4. PICK g : g = [i \in 0..j |-> IF i = j THEN y ELSE f[i]]
    OBVIOUS
  <2>5. \A i \in 0..(j - 1) : i \in 0..j /\ g[i] = f[i]
    BY <2>2, <2>4
  <2>6. g \in [0..j -> S]
    <3>1. \A i \in 0..j : i # j => i \in 0..(j - 1)
      BY <2>2
    <3> QED
      BY <2>4, <3>1
  <2>7. g[0] = first
    BY <2>1, <2>2, <2>5
  <2>8. ASSUME NEW i \in 1..j PROVE g[i] = step[i][g[i - 1]]
    <3>1. CASE i = j
      <4>1. g[j - 1] = f[j - 1] /\ g[j] = y
        BY <2>2, <2>4, <2>5
      <4> QED
        BY <2>3, <3>1, <4>1
    <3>2. CASE i # j
      <4>1. i \in 1..(j - 1) /\ i \in 0..(j - 1) /\ i - 1 \in 0..(j - 1)
        BY <2>2, <3>2
      <4> QED
        BY <2>1, <2>5, <4>1
    <3> QED
      BY <3>1, <3>2
  <2>9. Reached(j, g)
    BY <2>7, <2>8
  <2> QED
    BY <2>2, <2>6, <2>9
<1> HIDE DEF Reached, G
<1>3. 0..k \subseteq G
  BY <1>1, <1>2, UpTo
<1>4. k \in G
  BY <1>3
<1> QED
  BY <1>4 DEF G, Reached, Results

\* The results of storing the messages of a batch one by one.
Storing(s, u, k, f) ==
  f = [i \in 0..k |-> IF i = 0 THEN ram
                      ELSE Inserted(f[i - 1], s, NewRow(stored + i, u))]

\* A batch leaves the tables as so many single calls would.
LEMMA BatchOK ==
  ASSUME TablesOK(ram, stored), stored \in Nat, NEW k \in Nat, stored + k <= MaxMsgs,
         NEW s \in Sessions, NEW u \in Users
  PROVE  TablesOK(InsertedBatch(s, u, k), stored + k)
<1>1. ASSUME NEW i \in 1..k PROVE NewRow(stored + i, u) \in MessageRow
  <2>1. stored + i \in MsgIds
    BY IdsNumbered DEF MsgIds
  <2> QED
    BY <2>1, NewRowIs
<1>2. PICK step : step = [i \in 1..k |-> [r \in Ram |-> Inserted(r, s, NewRow(stored + i, u))]]
  OBVIOUS
<1>3. step \in [1..k -> [Ram -> Ram]]
  BY <1>1, <1>2, InsertedIs
<1>4. ram \in Ram
  BY DEF TablesOK
<1>5. PICK f \in [0..k -> Ram] : f[0] = ram /\ \A i \in 1..k : f[i] = step[i][f[i - 1]]
  <2>1. \E f : Results(Ram, k, ram, step, f)
    BY <1>3, <1>4, Iterates
  <2> QED
    BY <2>1 DEF Results
<1>6. \A i \in 1..k : i - 1 \in 0..k /\ f[i] = Inserted(f[i - 1], s, NewRow(stored + i, u))
  BY <1>2, <1>5
<1>7. Storing(s, u, k, f)
  <2>1. \A i \in 0..k : i # 0 => i \in 1..k
    OBVIOUS
  <2>2. \A i \in 0..k : f[i] = IF i = 0 THEN ram
                               ELSE Inserted(f[i - 1], s, NewRow(stored + i, u))
    BY <1>5, <1>6, <2>1
  <2> QED
    BY <1>5, <2>2 DEF Storing
<1>8. PICK g : g = CHOOSE x : Storing(s, u, k, x)
  OBVIOUS
<1>9. Storing(s, u, k, g)
  BY <1>7, <1>8
<1>10. InsertedBatch(s, u, k) = g[k]
  BY <1>8 DEF InsertedBatch, Storing
<1>11. g[0] = ram /\ \A i \in 1..k : g[i] = Inserted(g[i - 1], s, NewRow(stored + i, u))
  <2>1. \A i \in 0..k : g[i] = IF i = 0 THEN ram
                               ELSE Inserted(g[i - 1], s, NewRow(stored + i, u))
    BY <1>9 DEF Storing
  <2>2. 0 \in 0..k /\ \A i \in 1..k : i \in 0..k /\ i # 0
    OBVIOUS
  <2> QED
    BY <2>1, <2>2
<1> DEFINE G == {i \in 0..k : TablesOK(g[i], stored + i)}
<1>12. 0 \in G
  BY <1>11
<1>13. ASSUME NEW i \in 1..k, i - 1 \in G PROVE i \in G
  <2>1. PICK n \in Nat : n = stored + (i - 1) /\ n + 1 = stored + i /\ n + 1 <= MaxMsgs
    <3>1. /\ stored + (i - 1) \in Nat /\ (stored + (i - 1)) + 1 = stored + i
          /\ stored + i <= MaxMsgs
      BY IdsNumbered
    <3> QED
      BY <3>1
  <2>2. TablesOK(g[i - 1], n)
    BY <1>13, <2>1
  <2>3. TablesOK(Inserted(g[i - 1], s, NewRow(n + 1, u)), n + 1)
    BY <2>1, <2>2, InsertedOK
  <2>4. TablesOK(g[i], stored + i)
    BY <1>11, <2>1, <2>3
  <2> QED
    BY <2>4
<1> HIDE DEF G
<1>14. k \in G
  BY <1>12, <1>13, UpTo
<1> QED
  BY <1>10, <1>14 DEF G

\* The results of deleting them again, newest first.
Undoing(batch, k, f) ==
  f = [i \in 0..k |-> IF i = 0 THEN batch ELSE Erased(f[i - 1], BatchIds(k)[k + 1 - i])]

LEMMA RollbackOK ==
  ASSUME stored \in Nat, NEW k \in Nat, stored + k <= MaxMsgs,
         NEW batch, TablesOK(batch, stored + k)
  PROVE  TablesOK(RolledBack(batch, k), stored + k)
<1> DEFINE S == {r \in Ram : TablesOK(r, stored + k)}
<1>1. ASSUME NEW i \in 1..k PROVE BatchIds(k)[k + 1 - i] \in MsgIds
  <2>1. k + 1 - i \in 1..k
    OBVIOUS
  <2>2. BatchIds(k)[k + 1 - i] = stored + (k + 1 - i)
    BY <2>1 DEF BatchIds
  <2> QED
    BY <2>1, <2>2, IdsNumbered DEF MsgIds
<1>2. \A r : TablesOK(r, stored + k) => r \in S
  BY DEF TablesOK
<1>3. PICK step : step = [i \in 1..k |-> [r \in S |-> Erased(r, BatchIds(k)[k + 1 - i])]]
  OBVIOUS
<1>4. ASSUME NEW i \in 1..k, NEW r \in S PROVE Erased(r, BatchIds(k)[k + 1 - i]) \in S
  <2>1. TablesOK(r, stored + k)
    OBVIOUS
  <2>2. TablesOK(Erased(r, BatchIds(k)[k + 1 - i]), stored + k)
    BY <1>1, <2>1, ErasedOK
  <2> QED
    BY <1>2, <2>2
<1>5. batch \in S
  BY <1>2
<1> HIDE DEF S
<1>6. step \in [1..k -> [S -> S]]
  BY <1>3, <1>4
<1>7. PICK f \in [0..k -> S] : f[0] = batch /\ \A i \in 1..k : f[i] = step[i][f[i - 1]]
  <2>1. \E f : Results(S, k, batch, step, f)
    BY <1>5, <1>6, Iterates
  <2> QED
    BY <2>1 DEF Results
<1>8. \A i \in 1..k : i - 1 \in 0..k /\ f[i] = Erased(f[i - 1], BatchIds(k)[k + 1 - i])
  BY <1>3, <1>7
<1>9. Undoing(batch, k, f)
  <2>1. \A i \in 0..k : i # 0 => i \in 1..k
    OBVIOUS
  <2>2. \A i \in 0..k : f[i] = IF i = 0 THEN batch
                               ELSE Erased(f[i - 1], BatchIds(k)[k + 1 - i])
    BY <1>7, <1>8, <2>1
  <2> QED
    BY <1>7, <2>2 DEF Undoing
<1>10. PICK g : g = CHOOSE x : Undoing(batch, k, x)
  OBVIOUS
<1>11. Undoing(batch, k, g)
  BY <1>9, <1>10
<1>12. RolledBack(batch, k) = g[k]
  BY <1>10 DEF RolledBack, Undoing
<1>13. g[0] = batch /\ \A i \in 1..k : g[i] = Erased(g[i - 1], BatchIds(k)[k + 1 - i])
  <2>1. \A i \in 0..k : g[i] = IF i = 0 THEN batch
                               ELSE Erased(g[i - 1], BatchIds(k)[k + 1 - i])
    BY <1>11 DEF Undoing
  <2>2. 0 \in 0..k /\ \A i \in 1..k : i \in 0..k /\ i # 0
    OBVIOUS
  <2> QED
    BY <2>1, <2>2
<1> DEFINE G == {i \in 0..k : g[i] \in S}
<1>14. 0 \in G
  BY <1>5, <1>13
<1>15. ASSUME NEW i \in 1..k, i - 1 \in G PROVE i \in G
  BY <1>4, <1>13, <1>15
<1> HIDE DEF G
<1>16. k \in G
  BY <1>14, <1>15, UpTo
<1> QED
  BY <1>12, <1>16 DEF G, S

-----------------------------------------------------------------------------
(* The calls (TablesAgree, RepliesSound, EditSpan).                        *)

MessageInv ==
  /\ TablesOK(ram, stored)
  /\ stored \in 0..MaxMsgs
  /\ members \subseteq Groups \X Users

LEMMA RowIs ==
  ASSUME TablesOK(ram, stored), NEW m \in MsgIds, Exists(m)
  PROVE  /\ ram.sessionOf[m] \in Sessions
         /\ \E i \in DOMAIN ram.im[ram.sessionOf[m]] :
              /\ ram.im[ram.sessionOf[m]][i] = RowOf(m)
              /\ ram.im[ram.sessionOf[m]][i].id = m
         /\ RowOf(m) \in MessageRow /\ Span(RowOf(m))
<1>1. ram \in Ram /\ Indexed(ram)
  BY DEF TablesOK
<1>2. PICK s \in Sessions : s = ram.sessionOf[m]
  BY <1>1, RamIs DEF Exists
<1>3. m \in Ids(ram.im[s])
  BY <1>1, <1>2 DEF Indexed
<1>4. PICK at : at = CHOOSE i \in Located(ram, m) : TRUE
  OBVIOUS
<1>5. at \in Located(ram, m)
  BY <1>2, <1>3, <1>4 DEF Located, Ids
<1>6. at \in DOMAIN ram.im[s] /\ ram.im[s][at].id = m /\ RowOf(m) = ram.im[s][at]
  BY <1>2, <1>4, <1>5 DEF Located, RowOf
<1>7. ram.im[s] \in Seq(MessageRow)
  BY <1>1, RamIs
<1>8. RowOf(m) \in MessageRow
  BY <1>6, <1>7, ListIs
<1>9. Span(RowOf(m))
  BY <1>6 DEF TablesOK, RowsOK
<1> QED
  BY <1>2, <1>6, <1>8, <1>9

\* A row that is changed stays in its place, with its id and its sender.
LEMMA SetRowOK ==
  ASSUME TablesOK(ram, stored), NEW m \in MsgIds, Exists(m), NEW row \in MessageRow,
         row.id = m, row.sender = RowOf(m).sender, Span(row), SetRow(m, row)
  PROVE  TablesOK(ram', stored)
<1>1. ram \in Ram /\ Indexed(ram)
  BY DEF TablesOK
<1>2. PICK s \in Sessions : s = ram.sessionOf[m]
  BY RowIs
<1>3. PICK c \in Seq(MessageRow) : c = ram.im[s]
  BY <1>1, RamIs
<1>4. PICK at \in DOMAIN c : c[at] = RowOf(m) /\ c[at].id = m
  BY <1>2, <1>3, RowIs
<1>5. PICK d : d = [i \in DOMAIN c |-> IF c[i].id = m THEN row ELSE c[i]]
  OBVIOUS
<1>6. d \in Seq(MessageRow)
  <2>1. DOMAIN c = 1..Len(c) /\ Len(c) \in Nat /\ \A i \in 1..Len(c) : c[i] \in MessageRow
    BY ListIs
  <2>2. d \in [1..Len(c) -> MessageRow]
    BY <1>5, <2>1
  <2> QED
    BY <2>1, <2>2, SeqDef
<1>7. PICK q : q = ram'
  OBVIOUS
<1>8. /\ q.im = [ram.im EXCEPT ![s] = d]
      /\ q.sessionOf = ram.sessionOf /\ q.replies = ram.replies
      /\ q = [im |-> q.im, sessionOf |-> q.sessionOf, replies |-> q.replies]
  BY <1>1, <1>2, <1>3, <1>5, <1>7 DEF SetRow, Ram
<1>9. q \in Ram
  <2>1. q.im \in [Sessions -> Seq(MessageRow)]
    BY <1>1, <1>6, <1>8, RamIs
  <2> QED
    BY <1>1, <1>8, <2>1 DEF Ram
<1>10. \A x \in Sessions : q.im[x] = IF x = s THEN d ELSE ram.im[x]
  BY <1>1, <1>8, RamIs
<1>11. /\ DOMAIN d = DOMAIN c
       /\ \A i \in DOMAIN c : /\ d[i].id = c[i].id
                              /\ i = at => d[i] = row
                              /\ i # at => d[i] = c[i]
  <2>1. Sorted(c)
    BY <1>3 DEF TablesOK, RowsOK
  <2>2. \A i \in DOMAIN c : c[i].id = m => i = at
    BY <1>4, <2>1, OnePlaceOf, IdsNumbered
  <2> QED
    BY <1>4, <1>5, <2>2
<1>12. \A x \in Sessions :
         /\ DOMAIN q.im[x] = DOMAIN ram.im[x]
         /\ \A i \in DOMAIN ram.im[x] :
              /\ q.im[x][i].id = ram.im[x][i].id
              /\ q.im[x][i].sender = ram.im[x][i].sender
              /\ q.im[x][i] = row \/ q.im[x][i] = ram.im[x][i]
  <2>1. ASSUME NEW x \in Sessions, x = s
        PROVE  /\ DOMAIN q.im[x] = DOMAIN ram.im[x]
               /\ \A i \in DOMAIN ram.im[x] :
                    /\ q.im[x][i].id = ram.im[x][i].id
                    /\ q.im[x][i].sender = ram.im[x][i].sender
                    /\ q.im[x][i] = row \/ q.im[x][i] = ram.im[x][i]
    <3>1. q.im[x] = d /\ ram.im[x] = c
      BY <1>3, <1>10, <2>1
    <3>2. \A i \in DOMAIN c : d[i].sender = c[i].sender /\ (d[i] = row \/ d[i] = c[i])
      BY <1>4, <1>11
    <3> QED
      BY <1>11, <3>1, <3>2
  <2>2. \A x \in Sessions : x # s => q.im[x] = ram.im[x]
    BY <1>10
  <2> QED
    BY <2>1, <2>2
<1>13. RowsOK(q, stored)
  <2>1. RowsOK(ram, stored)
    BY DEF TablesOK
  <2>2. ASSUME NEW x \in Sessions PROVE Sorted(q.im[x])
    BY <1>12, <2>1 DEF Sorted, RowsOK
  <2>3. ASSUME NEW x \in Sessions, NEW i \in DOMAIN q.im[x]
        PROVE  q.im[x][i].id <= stored /\ Span(q.im[x][i])
    BY <1>12, <2>1 DEF RowsOK
  <2> QED
    BY <2>2, <2>3 DEF RowsOK
<1>14. Indexed(q)
  <2>1. \A x \in Sessions : Ids(q.im[x]) = Ids(ram.im[x])
    BY <1>12 DEF Ids
  <2> QED
    BY <1>1, <1>8, <2>1 DEF Indexed
<1>15. \A x \in MsgIds : ReplyOK(q, stored, x)
  <2>1. ASSUME NEW x \in MsgIds PROVE ReplyOK(q, stored, x)
    <3>1. ReplyOK(ram, stored, x)
      BY DEF TablesOK
    <3> QED
      BY <1>8, <1>12, <3>1 DEF ReplyOK
  <2> QED
    BY <2>1
<1> QED
  BY <1>7, <1>9, <1>13, <1>14, <1>15 DEF TablesOK

LEMMA MarkOK ==
  ASSUME TablesOK(ram, stored), NEW m \in MsgIds, MarkMessageRead(m)
  PROVE  TablesOK(ram', stored)
<1>1. PICK row : row = [RowOf(m) EXCEPT !.read = TRUE]
  OBVIOUS
<1>2. Exists(m) /\ SetRow(m, row)
  BY <1>1 DEF MarkMessageRead
<1>3. RowOf(m) \in MessageRow /\ RowOf(m).id = m /\ Span(RowOf(m))
  BY <1>2, RowIs
<1>4. /\ row \in MessageRow /\ row.id = m /\ row.sender = RowOf(m).sender
      /\ row.edits = RowOf(m).edits /\ row.firstAt = RowOf(m).firstAt
      /\ row.editedAt = RowOf(m).editedAt
  BY <1>1, <1>3 DEF MessageRow
<1>5. Span(row)
  BY <1>3, <1>4 DEF Span
<1> QED
  BY <1>2, <1>4, <1>5, SetRowOK

\* Each edit adds at most EditWindow to the span of the edits before it.
LEMMA EditOK ==
  ASSUME TablesOK(ram, stored), NEW u \in Users, NEW m \in MsgIds, NEW t \in Times,
         EditMessage(u, m, t)
  PROVE  TablesOK(ram', stored)
<1>1. PICK old : old = RowOf(m)
  OBVIOUS
<1>2. PICK row : row = [old EXCEPT !.edits = @ + 1, !.editedAt = t,
                                   !.firstAt = IF old.edits = 0 THEN t ELSE @]
  OBVIOUS
<1>3. /\ Exists(m) /\ SetRow(m, row)
      /\ old.edits < MaxEdits
      /\ old.edits > 0 => old.editedAt <= t /\ t - old.editedAt <= EditWindow
  BY <1>1, <1>2 DEF EditMessage, EditAllowed
<1>4. old \in MessageRow /\ old.id = m /\ Span(old)
  BY <1>1, <1>3, RowIs
<1>5. /\ old.edits \in Nat /\ old.editedAt \in Nat /\ old.firstAt \in Nat
      /\ t \in Nat /\ EditWindow \in Nat /\ MaxEdits \in Nat
  BY <1>4, IdsNumbered DEF MessageRow, Times
<1>6. /\ row.id = m /\ row.sender = old.sender
      /\ row.edits = old.edits + 1 /\ row.editedAt = t
      /\ row.firstAt = IF old.edits = 0 THEN t ELSE old.firstAt
  BY <1>2, <1>4 DEF MessageRow
<1>7. row \in MessageRow
  <2>1. old.edits + 1 \in 0..MaxEdits
    BY <1>3, <1>5
  <2>2. (IF old.edits = 0 THEN t ELSE old.firstAt) \in Times
    BY <1>4 DEF MessageRow
  <2> QED
    BY <1>2, <1>4, <2>1, <2>2 DEF MessageRow
<1>8. Span(row)
  <2>1. CASE old.edits = 0
    BY <1>5, <1>6, <2>1 DEF Span
  <2>2. CASE old.edits # 0
    <3>1. old.firstAt <= old.editedAt /\ old.editedAt <= t /\ t - old.editedAt <= EditWindow
      BY <1>3, <1>4, <1>5, <2>2 DEF Span
    <3>2. old.editedAt - old.firstAt <= (old.edits - 1) * EditWindow
      BY <1>4, <1>5, <2>2 DEF Span
    <3>3. PICK k \in Nat : k = old.edits - 1 /\ row.edits - 1 = k + 1
      <4>1. old.edits - 1 \in Nat /\ row.edits - 1 = (old.edits - 1) + 1
        BY <1>5, <1>6, <2>2
      <4> QED
        BY <4>1
    <3>4. (k + 1) * EditWindow = k * EditWindow + EditWindow /\ k * EditWindow \in Nat
      BY <1>5
    <3>5. old.editedAt - old.firstAt <= k * EditWindow
      BY <3>2, <3>3
    <3>6. t - old.firstAt <= (k + 1) * EditWindow /\ old.firstAt <= t
      <4>1. PICK w \in Nat : w = k * EditWindow
        BY <3>4
      <4>2. t - old.firstAt <= w + EditWindow
        BY <1>5, <3>1, <3>5, <4>1
      <4> QED
        BY <1>5, <3>1, <3>4, <4>1, <4>2
    <3> QED
      BY <1>6, <2>2, <3>3, <3>6 DEF Span
  <2> QED
    BY <2>1, <2>2
<1> QED
  BY <1>1, <1>3, <1>6, <1>7, <1>8, SetRowOK

\* What is replied to is a message of that sender, in the session of the reply.
LEMMA ReplyStep ==
  ASSUME TablesOK(ram, stored), stored \in Nat, NEW m \in MsgIds, NEW to \in MsgIds,
         NEW u \in Users, StoreMessageReplyRelation(m, to, u)
  PROVE  TablesOK(ram', stored)
<1>1. ram \in Ram /\ Indexed(ram)
  BY DEF TablesOK
<1>2. PICK reply : reply = [to |-> to, sender |-> u]
  OBVIOUS
<1>3. PICK q : q = ram'
  OBVIOUS
<1>4. /\ Exists(m) /\ Exists(to)
      /\ ram.sessionOf[m] = ram.sessionOf[to]
      /\ RowOf(to).sender = u
      /\ q = [ram EXCEPT !.replies[m] = reply]
  BY <1>2, <1>3 DEF StoreMessageReplyRelation, ReplyAllowed
<1>5. /\ q.im = ram.im /\ q.sessionOf = ram.sessionOf
      /\ q.replies = [ram.replies EXCEPT ![m] = reply]
      /\ q = [im |-> q.im, sessionOf |-> q.sessionOf, replies |-> q.replies]
  BY <1>1, <1>4 DEF Ram
<1>6. q \in Ram
  <2>1. reply \in Reply
    BY <1>2 DEF Reply
  <2>2. q.replies \in [MsgIds -> {None} \cup Reply]
    BY <1>1, <1>5, <2>1, RamIs
  <2> QED
    BY <1>1, <1>5, <2>2 DEF Ram
<1>7. Indexed(q) /\ RowsOK(q, stored)
  BY <1>5 DEF TablesOK, Indexed, RowsOK
<1>8. PICK s \in Sessions : s = ram.sessionOf[to]
  BY <1>4, RowIs
<1>9. PICK at \in DOMAIN ram.im[s] : ram.im[s][at] = RowOf(to) /\ ram.im[s][at].id = to
  BY <1>4, <1>8, RowIs
<1>10. ReplyOK(q, stored, m)
  <2>1. q.replies[m] = reply /\ reply.to = to /\ reply.sender = u
    BY <1>1, <1>2, <1>5, RamIs
  <2>2. to <= stored
    BY <1>9 DEF TablesOK, RowsOK
  <2>3. ASSUME NEW x \in Sessions, NEW i \in DOMAIN ram.im[x], ram.im[x][i].id = to
        PROVE  x = s /\ ram.im[x][i].sender = u
    <3>1. to \in Ids(ram.im[x])
      BY <2>3 DEF Ids
    <3>2. x = s
      BY <1>1, <1>8, <3>1 DEF Indexed
    <3>3. ram.im[s] \in Seq(MessageRow) /\ Sorted(ram.im[s])
      BY <1>1, RamIs DEF TablesOK, RowsOK
    <3>4. i = at
      BY <1>9, <2>3, <3>2, <3>3, OnePlaceOf, IdsNumbered
    <3> QED
      BY <1>4, <1>9, <3>2, <3>4
  <2> QED
    BY <1>4, <1>5, <1>8, <2>1, <2>2, <2>3 DEF ReplyOK, Exists
<1>11. ASSUME NEW x \in MsgIds PROVE ReplyOK(q, stored, x)
  <2>1. CASE x = m
    BY <1>10, <2>1
  <2>2. CASE x # m
    <3>1. q.replies[x] = ram.replies[x]
      BY <1>1, <1>5, <2>2, RamIs
    <3>2. ReplyOK(ram, stored, x)
      BY DEF TablesOK
    <3> QED
      BY <1>5, <3>1, <3>2 DEF ReplyOK
  <2> QED
    BY <2>1, <2>2
<1> QED
  BY <1>3, <1>6, <1>7, <1>11 DEF TablesOK

LEMMA MessagesBegin == MessagesInit => MessageInv
<1> SUFFICES ASSUME MessagesInit PROVE MessageInv
  OBVIOUS
<1>1. TablesOK(ram, stored)
  BY EmptyOK DEF MessagesInit
<1> QED
  BY <1>1, IdsNumbered DEF MessagesInit, MessageInv

LEMMA StoresOK ==
  ASSUME MessageInv, NEW s \in Sessions, NEW u \in Users,
         StoreMessage(s, u) \/ \E n \in 1..MaxBatch : StoreMessages(s, u, n)
  PROVE  MessageInv'
<1>1. TablesOK(ram, stored) /\ stored \in Nat /\ MaxMsgs \in Nat /\ MaxBatch \in Nat
  BY IdsNumbered, LimitsAssumption DEF MessageInv
<1>2. ASSUME StoreMessage(s, u) PROVE MessageInv'
  <2>1. TablesOK(Inserted(ram, s, NewRow(stored + 1, u)), stored + 1)
    BY <1>1, <1>2, InsertedOK DEF StoreMessage
  <2> QED
    BY <1>1, <1>2, <2>1 DEF StoreMessage, MessageInv
<1>3. ASSUME NEW n \in 1..MaxBatch, StoreMessages(s, u, n) PROVE MessageInv'
  <2>1. n \in Nat /\ stored + n <= MaxMsgs /\ members' = members
    BY <1>1, <1>3 DEF StoreMessages
  <2>2. ASSUME NEW k \in 0..n
        PROVE  /\ k \in Nat /\ stored + k <= MaxMsgs
               /\ TablesOK(InsertedBatch(s, u, k), stored + k)
    <3>1. k \in Nat /\ stored + k <= MaxMsgs
      BY <1>1, <2>1
    <3> QED
      BY <1>1, <3>1, BatchOK
  <2>3. CASE ram' = InsertedBatch(s, u, n) /\ stored' = stored + n
    <3>1. n \in 0..n
      BY <2>1
    <3> QED
      BY <1>1, <2>1, <2>2, <2>3, <3>1 DEF MessageInv
  <2>4. ASSUME NEW k \in 0..(n - 1), ram' = RolledBack(InsertedBatch(s, u, k), k),
               stored' = stored + k
        PROVE  MessageInv'
    <3>1. k \in 0..n
      BY <2>1
    <3>2. TablesOK(RolledBack(InsertedBatch(s, u, k), k), stored + k)
      BY <1>1, <2>2, <3>1, RollbackOK
    <3> QED
      BY <1>1, <2>1, <2>2, <2>4, <3>1, <3>2 DEF MessageInv
  <2> QED
    BY <1>3, <2>3, <2>4 DEF StoreMessages
<1> QED
  BY <1>2, <1>3

LEMMA MessagesStep == MessageInv /\ [MessagesNext]_messageVars => MessageInv'
<1> SUFFICES ASSUME MessageInv, [MessagesNext]_messageVars PROVE MessageInv'
  OBVIOUS
<1>1. TablesOK(ram, stored) /\ stored \in Nat
  BY IdsNumbered DEF MessageInv
<1>2. ASSUME TablesOK(ram', stored), UNCHANGED <<stored, members>> PROVE MessageInv'
  BY <1>2 DEF MessageInv
<1>3. ASSUME NEW u \in Users, NEW m \in MsgIds, RecallMessage(u, m) PROVE MessageInv'
  BY <1>1, <1>2, <1>3, ErasedOK DEF RecallMessage
<1>4. ASSUME NEW u \in Users, NEW m \in MsgIds, NEW t \in Times, EditMessage(u, m, t)
      PROVE  MessageInv'
  <2>1. UNCHANGED <<stored, members>>
    BY <1>4 DEF EditMessage
  <2> QED
    BY <1>1, <1>2, <1>4, <2>1, EditOK
<1>5. ASSUME NEW u \in Users, NEW m \in MsgIds, NEW to \in MsgIds,
             StoreMessageReplyRelation(m, to, u)
      PROVE  MessageInv'
  <2>1. UNCHANGED <<stored, members>>
    BY <1>5 DEF StoreMessageReplyRelation
  <2> QED
    BY <1>1, <1>2, <1>5, <2>1, ReplyStep
<1>6. ASSUME NEW m \in MsgIds, MarkMessageRead(m) PROVE MessageInv'
  <2>1. UNCHANGED <<stored, members>>
    BY <1>6 DEF MarkMessageRead
  <2> QED
    BY <1>1, <1>2, <1>6, <2>1, MarkOK
<1>7. ASSUME NEW s \in Sessions, CleanupSessionMessages(s) PROVE MessageInv'
  BY <1>1, <1>2, <1>7, ClearedOK DEF CleanupSessionMessages
<1>8. CASE Restart
  BY <1>2, <1>8, EmptyOK DEF Restart
<1>9. CASE ChangeMembers
  BY <1>9 DEF ChangeMembers, MessageInv
<1>10. CASE UNCHANGED messageVars
  BY <1>10 DEF messageVars, MessageInv
<1> QED
  BY <1>3, <1>4, <1>5, <1>6, <1>7, <1>8, <1>9, <1>10, StoresOK DEF MessagesNext

\* The tables hold together, whichever calls are made, fail half-way or are
\* lost in a restart.
THEOREM MessagesInductive == MessagesSpec => []MessageInv
BY MessagesBegin, MessagesStep, PTL DEF MessagesSpec

\* The index and the lists agree: a message is in one list, once, and the index
\* names that list; nothing is left behind by deletions, by batches that fail
\* half-way or by cleared sessions (TablesAgree).
THEOREM TablesAgreeHolds == MessagesSpec => []TablesAgree
<1>1. MessageInv => TablesAgree
  <2> SUFFICES ASSUME MessageInv PROVE TablesAgree
    OBVIOUS
  <2>1. ram \in Ram /\ Indexed(ram) /\ RowsOK(ram, stored)
    BY DEF MessageInv, TablesOK
  <2>2. TypeOK
    BY <2>1 DEF MessageInv, TypeOK
  <2>3. IndexMatches
    BY <2>1 DEF IndexMatches, Indexed, RowsOK, Sorted
  <2> QED
    BY <2>2, <2>3 DEF TablesAgree
<1> QED
  BY <1>1, MessagesInductive, PTL

\* A reply belongs to a message that is there, and as long as the message it
\* answers is there, both are in one session and the sender it names sent that
\* message; no later message takes the place of one that was deleted
\* (RepliesSound).
THEOREM RepliesSoundHolds == MessagesSpec => []RepliesSound
<1>1. MessageInv => RepliesSound
  <2> SUFFICES ASSUME MessageInv, NEW m \in MsgIds, ram.replies[m] # None
               PROVE  /\ Exists(m)
                      /\ Exists(ram.replies[m].to) =>
                           /\ ram.sessionOf[ram.replies[m].to] = ram.sessionOf[m]
                           /\ RowOf(ram.replies[m].to).sender = ram.replies[m].sender
    BY DEF RepliesSound
  <2>1. TablesOK(ram, stored) /\ ram \in Ram /\ ReplyOK(ram, stored, m)
    BY DEF MessageInv, TablesOK
  <2>2. ram.replies[m].to \in MsgIds
    BY <2>1, RamIs DEF Reply
  <2>3. ASSUME Exists(ram.replies[m].to)
        PROVE  /\ ram.sessionOf[ram.replies[m].to] = ram.sessionOf[m]
               /\ RowOf(ram.replies[m].to).sender = ram.replies[m].sender
    <3>1. PICK to \in MsgIds : to = ram.replies[m].to
      BY <2>2
    <3>2. PICK s \in Sessions : s = ram.sessionOf[to]
      BY <2>1, <2>3, <3>1, RowIs
    <3>3. PICK i \in DOMAIN ram.im[s] : ram.im[s][i] = RowOf(to) /\ ram.im[s][i].id = to
      BY <2>1, <2>3, <3>1, <3>2, RowIs
    <3> QED
      BY <2>1, <3>1, <3>2, <3>3 DEF ReplyOK
  <2> QED
    BY <2>1, <2>3 DEF ReplyOK, Exists
<1> QED
  BY <1>1, MessagesInductive, PTL

\* However the sender chooses the timestamps, the last edit of a message is at
\* most EditWindow after the first for each further edit, and never before it
\* (EditSpan).
THEOREM EditSpanHolds == MessagesSpec => []EditSpan
<1>1. MessageInv => EditSpan
  BY RowIs DEF MessageInv, EditSpan, Span
<1> QED
  BY <1>1, MessagesInductive, PTL

-----------------------------------------------------------------------------
(* Reading page by page.                                                   *)

\* The first m messages, which is what pages have given so far.
Until(c, m) == SubSeq(c, 1, m)

LEMMA AfterIs ==
  ASSUME NEW S, Numbered(S), NEW c \in Seq(S), Sorted(c), NEW n \in Nat, NEW l \in 1..Len(c)
  PROVE  After(c, c[l].id, n) = SubSeq(c, l + 1, IF l + n > Len(c) THEN Len(c) ELSE l + n)
<1>1. l \in DOMAIN c
  BY ListIs
<1> QED
  BY <1>1, AtIs DEF After

LEMMA AfterTyped ==
  ASSUME NEW S, NEW c \in Seq(S), NEW n \in Nat, NEW id
  PROVE  After(c, id, n) \in Seq(S)
<1>1. CASE id \notin Ids(c)
  BY <1>1 DEF After
<1>2. CASE id \in Ids(c)
  <2>1. PICK at : at = At(c, id)
    OBVIOUS
  <2>2. at \in 1..Len(c) /\ Len(c) \in Nat /\ \A i \in 1..Len(c) : c[i] \in S
    <3>1. \E i \in DOMAIN c : c[i].id = id
      BY <1>2 DEF Ids
    <3>2. at \in DOMAIN c
      BY <2>1, <3>1 DEF At
    <3> QED
      BY <3>2, ListIs
  <2>3. PICK last \in Int :
          last = (IF at + n > Len(c) THEN Len(c) ELSE at + n) /\ last <= Len(c)
    BY <2>2
  <2>4. \A i \in (at + 1)..last : c[i] \in S
    BY <2>2, <2>3
  <2>5. SubSeq(c, at + 1, last) \in Seq(S)
    BY <2>2, <2>3, <2>4, SubSeqProperties
  <2> QED
    BY <1>2, <2>1, <2>3, <2>5 DEF After
<1> QED
  BY <1>1, <1>2

WithPage(c, n, x) == x \o (IF x = <<>> THEN <<>> ELSE After(c, x[Len(x)].id, n))

Paging(c, n, f) ==
  f = [i \in 0..Len(c) |->
         IF i = 0 THEN FirstN(c, n)
         ELSE f[i - 1] \o (IF f[i - 1] = <<>> THEN <<>>
                           ELSE After(c, f[i - 1][Len(f[i - 1])].id, n))]

LEMMA UntilIs ==
  ASSUME NEW S, NEW c \in Seq(S), NEW m \in 0..Len(c)
  PROVE  /\ Until(c, m) \in Seq(S) /\ Len(Until(c, m)) = m
         /\ m # 0 => Until(c, m) # <<>> /\ Until(c, m)[m] = c[m]
         /\ m = 0 => Until(c, m) = <<>>
<1>1. Len(c) \in Nat /\ m \in Nat /\ \A i \in 1..m : c[i] \in S
  BY ListIs
<1>2. /\ Until(c, m) \in Seq(S)
      /\ Len(Until(c, m)) = IF 1 <= m THEN m - 1 + 1 ELSE 0
      /\ \A i \in 1..(m - 1 + 1) : Until(c, m)[i] = c[1 + i - 1]
  BY <1>1, SubSeqProperties DEF Until
<1>3. Len(Until(c, m)) = m
  BY <1>1, <1>2
<1>4. m # 0 => Until(c, m)[m] = c[m]
  BY <1>1, <1>2
<1>5. m = 0 => Until(c, m) = <<>>
  BY <1>2, <1>3, EmptySeq
<1>6. m # 0 => Until(c, m) # <<>>
  BY <1>3, EmptySeq
<1> QED
  BY <1>2, <1>3, <1>4, <1>5, <1>6

\* A page follows what was read before without a gap.
LEMMA PageFollows ==
  ASSUME NEW S, Numbered(S), NEW c \in Seq(S), Sorted(c), NEW n \in Nat \ {0},
         NEW l \in 1..Len(c)
  PROVE  \E m \in l..Len(c) : /\ WithPage(c, n, Until(c, l)) = Until(c, m)
                              /\ m = Len(c) \/ m >= l + 1
<1>1. Len(c) \in Nat /\ l \in Nat /\ l # 0 /\ l \in 0..Len(c)
  BY ListIs
<1>2. PICK m \in l..Len(c) :
        m = (IF l + n > Len(c) THEN Len(c) ELSE l + n) /\ (m = Len(c) \/ m >= l + 1)
  BY <1>1
<1>3. /\ Until(c, l) # <<>> /\ Len(Until(c, l)) = l /\ Until(c, l)[l] = c[l]
  BY <1>1, UntilIs
<1>4. After(c, c[l].id, n) = SubSeq(c, l + 1, m)
  BY <1>2, AfterIs
<1>5. WithPage(c, n, Until(c, l)) = SubSeq(c, 1, l) \o SubSeq(c, l + 1, m)
  BY <1>3, <1>4 DEF WithPage, Until
<1>6. SubSeq(c, 1, l) \o SubSeq(c, l + 1, m) = SubSeq(c, 1, m)
  <2>1. 1 \in 1..(Len(c) + 1) /\ l \in (1 - 1)..Len(c) /\ m \in l..Len(c)
    BY <1>1
  <2> QED
    BY <2>1, ConcatAdjacentSubSeq
<1> QED
  BY <1>2, <1>5, <1>6 DEF Until

\* After the first page and i more, at least i messages have been read, or all.
ReadTo(c, i, x) ==
  \E l \in 0..Len(c) : x = Until(c, l) /\ (l = Len(c) \/ (l >= 1 /\ l >= i))

\* Whatever the size of a page.
LEMMA PagesAll ==
  ASSUME NEW S, Numbered(S), NEW c \in Seq(S), Sorted(c), NEW n \in Nat \ {0}
  PROVE  Pages(c, n) = c
<1>0. Len(c) \in Nat
  BY ListIs
<1>1. PICK m \in 0..Len(c) : /\ FirstN(c, n) = Until(c, m)
                             /\ Len(c) = 0 \/ m >= 1
  <2>1. (IF Len(c) > n THEN n ELSE Len(c)) \in 0..Len(c)
    BY <1>0
  <2>2. Len(c) = 0 \/ (IF Len(c) > n THEN n ELSE Len(c)) >= 1
    BY <1>0
  <2> QED
    BY <2>1, <2>2 DEF FirstN, Until
<1>2. ASSUME NEW x \in Seq(S) PROVE WithPage(c, n, x) \in Seq(S)
  <2>1. (IF x = <<>> THEN <<>> ELSE After(c, x[Len(x)].id, n)) \in Seq(S)
    BY AfterTyped
  <2> QED
    BY <2>1, ConcatProperties DEF WithPage
<1>3. PICK step : step = [i \in 1..Len(c) |-> [x \in Seq(S) |-> WithPage(c, n, x)]]
  OBVIOUS
<1>4. step \in [1..Len(c) -> [Seq(S) -> Seq(S)]]
  BY <1>2, <1>3
<1>5. FirstN(c, n) \in Seq(S)
  BY <1>1, UntilIs
<1>6. PICK f : Results(Seq(S), Len(c), FirstN(c, n), step, f)
  BY <1>0, <1>4, <1>5, Iterates
<1>7. Paging(c, n, f)
  <2>1. /\ f \in [0..Len(c) -> Seq(S)] /\ f[0] = FirstN(c, n)
        /\ \A i \in 1..Len(c) : f[i] = step[i][f[i - 1]]
    BY <1>6 DEF Results
  <2>2. \A i \in 1..Len(c) : i - 1 \in 0..Len(c) /\ f[i] = WithPage(c, n, f[i - 1])
    <3>1. ASSUME NEW i \in 1..Len(c)
          PROVE  i - 1 \in 0..Len(c) /\ f[i] = WithPage(c, n, f[i - 1])
      <4>1. i - 1 \in 0..Len(c)
        BY <1>0
      <4>2. f[i - 1] \in Seq(S)
        BY <2>1, <4>1
      <4>3. step[i][f[i - 1]] = WithPage(c, n, f[i - 1])
        BY <1>3, <4>2
      <4> QED
        BY <2>1, <4>1, <4>3
    <3> QED
      BY <3>1
  <2>3. \A i \in 0..Len(c) : i # 0 => i \in 1..Len(c)
    BY <1>0
  <2>4. \A i \in 0..Len(c) : f[i] = IF i = 0 THEN FirstN(c, n) ELSE WithPage(c, n, f[i - 1])
    BY <2>1, <2>2, <2>3
  <2> QED
    BY <2>1, <2>4 DEF Paging, WithPage
<1>8. PICK g : g = CHOOSE x : Paging(c, n, x)
  OBVIOUS
<1>9. Paging(c, n, g)
  BY <1>7, <1>8
<1>10. Pages(c, n) = g[Len(c)]
  BY <1>8 DEF Pages, Paging
<1>11. g[0] = FirstN(c, n) /\ \A i \in 1..Len(c) : g[i] = WithPage(c, n, g[i - 1])
  <2>1. \A i \in 0..Len(c) : g[i] = IF i = 0 THEN FirstN(c, n) ELSE WithPage(c, n, g[i - 1])
    BY <1>9 DEF Paging, WithPage
  <2>2. 0 \in 0..Len(c) /\ \A i \in 1..Len(c) : i \in 0..Len(c) /\ i # 0
    BY <1>0
  <2> QED
    BY <2>1, <2>2
<1> DEFINE G == {i \in 0..Len(c) : ReadTo(c, i, g[i])}
<1> HIDE DEF G
<1>12. 0 \in G
  <2>1. m = Len(c) \/ (m >= 1 /\ m >= 0)
    BY <1>0, <1>1
  <2>2. 0 \in 0..Len(c)
    BY <1>0
  <2>3. ReadTo(c, 0, g[0])
    BY <1>1, <1>11, <2>1 DEF ReadTo
  <2> QED
    BY <2>2, <2>3 DEF G
<1>13. ASSUME NEW i \in 1..Len(c), i - 1 \in G PROVE i \in G
  <2>0. ReadTo(c, i - 1, g[i - 1])
    BY <1>13 DEF G
  <2>1. PICK l \in 0..Len(c) : /\ g[i - 1] = Until(c, l)
                               /\ l = Len(c) \/ (l >= 1 /\ l >= i - 1)
    BY <2>0 DEF ReadTo
  <2>2. l \in 1..Len(c)
    BY <1>0, <2>1
  <2>3. PICK k \in l..Len(c) : /\ WithPage(c, n, Until(c, l)) = Until(c, k)
                               /\ k = Len(c) \/ k >= l + 1
    BY <2>2, PageFollows
  <2>4. k \in 0..Len(c) /\ g[i] = Until(c, k)
    BY <1>0, <1>11, <2>1, <2>3
  <2>5. k = Len(c) \/ (k >= 1 /\ k >= i)
    BY <1>0, <2>1, <2>2, <2>3
  <2>6. ReadTo(c, i, g[i])
    BY <2>4, <2>5 DEF ReadTo
  <2>7. i \in 0..Len(c)
    BY <1>0
  <2> QED
    BY <2>6, <2>7 DEF G
<1>14. Len(c) \in G
  <2>1. 0..Len(c) \subseteq G
    BY <1>0, <1>12, <1>13, UpTo
  <2> QED
    BY <1>0, <2>1
<1>15. PICK l \in 0..Len(c) : /\ g[Len(c)] = Until(c, l)
                              /\ l = Len(c) \/ (l >= 1 /\ l >= Len(c))
  <2>1. ReadTo(c, Len(c), g[Len(c)])
    BY <1>14 DEF G
  <2> QED
    BY <2>1 DEF ReadTo
<1>16. l = Len(c)
  BY <1>0, <1>15
<1> QED
  BY <1>10, <1>15, <1>16, SubSeqFull DEF Until

\* Reading a session page by page gives every message once and in order
\* (PagesCover).
THEOREM PagesCoverHolds == MessagesSpec => []PagesCover
<1>1. MessageInv => PagesCover
  <2> SUFFICES ASSUME MessageInv, NEW s \in Sessions, NEW n \in 1..2
               PROVE  Pages(ram.im[s], n) = ram.im[s]
    BY DEF PagesCover
  <2>1. ram \in Ram /\ RowsOK(ram, stored)
    BY DEF MessageInv, TablesOK
  <2>2. ram.im[s] \in Seq(MessageRow) /\ Sorted(ram.im[s])
    BY <2>1, RamIs DEF RowsOK
  <2>3. n \in Nat \ {0}
    OBVIOUS
  <2> QED
    BY <2>2, <2>3, PagesAll, IdsNumbered
<1> QED
  BY <1>1, MessagesInductive, PTL

=============================================================================

------------------------------ MODULE Accounts ------------------------------
(***************************************************************************)
(* What a user keeps in mm1_user_kv: the password and the recovery secret  *)
(* of a local account, the mark of a deleted account, and the notes about  *)
(* friends, one blob for all of them.  Each row is read and written by     *)
(* itself; a read may fail and is then taken for "no row", a write may     *)
(* fail, and the process may be killed between the two writes of a         *)
(* registration.  The device sessions of Devices are kept beside them.     *)
(*                                                                         *)
(* The API mutex makes each call one step.  Sessions, bans and attempts    *)
(* are AuthSession's; friendship is Friends'.                              *)
(***************************************************************************)
EXTENDS Devices

CONSTANTS
  Locals,    \* bound of the model: the users whose rows are called for
  Secrets,   \* passwords and recovery secrets
  Peers,     \* friends
  Notes,
  Mark,      \* the value of the row of a deleted account
  Junk       \* a value StoreUserData wrote and the row's reader refuses

ASSUME AccountsAssumption ==
  /\ Locals \subseteq Users
  /\ None \notin Secrets \cup Notes \cup {Mark, Junk}

VARIABLES
  kv,        \* mm1_user_kv by user and type; None: no row
  acked,     \* history: what the acknowledged calls of the user left there
  damaged    \* history: rows a misread or broken call has changed since

accountVars == <<kv, acked, damaged>>
vars == <<deviceVars, accountVars>>

Types == {"password", "recovery", "notes", "deleted"}
Bundle == [Peers -> Notes \cup {None}]
NoNotes == [f \in Peers |-> None]
Blob == Secrets \cup Bundle \cup {None, Junk, Mark}

Init ==
  /\ DevicesInit
  /\ kv = [u \in Users |-> [t \in Types |-> None]]
  /\ acked = kv
  /\ damaged = {}

\* A call that succeeds leaves blob b in row t.
Stores(u, t, b) ==
  /\ kv' = [kv EXCEPT ![u][t] = b]
  /\ acked' = [acked EXCEPT ![u][t] = b]
  /\ damaged' = damaged \ {<<u, t>>}

-----------------------------------------------------------------------------
(* LocalAccountCredentialManager; AuthWithLocalPassword reads only.        *)

\* Mutant: the recovery row is looked up.
TakenByRecovery(u) == kv[u]["recovery"] # None

Taken(u) == kv[u]["password"] # None

\* A read that fails lets an account be registered over, below as well.
MayRegister(u, misread) == IF misread THEN Fault ELSE ~Taken(u) /\ UNCHANGED faults

RegisterLocalUser(u, p, r, misread) ==
  /\ MayRegister(u, misread)
  /\ kv' = [kv EXCEPT ![u]["password"] = p, ![u]["recovery"] = r]
  /\ IF acked[u]["password"] = None
     THEN /\ acked' = [acked EXCEPT ![u]["password"] = p, ![u]["recovery"] = r]
          /\ damaged' = damaged \ {<<u, "password">>, <<u, "recovery">>}
     ELSE /\ damaged' = damaged \cup {<<u, "password">>, <<u, "recovery">>}
          /\ UNCHANGED acked

\* Mutant: the password stays.
Kept(u, p) == [kv EXCEPT ![u]["password"] = p]

\* The password is deleted again when the recovery secret cannot be stored.
Reverted(u, p) == [kv EXCEPT ![u]["password"] = None]

RegisterLocalUserFails(u, p) ==
  /\ Fault
  /\ kv' = Reverted(u, p)
  /\ damaged' = IF Taken(u) THEN damaged \cup {<<u, "password">>} ELSE damaged
  /\ UNCHANGED acked

\* Killed between the writes, or the delete fails as well.
RegisterLocalUserBreaks(u, p) ==
  /\ Fault
  /\ kv' = [kv EXCEPT ![u]["password"] = p]
  /\ damaged' = damaged \cup {<<u, "password">>}
  /\ UNCHANGED acked

ChangeLocalPassword(u, old, new) ==
  /\ kv[u]["password"] = old
  /\ Stores(u, "password", new)
  /\ UNCHANGED faults

ResetLocalPasswordWithRecovery(u, r, new) ==
  /\ kv[u]["recovery"] = r
  /\ Stores(u, "password", new)
  /\ UNCHANGED faults

-----------------------------------------------------------------------------
(* The other rows.                                                         *)

\* AccountDeleteManager::DeleteAccount: nothing but the mark.
DeleteAccount(u) ==
  /\ Stores(u, "deleted", Mark)
  /\ UNCHANGED faults

\* Mutant: the bundle holds the new note only.
OnlyNote(old, f, n) == [NoNotes EXCEPT ![f] = n]

WithNote(old, f, n) == [old EXCEPT ![f] = n]

\* An empty blob is an empty bundle; one that does not parse is refused.
UpdateFriendNote(u, f, n) ==
  /\ kv[u]["notes"] # Junk
  /\ kv' = [kv EXCEPT ![u]["notes"] =
             WithNote(IF @ = None THEN NoNotes ELSE @, f, n)]
  /\ acked' = [acked EXCEPT ![u]["notes"] =
                [IF @ \in {None, Junk} THEN NoNotes ELSE @ EXCEPT ![f] = n]]
  /\ UNCHANGED <<damaged, faults>>

\* GetUserData returns an empty blob for a read that fails: the other notes go.
UpdateFriendNoteMisread(u, f, n) ==
  /\ Fault
  /\ kv' = [kv EXCEPT ![u]["notes"] = WithNote(NoNotes, f, n)]
  /\ acked' = [acked EXCEPT ![u]["notes"] =
                [IF @ \in {None, Junk} THEN NoNotes ELSE @ EXCEPT ![f] = n]]
  /\ damaged' = damaged \cup {<<u, "notes">>}

\* StoreUserData and DeleteUserData take every type, those above included.
StoreUserData(u, t) ==
  /\ Stores(u, t, Junk)
  /\ UNCHANGED faults

DeleteUserData(u, t) ==
  /\ kv[u][t] # None
  /\ Stores(u, t, None)
  /\ UNCHANGED faults

-----------------------------------------------------------------------------
Credentials(u) ==
  \E p, q \in Secrets :
    \/ \E misread \in BOOLEAN : RegisterLocalUser(u, p, q, misread)
    \/ ChangeLocalPassword(u, p, q)
    \/ ResetLocalPasswordWithRecovery(u, p, q)

OtherCalls(u) ==
  \/ \E p \in Secrets :
       \/ RegisterLocalUserFails(u, p)
       \/ RegisterLocalUserBreaks(u, p)
  \/ \E f \in Peers, n \in Notes :
       UpdateFriendNote(u, f, n) \/ UpdateFriendNoteMisread(u, f, n)
  \/ DeleteAccount(u)
  \/ \E t \in Types : StoreUserData(u, t) \/ DeleteUserData(u, t)

AccountsNext == \E u \in Locals : Credentials(u) \/ OtherCalls(u)

Next ==
  \/ AccountsNext /\ UNCHANGED <<devices, told, torn>>
  \/ DevicesNext /\ UNCHANGED accountVars

Spec == Init /\ [][Next]_vars

-----------------------------------------------------------------------------
(* Properties.                                                             *)

\* Types, and the table of device sessions is sound: never more devices than
\* the limit, whichever calls failed or were killed between their statements.
WellFormed ==
  /\ DevicesOK
  /\ kv \in [Users -> [Types -> Blob]]
  /\ acked \in [Users -> [Types -> Blob]]
  /\ damaged \subseteq Users \X Types

\* Each row holds what the last acknowledged call left in it: a registration
\* that reports failure leaves no password behind, so that it can be tried
\* again, one over an existing account changes nothing, and a note about one
\* friend keeps those about the others.  Only rows that a misread, or a
\* registration stopped half way, has changed are excepted.
StoredAsAcknowledged ==
  \A u \in Users, t \in Types :
    <<u, t>> \notin damaged => kv[u][t] = acked[u][t]
=============================================================================

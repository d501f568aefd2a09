------------------------------- MODULE Groups -------------------------------
(***************************************************************************)
(* Groups on top of Friends: members and roles, the display name, the key  *)
(* envelope, mutes, and the window that limits @ALL.  Everything is in     *)
(* SQLite, and a call of several statements runs without a transaction: a  *)
(* statement may fail, the compensation for it may fail too, and the       *)
(* process may be killed between any two.  What is left on disk is what    *)
(* the next call works with.                                               *)
(*                                                                         *)
(* Group ids are random and only known to those who get them from a        *)
(* successful CreateGroup.                                                 *)
(***************************************************************************)
EXTENDS Friends, Sequences

CONSTANTS
  Groups,
  Durations,    \* of timed mutes, in seconds; every time is in milliseconds
  Second,       \* milliseconds in a second: 1000
  MaxCleanupTime, \* bound of the model: the clock of a cleanup
  MaxAtAll,     \* @ALL per window: 3
  AtAllWindow,  \* 60 s
  MaxFaults,    \* bound of the model: failing or interrupted calls
  MaxMentioners,\* bound of the model: users of a group that use @ALL
  None

ASSUME GroupsAssumption ==
  /\ Durations \subseteq Nat \ {0}
  /\ {MaxAtAll, AtAllWindow, MaxFaults, MaxMentioners, MaxCleanupTime} \subseteq Nat
  /\ MaxAtAll > 0
  /\ Second \in Nat \ {0}
  /\ None \notin Users

VARIABLES
  role,      \* group_members
  namedBy,   \* mm2_group_display: who set the name
  key,       \* group_data and the block it stands for
  mute,      \* mm2_group_mute
  window,    \* mm1_mention_atall_window
  known,     \* history: how the creation of a group ended
  creator,   \* history
  torn,      \* history: groups whose last key rotation was not completed
  uses,      \* history: the recorded @ALL, the last MaxAtAll + 1 of each user
  faults

groupVars == <<role, namedBy, key, mute, window, known, creator, torn, uses, faults>>
vars == <<friendVars, groupVars>>

Permanent == -1
Mute == [start : Times, duration : Durations \cup {Permanent}]
NoMute == [start |-> 0, duration |-> 0]

Init ==
  /\ FriendsInit
  /\ role = [g \in Groups |-> [u \in Users |-> "none"]]
  /\ namedBy = [g \in Groups |-> None]
  /\ key = [g \in Groups |-> "none"]
  /\ mute = [g \in Groups |-> [u \in Users |-> NoMute]]
  /\ window = [g \in Groups |-> [u \in Users |-> <<>>]]
  /\ known = [g \in Groups |-> "no"]
  /\ creator = [g \in Groups |-> None]
  /\ torn = {}
  /\ uses = [g \in Groups |-> [u \in Users |-> <<>>]]
  /\ faults = 0

Administers(g, u) == role[g][u] \in {"owner", "admin"}

\* One more failing or interrupted call
Fault == faults < MaxFaults /\ faults' = faults + 1

-----------------------------------------------------------------------------
(* CreateGroup: CreateGroupSeedForMm1 writes member, name and key.         *)

Seed == {"member", "name", "key"}
SeedBefore(statement) == CASE statement = "member" -> {}
                           [] statement = "name" -> {"member"}
                           [] statement = "key" -> {"member", "name"}
                           [] statement = "return" -> Seed
\* Mutant: the name is forgotten when the key cannot be written.
CompensatedMember(statement) ==
  IF statement \in {"name", "key"} THEN {"member"} ELSE {}

\* What CreateGroupSeedForMm1 deletes again when a statement fails.
Compensated(statement) == CASE statement = "member" -> {}
                            [] statement = "name" -> {"member"}
                            [] statement = "key" -> {"member", "name"}
                            [] statement = "return" -> {}

Seeded(g, u, rows) ==
  /\ role' = IF "member" \in rows THEN [role EXCEPT ![g][u] = "owner"] ELSE role
  /\ namedBy' = IF "name" \in rows THEN [namedBy EXCEPT ![g] = u] ELSE namedBy
  /\ key' = IF "key" \in rows THEN [key EXCEPT ![g] = "readable"] ELSE key
  /\ creator' = [creator EXCEPT ![g] = u]
  /\ UNCHANGED <<mute, window, torn, uses>>

CreateGroup(g, u) ==
  /\ known[g] = "no"
  /\ Seeded(g, u, Seed)
  /\ known' = [known EXCEPT ![g] = "yes"]
  /\ UNCHANGED faults

\* A statement fails and every compensation succeeds.
CreateGroupFails(g, u, statement) ==
  /\ known[g] = "no"
  /\ Seeded(g, u, SeedBefore(statement) \ Compensated(statement))
  /\ known' = [known EXCEPT ![g] = "failed"]
  /\ Fault

\* The process is killed before a statement or among the compensations, or
\* compensations fail as well.
CreateGroupBreaks(g, u, statement, undone) ==
  /\ undone \subseteq Compensated(statement)
  /\ known[g] = "no"
  /\ Seeded(g, u, SeedBefore(statement) \ undone)
  /\ known' = [known EXCEPT ![g] = "broken"]
  /\ Fault

-----------------------------------------------------------------------------
(* Members.                                                                *)

InviteMember(g, inviter, u) ==
  /\ known[g] = "yes"
  /\ Administers(g, inviter)
  /\ inviter # u
  /\ u \in FriendsOf(inviter)
  /\ role[g][u] = "none"
  /\ role' = [role EXCEPT ![g][u] = "member"]
  /\ UNCHANGED <<namedBy, key, mute, window, known, creator, torn, uses, faults>>

\* Mutant: the row of the member first.
DeleteMemberFirst(g, u) ==
  /\ role' = [role EXCEPT ![g][u] = "none"]
  /\ \/ mute' = [mute EXCEPT ![g][u] = NoMute] /\ UNCHANGED faults
     \/ Fault /\ UNCHANGED mute
  /\ UNCHANGED <<namedBy, key, window, known, creator, torn, uses>>

\* DeleteGroupMemberForMm1: the mute first, then the row of the member.
DeleteGroupMember(g, u) ==
  /\ mute' = [mute EXCEPT ![g][u] = NoMute]
  /\ \/ role' = [role EXCEPT ![g][u] = "none"] /\ UNCHANGED faults
     \/ Fault /\ UNCHANGED role
  /\ UNCHANGED <<namedBy, key, window, known, creator, torn, uses>>

\* Nobody checks that the target is a member.
RemoveMember(g, actor, u) ==
  /\ known[g] = "yes"
  /\ role[g][actor] = "owner"
  /\ actor # u
  /\ DeleteGroupMember(g, u)

\* Anybody may leave, the owner too; nothing passes the role on.
LeaveGroup(g, u) ==
  /\ known[g] = "yes"
  /\ role[g][u] # "none"
  /\ DeleteGroupMember(g, u)

UpdateGroupName(g, u) ==
  /\ known[g] = "yes"
  /\ Administers(g, u)
  /\ namedBy' = [namedBy EXCEPT ![g] = u]
  /\ UNCHANGED <<role, key, mute, window, known, creator, torn, uses, faults>>

\* The old block is zeroed before the new one is written and recorded.
UpdateGroupKey(g, u) ==
  /\ known[g] = "yes"
  /\ Administers(g, u)
  /\ key' = [key EXCEPT ![g] = "readable"]
  /\ torn' = torn \ {g}
  /\ UNCHANGED <<role, namedBy, mute, window, known, creator, uses, faults>>

\* Failing or killed after the old block was zeroed: no key can be read.
\* Failing before it, or in the revert of the new block, leaves a key.
UpdateGroupKeyFails(g, u) ==
  /\ known[g] = "yes"
  /\ Administers(g, u)
  /\ \E left \in {key[g], "readable", "zeroed"} : key' = [key EXCEPT ![g] = left]
  /\ torn' = torn \cup {g}
  /\ Fault
  /\ UNCHANGED <<role, namedBy, mute, window, known, creator, uses>>

-----------------------------------------------------------------------------
(* Mutes.                                                                  *)

CanMute(actorRole, targetRole) ==
  \/ actorRole = "owner" /\ targetRole # "owner"
  \/ actorRole = "admin" /\ targetRole = "member"

\* The start is the caller's clock; a new mute replaces the old one.
MuteMember(g, by, u, m) ==
  /\ known[g] = "yes"
  /\ by # u
  /\ Administers(g, by)
  /\ role[g][u] # "none"
  /\ CanMute(role[g][by], role[g][u])
  /\ mute' = [mute EXCEPT ![g][u] = m]
  /\ UNCHANGED <<role, namedBy, key, window, known, creator, torn, uses, faults>>

UnmuteMember(g, by, u) ==
  /\ known[g] = "yes"
  /\ Administers(g, by)
  /\ mute[g][u] # NoMute
  /\ mute' = [mute EXCEPT ![g][u] = NoMute]
  /\ UNCHANGED <<role, namedBy, key, window, known, creator, torn, uses, faults>>

IsMuted(m, t) ==
  /\ m # NoMute
  /\ t >= m.start
  /\ m.duration = Permanent \/ t < m.start + m.duration * Second

\* Mutant: the seconds are taken for milliseconds.
OverUnconverted(m, t) == m.duration >= 0 /\ m.start + m.duration <= t

\* DeleteExpiredGroupMutes: duration_s >= 0 AND start_ms + duration_s * 1000 <= ?
Over(m, t) == m.duration >= 0 /\ m.start + m.duration * Second <= t

DeleteExpiredMutes(t) ==
  mute' = [g \in Groups |-> [u \in Users |->
             IF Over(mute[g][u], t) THEN NoMute ELSE mute[g][u]]]

CleanupTimes == 0..MaxCleanupTime

\* Requests first, then mutes; the second statement may not be reached.
CleanupExpiredData(t) ==
  /\ DeleteExpiredRequests(t)
  /\ \/ DeleteExpiredMutes(t) /\ UNCHANGED faults
     \/ Fault /\ UNCHANGED mute
  /\ UNCHANGED <<role, namedBy, key, window, known, creator, torn, uses>>

-----------------------------------------------------------------------------
(* @ALL.                                                                   *)

\* remove_if: the times that are not before oldest, in their order.
Since(times, oldest) ==
  LET kept[i \in 0..Len(times)] ==
        IF i = 0 THEN <<>>
        ELSE IF times[i] >= oldest THEN Append(kept[i - 1], times[i])
        ELSE kept[i - 1]
  IN kept[Len(times)]

\* Mutant: a use exactly one window old is dropped.
PruneEarly(times, t) == Since(times, t - AtAllWindow + 1)

Prune(times, t) == Since(times, t - AtAllWindow)

LastUses(s) == IF Len(s) > MaxAtAll + 1 THEN Tail(s) ELSE s

\* Only membership is checked here; the time is the caller's.
RecordMentionAtAllUsage(g, u, t) ==
  /\ known[g] = "yes"
  /\ role[g][u] # "none"
  /\ Cardinality({v \in Users : uses[g][v] # <<>>} \cup {u}) <= MaxMentioners
  /\ Len(Prune(window[g][u], t)) < MaxAtAll
  /\ window' = [window EXCEPT ![g][u] = Append(Prune(@, t), t)]
  /\ uses' = [uses EXCEPT ![g][u] = LastUses(Append(@, t))]
  /\ UNCHANGED <<role, namedBy, key, mute, known, creator, torn, faults>>

-----------------------------------------------------------------------------
FriendStep ==
  \/ \E u, v \in Users, t \in Times :
       \/ SendFriendRequest(u, v, t, FALSE) /\ UNCHANGED groupVars
       \/ /\ SendFriendRequest(u, v, t, TRUE)
          /\ Fault
          /\ UNCHANGED <<role, namedBy, key, mute, window, known, creator, torn, uses>>
  \/ \E r \in requests, accept \in BOOLEAN :
       RespondFriendRequest(r, accept) /\ UNCHANGED groupVars
  \/ \E u, v \in Users : DeleteFriend(u, v) /\ UNCHANGED groupVars

GroupStep(g, u) ==
  \/ CreateGroup(g, u)
  \/ \E statement \in Seed : CreateGroupFails(g, u, statement)
  \/ \E statement \in Seed \cup {"return"}, undone \in SUBSET Seed :
       CreateGroupBreaks(g, u, statement, undone)
  \/ \E v \in Users : InviteMember(g, u, v)
  \/ \E v \in Users : RemoveMember(g, u, v)
  \/ LeaveGroup(g, u)
  \/ UpdateGroupName(g, u)
  \/ UpdateGroupKey(g, u)
  \/ UpdateGroupKeyFails(g, u)
  \/ \E v \in Users, m \in Mute : MuteMember(g, u, v, m)
  \/ \E v \in Users : UnmuteMember(g, u, v)
  \/ \E t \in Times : RecordMentionAtAllUsage(g, u, t)

Next ==
  \/ FriendStep
  \/ \E g \in Groups, u \in Users : GroupStep(g, u) /\ UNCHANGED friendVars
  \/ \E t \in CleanupTimes : CleanupExpiredData(t)

Spec == Init /\ [][Next]_vars

-----------------------------------------------------------------------------
(* Properties.                                                             *)

\* Types; and a user asks another one only once at a time, unless the lookup
\* of the pending request failed.
WellFormed ==
  /\ FriendsTypeOK
  /\ faults = 0 => \A u, v \in Users : Cardinality(PendingFromTo(u, v)) <= 1
  /\ role \in [Groups -> [Users -> {"none", "member", "admin", "owner"}]]
  /\ namedBy \in [Groups -> Users \cup {None}]
  /\ key \in [Groups -> {"none", "readable", "zeroed"}]
  /\ mute \in [Groups -> [Users -> Mute \cup {NoMute}]]
  /\ \A g \in Groups, u \in Users :
       /\ window[g][u] \in Seq(Times) /\ Len(window[g][u]) <= MaxAtAll
       /\ uses[g][u] \in Seq(Times)
  /\ known \in [Groups -> {"no", "yes", "failed", "broken"}]
  /\ creator \in [Groups -> Users \cup {None}]
  /\ torn \subseteq Groups
  /\ faults \in 0..MaxFaults

\* A mute never outlives its membership: whoever is invited again starts
\* unmuted, even when a removal failed or was killed halfway
\* (MM2::DeleteGroupMemberForMm1 deletes the mute first).
MutesOfMembers ==
  \A g \in Groups, u \in Users : mute[g][u] # NoMute => role[g][u] # "none"

\* Nobody gets into a group, or gets a say in it, without consent: every member
\* but the creator has become a friend of the creator by an accepted request,
\* and only the creator ever administers a group or sets its name
\* (GroupManager::InviteMember with ListAcceptedFriendUserIdsForMm1).
MembersConsented ==
  /\ FriendsConsented
  /\ \A g \in Groups, u \in Users :
       /\ role[g][u] # "none" => u = creator[g] \/ {creator[g], u} \in befriended
       /\ Administers(g, u) \/ namedBy[g] = u => u = creator[g]

\* What CreateGroup says is so: a created group has its name and a readable
\* key, unless a later rotation was not completed; and a creation refused
\* because of one failing statement leaves no row behind
\* (MM2::CreateGroupSeedForMm1).
CreationIsWhole ==
  \A g \in Groups :
    /\ known[g] = "yes" => namedBy[g] # None /\ (key[g] = "readable" \/ g \in torn)
    /\ known[g] = "failed" => /\ \A u \in Users : role[g][u] = "none"
                              /\ namedBy[g] = None /\ key[g] = "none"

\* A cleanup is not noticed: from its time on, IsMuted answers as it would
\* have without it.  The two compute the end of a mute apart, one in SQL and
\* one in GroupMuteManager::IsMuted, from a start in milliseconds and a
\* duration in seconds that may also be the -1 of a permanent mute.
CleanupSparesMutes ==
  [][\A t \in CleanupTimes : CleanupExpiredData(t) =>
       \A g \in Groups, u \in Users, s \in t..(MaxCleanupTime + Second) :
         IsMuted(mute[g][u], s) = IsMuted(mute'[g][u], s)]_vars

\* At most MaxAtAll @ALL are recorded within a window, whatever was recorded
\* before, as long as the clock of the callers is not set back
\* (MentionPermissionManager::RecordMentionAtAllUsage).
AtAllLimited ==
  \A g \in Groups, u \in Users :
    LET s == uses[g][u]
    IN Len(s) > MaxAtAll /\ (\A i \in 1..MaxAtAll : s[i] <= s[i + 1])
         => s[Len(s)] - s[1] > AtAllWindow
=============================================================================

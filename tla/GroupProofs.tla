---------------------------- MODULE GroupProofs ----------------------------
(***************************************************************************)
(* Proofs about Friends and Groups, for any number of users, groups,       *)
(* requests and faults.  The inductive invariant has a part for the table  *)
(* of requests and a part for the tables of the groups; the second uses of *)
(* the first only that whoever was once befriended stays in the history.   *)
(***************************************************************************)
EXTENDS Groups, FiniteSetTheorems, WellFoundedInduction, TLAPS

\* Accepted edges join pairs that consented and whose friendship stands.
FriendInv ==
  /\ requests \subseteq Request
  /\ asked \in 0..MaxRequests
  /\ FriendsConsented
  /\ \A r \in requests : r.status = "accepted" => {r.from, r.to} \notin ended

Roles == {"none", "member", "admin", "owner"}

GroupTypes ==
  /\ role \in [Groups -> [Users -> Roles]]
  /\ namedBy \in [Groups -> Users \cup {None}]
  /\ key \in [Groups -> {"none", "readable", "zeroed"}]
  /\ mute \in [Groups -> [Users -> Mute \cup {NoMute}]]
  /\ known \in [Groups -> {"no", "yes", "failed", "broken"}]
  /\ creator \in [Groups -> Users \cup {None}]

\* A group nobody tried to create has no rows.
Fresh ==
  \A g \in Groups : known[g] = "no" =>
    /\ \A u \in Users : role[g][u] = "none"
    /\ namedBy[g] = None
    /\ key[g] = "none"

MembersBefriended ==
  \A g \in Groups, u \in Users :
    role[g][u] # "none" => u = creator[g] \/ {creator[g], u} \in befriended

CreatorAdministers ==
  \A g \in Groups, u \in Users :
    Administers(g, u) \/ namedBy[g] = u => u = creator[g]

GroupInv ==
  /\ GroupTypes
  /\ Fresh
  /\ MutesOfMembers
  /\ MembersBefriended
  /\ CreatorAdministers
  /\ CreationIsWhole

-----------------------------------------------------------------------------
(* The table of requests.                                                  *)

LEMMA SamePair ==
  ASSUME NEW u, NEW v, NEW x, NEW y, <<x, y>> \in {<<u, v>>, <<v, u>>}
  PROVE  {x, y} = {u, v}
OBVIOUS

LEMMA PairsDiffer ==
  ASSUME NEW u, NEW v, NEW x, NEW y, {x, y} = {u, v}
  PROVE  <<x, y>> \in {<<u, v>>, <<v, u>>}
<1>1. x \in {u, v} /\ y \in {u, v} /\ u \in {x, y} /\ v \in {x, y}
  OBVIOUS
<1> QED
  BY <1>1

\* Two friends are a pair that consented and whose friendship stands.
LEMMA FriendsOfEdge ==
  ASSUME FriendInv, NEW u \in Users, NEW v \in FriendsOf(u)
  PROVE  {u, v} \in befriended /\ {u, v} \notin ended
<1>1. PICK r \in requests :
        r.status = "accepted" /\ <<r.from, r.to>> \in {<<u, v>>, <<v, u>>}
  BY DEF FriendsOf
<1>2. {r.from, r.to} = {u, v}
  BY <1>1, SamePair
<1> QED
  BY <1>1, <1>2 DEF FriendInv, FriendsConsented

LEMMA FriendInvSend ==
  ASSUME FriendInv, NEW u \in Users, NEW v \in Users, NEW t \in Times,
         NEW fails \in BOOLEAN, SendFriendRequest(u, v, t, fails)
  PROVE  FriendInv' /\ befriended' = befriended
<1> DEFINE new == [id |-> asked + 1, from |-> u, to |-> v, created |-> t,
                   status |-> "pending"]
<1>1. asked' \in 0..MaxRequests /\ asked + 1 \in 1..MaxRequests
  BY FriendsAssumption DEF FriendInv, SendFriendRequest
<1>2. new \in Request
  BY <1>1 DEF Request
<1>3. requests' = requests \cup {new} /\ UNCHANGED <<befriended, ended>>
  BY DEF SendFriendRequest
<1>4. new.status # "accepted"
  OBVIOUS
<1> HIDE DEF new
<1> QED
  BY <1>1, <1>2, <1>3, <1>4 DEF FriendInv, FriendsConsented

LEMMA FriendInvRespond ==
  ASSUME FriendInv, NEW r \in requests, NEW accept \in BOOLEAN,
         RespondFriendRequest(r, accept)
  PROVE  FriendInv' /\ befriended \subseteq befriended'
<1> DEFINE new == [r EXCEPT !.status = IF accept THEN "accepted" ELSE "rejected"]
<1>1. r \in Request
  BY DEF FriendInv
<1>2. /\ new \in Request
      /\ new.from = r.from /\ new.to = r.to
      /\ new.status = "accepted" <=> accept
  BY <1>1 DEF Request
<1>3. /\ requests' = (requests \ {r}) \cup {new}
      /\ befriended' = IF accept THEN befriended \cup {{r.from, r.to}} ELSE befriended
      /\ ended' = IF accept THEN ended \ {{r.from, r.to}} ELSE ended
      /\ asked' = asked
  BY DEF RespondFriendRequest
<1> HIDE DEF new
<1>4. requests' \subseteq Request /\ asked' \in 0..MaxRequests
  BY <1>2, <1>3 DEF FriendInv
<1>5. ASSUME NEW s \in requests', s.status = "accepted"
      PROVE  {s.from, s.to} \in befriended' /\ {s.from, s.to} \notin ended'
  <2>1. CASE s = new
    BY <1>2, <1>3, <1>5, <2>1
  <2>2. CASE s # new
    BY <1>3, <1>5, <2>2 DEF FriendInv, FriendsConsented
  <2> QED
    BY <2>1, <2>2
<1> QED
  BY <1>3, <1>4, <1>5 DEF FriendInv, FriendsConsented

LEMMA FriendInvDelete ==
  ASSUME FriendInv, NEW u \in Users, NEW v \in Users, DeleteFriend(u, v)
  PROVE  FriendInv' /\ befriended' = befriended
<1>1. /\ requests' = requests \ EdgesBetween(u, v)
      /\ ended' = ended \cup {{u, v}}
      /\ UNCHANGED <<asked, befriended>>
  BY DEF DeleteFriend
<1>2. ASSUME NEW r \in requests', r.status = "accepted"
      PROVE  {r.from, r.to} # {u, v}
  BY <1>1, <1>2, PairsDiffer DEF EdgesBetween
<1> QED
  BY <1>1, <1>2 DEF FriendInv, FriendsConsented

LEMMA FriendInvExpire ==
  ASSUME FriendInv, NEW t \in CleanupTimes, DeleteExpiredRequests(t)
  PROVE  FriendInv' /\ befriended' = befriended
BY DEF DeleteExpiredRequests, Unexpired, FriendInv, FriendsConsented

LEMMA FriendInvStep ==
  ASSUME FriendInv, FriendStep
  PROVE  FriendInv' /\ befriended \subseteq befriended'
BY FriendInvSend, FriendInvRespond, FriendInvDelete DEF FriendStep

LEMMA FriendInvSame ==
  ASSUME FriendInv, UNCHANGED friendVars
  PROVE  FriendInv' /\ befriended' = befriended
BY DEF friendVars, FriendInv, FriendsConsented

-----------------------------------------------------------------------------
(* The tables of the groups.                                               *)

LEMMA GroupInvInit == ASSUME Init PROVE GroupInv
BY GroupsAssumption DEF Init, GroupInv, GroupTypes, Roles, Fresh, MutesOfMembers,
  MembersBefriended, CreatorAdministers, Administers, CreationIsWhole

\* The three ways a creation ends differ in the rows that are left.
LEMMA GroupInvSeeded ==
  ASSUME GroupInv, NEW g \in Groups, NEW u \in Users, known[g] = "no",
         NEW rows \in SUBSET Seed, Seeded(g, u, rows), befriended' = befriended,
         NEW k \in {"yes", "failed", "broken"}, known' = [known EXCEPT ![g] = k],
         k = "yes" => rows = Seed, k = "failed" => rows = {}
  PROVE  GroupInv'
<1> USE GroupsAssumption DEF GroupInv
<1>1. /\ role' = IF "member" \in rows THEN [role EXCEPT ![g][u] = "owner"] ELSE role
      /\ namedBy' = IF "name" \in rows THEN [namedBy EXCEPT ![g] = u] ELSE namedBy
      /\ key' = IF "key" \in rows THEN [key EXCEPT ![g] = "readable"] ELSE key
      /\ creator' = [creator EXCEPT ![g] = u]
      /\ UNCHANGED <<mute, torn>>
  BY DEF Seeded
<1>2. GroupTypes'
  BY <1>1 DEF GroupTypes, Roles
<1>3. \A v \in Users : role'[g][v] # "none" => v = u
  BY <1>1 DEF Fresh, GroupTypes
<1>4. \A h \in Groups \ {g} : /\ role'[h] = role[h] /\ namedBy'[h] = namedBy[h]
                             /\ key'[h] = key[h] /\ known'[h] = known[h]
                             /\ creator'[h] = creator[h]
  BY <1>1 DEF GroupTypes
<1>5. known'[g] = k /\ creator'[g] = u
  BY <1>1 DEF GroupTypes
<1>6. Fresh'
  BY <1>4, <1>5 DEF Fresh
<1>7. MutesOfMembers'
  <2>1. \A v \in Users : mute[g][v] = NoMute
    BY DEF MutesOfMembers, Fresh
  <2> QED
    BY <1>1, <1>4, <2>1 DEF MutesOfMembers
<1>8. MembersBefriended'
  BY <1>3, <1>4, <1>5 DEF MembersBefriended
<1>9. CreatorAdministers'
  <2>1. \A v \in Users : namedBy'[g] = v => v = u
    BY <1>1 DEF Fresh, GroupTypes
  <2> QED
    BY <1>3, <1>4, <1>5, <2>1 DEF CreatorAdministers, Administers
<1>10. CreationIsWhole'
  <2>1. k = "yes" => namedBy'[g] # None /\ key'[g] = "readable"
    BY <1>1 DEF GroupTypes, Seed
  <2>2. k = "failed" => /\ \A v \in Users : role'[g][v] = "none"
                        /\ namedBy'[g] = None /\ key'[g] = "none"
    BY <1>1 DEF Fresh
  <2> QED
    BY <1>1, <1>4, <1>5, <2>1, <2>2 DEF CreationIsWhole
<1> QED
  BY <1>2, <1>6, <1>7, <1>8, <1>9, <1>10

LEMMA GroupInvCreate ==
  ASSUME GroupInv, NEW g \in Groups, NEW u \in Users, befriended' = befriended,
         \/ CreateGroup(g, u)
         \/ \E statement \in Seed : CreateGroupFails(g, u, statement)
         \/ \E statement \in Seed \cup {"return"}, undone \in SUBSET Seed :
              CreateGroupBreaks(g, u, statement, undone)
  PROVE  GroupInv'
<1>1. CASE CreateGroup(g, u)
  BY <1>1, GroupInvSeeded DEF CreateGroup, Seed
<1>2. CASE \E statement \in Seed : CreateGroupFails(g, u, statement)
  <2>1. PICK statement \in Seed : CreateGroupFails(g, u, statement)
    BY <1>2
  <2>2. SeedBefore(statement) \ Compensated(statement) = {}
    BY DEF Seed, SeedBefore, Compensated
  <2> QED
    BY <2>1, <2>2, GroupInvSeeded DEF CreateGroupFails
<1>3. CASE \E statement \in Seed \cup {"return"}, undone \in SUBSET Seed :
             CreateGroupBreaks(g, u, statement, undone)
  <2>1. PICK statement \in Seed \cup {"return"}, undone \in SUBSET Seed :
               CreateGroupBreaks(g, u, statement, undone)
    BY <1>3
  <2>2. SeedBefore(statement) \ undone \in SUBSET Seed
    BY DEF Seed, SeedBefore
  <2> QED
    BY <2>1, <2>2, GroupInvSeeded DEF CreateGroupBreaks
<1> QED
  BY <1>1, <1>2, <1>3

LEMMA GroupInvInvite ==
  ASSUME FriendInv, GroupInv, NEW g \in Groups, NEW u \in Users, NEW v \in Users,
         InviteMember(g, u, v), befriended' = befriended
  PROVE  GroupInv'
<1> USE DEF GroupInv
<1>1. /\ role' = [role EXCEPT ![g][v] = "member"]
      /\ known[g] = "yes"
      /\ UNCHANGED <<namedBy, key, mute, known, creator, torn>>
  BY DEF InviteMember
<1>2. GroupTypes'
  BY <1>1 DEF GroupTypes, Roles
<1>3. u = creator[g] /\ {u, v} \in befriended
  BY FriendsOfEdge DEF InviteMember, CreatorAdministers
<1>4. \A h \in Groups, w \in Users :
        role'[h][w] = IF h = g /\ w = v THEN "member" ELSE role[h][w]
  BY <1>1 DEF GroupTypes
<1>5. Fresh' /\ CreationIsWhole'
  BY <1>1, <1>4 DEF Fresh, CreationIsWhole
<1>6. MutesOfMembers'
  BY <1>1, <1>4 DEF MutesOfMembers
<1>7. MembersBefriended'
  BY <1>1, <1>3, <1>4 DEF MembersBefriended
<1>8. CreatorAdministers'
  BY <1>1, <1>4 DEF CreatorAdministers, Administers
<1> QED
  BY <1>2, <1>5, <1>6, <1>7, <1>8

\* Whether or not the second statement is reached.
LEMMA GroupInvDepart ==
  ASSUME GroupInv, NEW g \in Groups, NEW v \in Users, known[g] = "yes",
         DeleteGroupMember(g, v), befriended' = befriended
  PROVE  GroupInv'
<1> USE DEF GroupInv
<1>1. /\ mute' = [mute EXCEPT ![g][v] = NoMute]
      /\ role' \in {role, [role EXCEPT ![g][v] = "none"]}
      /\ UNCHANGED <<namedBy, key, known, creator, torn>>
  BY DEF DeleteGroupMember
<1>2. GroupTypes'
  <2>1. /\ role \in [Groups -> [Users -> Roles]]
        /\ mute \in [Groups -> [Users -> Mute \cup {NoMute}]]
    BY DEF GroupTypes
  <2>2. [role EXCEPT ![g][v] = "none"] \in [Groups -> [Users -> Roles]]
    BY <2>1 DEF Roles
  <2>3. mute' \in [Groups -> [Users -> Mute \cup {NoMute}]]
    BY <1>1, <2>1
  <2> QED
    BY <1>1, <2>1, <2>2, <2>3 DEF GroupTypes
<1>3. \A h \in Groups, w \in Users :
        /\ mute'[h][w] = IF h = g /\ w = v THEN NoMute ELSE mute[h][w]
        /\ role'[h][w] \in {role[h][w], "none"}
        /\ ~(h = g /\ w = v) => role'[h][w] = role[h][w]
  BY <1>1 DEF GroupTypes
<1>4. Fresh' /\ CreationIsWhole'
  BY <1>1, <1>3 DEF Fresh, CreationIsWhole
<1>5. MutesOfMembers'
  BY <1>3 DEF MutesOfMembers
<1>6. MembersBefriended'
  BY <1>1, <1>3 DEF MembersBefriended
<1>7. CreatorAdministers'
  BY <1>1, <1>3 DEF CreatorAdministers, Administers
<1> QED
  BY <1>2, <1>4, <1>5, <1>6, <1>7

\* Name and key.
LEMMA GroupInvKey ==
  ASSUME GroupInv, NEW g \in Groups, NEW u \in Users, befriended' = befriended,
         UpdateGroupName(g, u) \/ UpdateGroupKey(g, u) \/ UpdateGroupKeyFails(g, u)
  PROVE  GroupInv'
<1> USE GroupsAssumption DEF GroupInv
<1>1. known[g] = "yes" /\ u = creator[g] /\ UNCHANGED <<role, mute, known, creator>>
  BY DEF UpdateGroupName, UpdateGroupKey, UpdateGroupKeyFails, CreatorAdministers
<1>2. namedBy' \in {namedBy, [namedBy EXCEPT ![g] = u]}
  BY DEF UpdateGroupName, UpdateGroupKey, UpdateGroupKeyFails
<1>3. \A h \in Groups \ {g} : key'[h] = key[h] /\ (h \in torn' <=> h \in torn)
  BY DEF UpdateGroupName, UpdateGroupKey, UpdateGroupKeyFails, GroupTypes
<1>4. key'[g] = "readable" \/ g \in torn' \/ (key'[g] = key[g] /\ torn' = torn)
  BY DEF UpdateGroupName, UpdateGroupKey, UpdateGroupKeyFails, GroupTypes
<1>5. key' \in [Groups -> {"none", "readable", "zeroed"}]
  BY DEF UpdateGroupName, UpdateGroupKey, UpdateGroupKeyFails, GroupTypes
<1>6. \A h \in Groups : namedBy'[h] \in {namedBy[h], u} /\ (h # g => namedBy'[h] = namedBy[h])
  BY <1>2 DEF GroupTypes
<1>7. GroupTypes'
  BY <1>1, <1>2, <1>5 DEF GroupTypes
<1>8. Fresh' /\ MutesOfMembers' /\ MembersBefriended'
  BY <1>1, <1>3, <1>6 DEF Fresh, MutesOfMembers, MembersBefriended
<1>9. CreatorAdministers'
  BY <1>1, <1>6 DEF CreatorAdministers, Administers
<1>10. CreationIsWhole'
  BY <1>1, <1>3, <1>4, <1>6 DEF CreationIsWhole
<1> QED
  BY <1>7, <1>8, <1>9, <1>10

\* Steps that change nothing but mutes of members, or clear mutes.
LEMMA GroupInvMutes ==
  ASSUME GroupInv, UNCHANGED <<role, namedBy, key, known, creator, torn>>,
         befriended' = befriended,
         mute' \in [Groups -> [Users -> Mute \cup {NoMute}]],
         \A g \in Groups, u \in Users :
           mute'[g][u] \in {mute[g][u], NoMute} \/ role[g][u] # "none"
  PROVE  GroupInv'
BY DEF GroupInv, GroupTypes, Fresh, MutesOfMembers, MembersBefriended,
  CreatorAdministers, Administers, CreationIsWhole

LEMMA GroupInvMute ==
  ASSUME GroupInv, NEW g \in Groups, NEW u \in Users, NEW v \in Users,
         befriended' = befriended,
         UnmuteMember(g, u, v) \/ \E m \in Mute : MuteMember(g, u, v, m)
  PROVE  GroupInv'
<1>1. PICK m \in Mute \cup {NoMute} :
        /\ mute' = [mute EXCEPT ![g][v] = m]
        /\ m = NoMute \/ role[g][v] # "none"
  BY DEF UnmuteMember, MuteMember
<1>2. UNCHANGED <<role, namedBy, key, known, creator, torn>>
  BY DEF UnmuteMember, MuteMember
<1>3. mute \in [Groups -> [Users -> Mute \cup {NoMute}]]
  BY DEF GroupInv, GroupTypes
<1>4. mute' \in [Groups -> [Users -> Mute \cup {NoMute}]]
  BY <1>1, <1>3
<1>5. \A h \in Groups, w \in Users :
        mute'[h][w] = IF h = g /\ w = v THEN m ELSE mute[h][w]
  BY <1>1, <1>3
<1> QED
  BY <1>1, <1>2, <1>4, <1>5, GroupInvMutes

LEMMA GroupInvCleanup ==
  ASSUME GroupInv, NEW t \in CleanupTimes, CleanupExpiredData(t), befriended' = befriended
  PROVE  GroupInv'
<1>1. mute \in [Groups -> [Users -> Mute \cup {NoMute}]]
  BY DEF GroupInv, GroupTypes
<1>2. mute' = mute \/ DeleteExpiredMutes(t)
  BY DEF CleanupExpiredData
<1>3. /\ mute' \in [Groups -> [Users -> Mute \cup {NoMute}]]
      /\ \A g \in Groups, u \in Users : mute'[g][u] \in {mute[g][u], NoMute}
  BY <1>1, <1>2 DEF DeleteExpiredMutes
<1> QED
  BY <1>3, GroupInvMutes DEF CleanupExpiredData

\* Steps of the friends.
LEMMA GroupInvFriends ==
  ASSUME GroupInv, UNCHANGED <<role, namedBy, key, mute, known, creator, torn>>,
         befriended \subseteq befriended'
  PROVE  GroupInv'
BY DEF GroupInv, GroupTypes, Fresh, MutesOfMembers, MembersBefriended,
  CreatorAdministers, Administers, CreationIsWhole

LEMMA GroupInvStep ==
  ASSUME FriendInv, GroupInv, NEW g \in Groups, NEW u \in Users, GroupStep(g, u),
         befriended' = befriended
  PROVE  GroupInv'
<1>1. CASE \/ CreateGroup(g, u)
           \/ \E statement \in Seed : CreateGroupFails(g, u, statement)
           \/ \E statement \in Seed \cup {"return"}, undone \in SUBSET Seed :
                CreateGroupBreaks(g, u, statement, undone)
  BY <1>1, GroupInvCreate
<1>2. CASE \E v \in Users : InviteMember(g, u, v)
  BY <1>2, GroupInvInvite
<1>3. CASE \E v \in Users : RemoveMember(g, u, v)
  BY <1>3, GroupInvDepart DEF RemoveMember
<1>4. CASE LeaveGroup(g, u)
  BY <1>4, GroupInvDepart DEF LeaveGroup
<1>5. CASE UpdateGroupName(g, u) \/ UpdateGroupKey(g, u) \/ UpdateGroupKeyFails(g, u)
  BY <1>5, GroupInvKey
<1>6. CASE \E v \in Users :
             UnmuteMember(g, u, v) \/ \E m \in Mute : MuteMember(g, u, v, m)
  BY <1>6, GroupInvMute
<1>7. CASE \E t \in Times : RecordMentionAtAllUsage(g, u, t)
  BY <1>7, GroupInvFriends DEF RecordMentionAtAllUsage
<1> QED
  BY <1>1, <1>2, <1>3, <1>4, <1>5, <1>6, <1>7 DEF GroupStep

-----------------------------------------------------------------------------
(* The theorems.                                                           *)

\* Both parts hold throughout.
THEOREM Inductive == Spec => [](FriendInv /\ GroupInv)
<1>1. Init => FriendInv /\ GroupInv
  BY GroupInvInit, FriendsAssumption
  DEF Init, FriendsInit, FriendInv, FriendsConsented
<1>2. FriendInv /\ GroupInv /\ [Next]_vars => (FriendInv /\ GroupInv)'
  <2> SUFFICES ASSUME FriendInv, GroupInv, [Next]_vars
               PROVE  FriendInv' /\ GroupInv'
    OBVIOUS
  <2>1. CASE FriendStep
    <3>1. UNCHANGED <<role, namedBy, key, mute, known, creator, torn>>
      BY <2>1 DEF FriendStep, groupVars
    <3> QED
      BY <2>1, <3>1, FriendInvStep, GroupInvFriends
  <2>2. CASE \E g \in Groups, u \in Users : GroupStep(g, u) /\ UNCHANGED friendVars
    BY <2>2, FriendInvSame, GroupInvStep
  <2>3. CASE \E t \in CleanupTimes : CleanupExpiredData(t)
    BY <2>3, FriendInvExpire, GroupInvCleanup DEF CleanupExpiredData
  <2>4. CASE UNCHANGED vars
    BY <2>4, FriendInvSame, GroupInvFriends DEF vars, groupVars
  <2> QED
    BY <2>1, <2>2, <2>3, <2>4 DEF Next
<1> QED
  BY <1>1, <1>2, PTL DEF Spec

\* Whatever fails and wherever the process is killed, a mute ends with the
\* membership it belongs to.
THEOREM MutesOfMembersHolds == Spec => []MutesOfMembers
BY Inductive, PTL DEF GroupInv

\* Nobody is in a group, or has a say in it, without consent.
THEOREM MembersConsentedHolds == Spec => []MembersConsented
<1>1. FriendInv /\ GroupInv => MembersConsented
  BY DEF FriendInv, GroupInv, MembersConsented, MembersBefriended, CreatorAdministers
<1> QED
  BY <1>1, Inductive, PTL

\* A created group is complete, a refused one leaves nothing.
THEOREM CreationIsWholeHolds == Spec => []CreationIsWhole
BY Inductive, PTL DEF GroupInv

\* A deleted friendship stays deleted until a request is accepted again.
THEOREM EndedStaysEndedHolds == Spec => []EndedStaysEnded
<1>1. FriendInv => EndedStaysEnded
  BY FriendsOfEdge DEF EndedStaysEnded
<1> QED
  BY <1>1, Inductive, PTL

-----------------------------------------------------------------------------
(* What pruning leaves of a window.                                        *)

\* Well-founded induction in the form the provers can use.
Less == {p \in Nat \X Nat : p[1] < p[2]}

LEMMA Smallest ==
  ASSUME NEW S \in SUBSET Nat, S # {}
  PROVE  \E x \in S : \A y \in S : x <= y
<1>1. IsWellFoundedOn(Less, Nat)
  BY NatLessThanWellFounded DEF OpToRel, Less
<1>2. PICK x \in S : \A y \in S : ~(<<y, x>> \in Less)
  BY <1>1, WFMin
<1>3. ASSUME NEW y \in S
      PROVE  x <= y
  <2>1. x \in Nat /\ y \in Nat
    OBVIOUS
  <2>2. ~(<<y, x>>[1] < <<y, x>>[2])
    BY <1>2, <2>1 DEF Less
  <2> QED
    BY <2>1, <2>2
<1> QED
  BY <1>3

\* The prefixes of s up to n, pruned: the recursion of Since.
Keeps(s, oldest, n, f) ==
  f = [i \in 0..n |-> IF i = 0 THEN <<>>
                      ELSE IF s[i] >= oldest THEN Append(f[i - 1], s[i])
                      ELSE f[i - 1]]

\* The recursion has a solution for every prefix.
LEMMA KeepsExists ==
  ASSUME NEW S, NEW s \in Seq(S), NEW oldest, NEW n \in 0..Len(s)
  PROVE  \E f : Keeps(s, oldest, n, f)
<1> DEFINE Bad == {k \in 0..Len(s) : ~\E f : Keeps(s, oldest, k, f)}
<1>1. ASSUME Bad # {} PROVE FALSE
  <2>1. PICK k \in Bad : \A j \in Bad : k <= j
    <3>1. Bad \in SUBSET Nat
      OBVIOUS
    <3> HIDE DEF Bad
    <3> QED
      BY <1>1, <3>1, Smallest
  <2>2. k \in 0..Len(s) /\ ~\E f : Keeps(s, oldest, k, f)
    OBVIOUS
  <2>3. CASE k = 0
    <3>1. Keeps(s, oldest, 0, [i \in 0..0 |-> <<>>])
      BY DEF Keeps
    <3> QED
      BY <2>2, <2>3, <3>1
  <2>4. CASE k # 0
    <3>1. k - 1 \in 0..Len(s) /\ k \in Nat /\ k - 1 \notin Bad
      BY <2>1, <2>2, <2>4
    <3>2. PICK f : Keeps(s, oldest, k - 1, f)
      BY <3>1
    <3> DEFINE g == [i \in 0..k |-> IF i # k THEN f[i]
                                    ELSE IF s[k] >= oldest THEN Append(f[k - 1], s[k])
                                    ELSE f[k - 1]]
    <3>3. \A i \in 0..(k - 1) : g[i] = f[i]
      BY <3>1
    <3>4. ASSUME NEW i \in 0..k
          PROVE  g[i] = IF i = 0 THEN <<>>
                        ELSE IF s[i] >= oldest THEN Append(g[i - 1], s[i])
                        ELSE g[i - 1]
      <4>1. CASE i = k
        <5>1. g[k - 1] = f[k - 1]
          BY <3>1, <3>3, <2>4
        <5> QED
          BY <4>1, <5>1, <3>1, <2>4
      <4>2. CASE i # k
        <5>1. i \in 0..(k - 1)
          BY <4>2, <3>1
        <5>2. f[i] = IF i = 0 THEN <<>>
                     ELSE IF s[i] >= oldest THEN Append(f[i - 1], s[i])
                     ELSE f[i - 1]
          BY <3>2, <5>1 DEF Keeps
        <5>3. i # 0 => g[i - 1] = f[i - 1]
          BY <5>1, <3>3
        <5> QED
          BY <5>1, <5>2, <5>3, <3>3
      <4> QED
        BY <4>1, <4>2
    <3>5. Keeps(s, oldest, k, g)
      BY <3>4 DEF Keeps
    <3> QED
      BY <2>2, <3>5
  <2> QED
    BY <2>3, <2>4
<1> QED
  BY <1>1

LEMMA SinceDef ==
  ASSUME NEW S, NEW s \in Seq(S), NEW oldest
  PROVE  \E f : Keeps(s, oldest, Len(s), f) /\ Since(s, oldest) = f[Len(s)]
<1> DEFINE kept == CHOOSE f : Keeps(s, oldest, Len(s), f)
<1>1. Keeps(s, oldest, Len(s), kept)
  <2>1. Len(s) \in 0..Len(s)
    OBVIOUS
  <2> QED
    BY <2>1, KeepsExists
<1>2. Since(s, oldest) = kept[Len(s)]
  BY DEF Since, Keeps
<1> QED
  BY <1>1, <1>2

(***************************************************************************)
(* The last k times of s, none of them before oldest, are the last k that  *)
(* pruning leaves; and pruning adds nothing.                               *)
(***************************************************************************)
LEMMA SinceKeeps ==
  ASSUME NEW S \in SUBSET Int, NEW s \in Seq(S), NEW oldest \in Int,
         NEW k \in 0..Len(s), \A i \in 0..(k - 1) : s[Len(s) - i] >= oldest
  PROVE  /\ Since(s, oldest) \in Seq(S)
         /\ Len(Since(s, oldest)) \in k..Len(s)
         /\ \A i \in 0..(k - 1) :
              Since(s, oldest)[Len(Since(s, oldest)) - i] = s[Len(s) - i]
<1>0. Len(s) \in Nat /\ k \in Nat /\ \A i \in 1..Len(s) : s[i] \in Int
  <2>1. Len(s) \in Nat /\ \A i \in 1..Len(s) : s[i] \in S
    OBVIOUS
  <2>2. \A x \in S : x \in Int
    OBVIOUS
  <2>3. k \in Nat
    BY <2>1
  <2> QED
    BY <2>1, <2>2, <2>3
<1>1. PICK f : Keeps(s, oldest, Len(s), f) /\ Since(s, oldest) = f[Len(s)]
  BY SinceDef
<1> DEFINE L == Len(s)
           Good(n) == /\ f[n] \in Seq(S) /\ Len(f[n]) <= n
                      /\ \A i \in 0..(k - 1) :
                           n - i > L - k => Len(f[n]) > i /\ f[n][Len(f[n]) - i] = s[n - i]
           Bad == {n \in 0..L : ~Good(n)}
<1>2. /\ f[0] = <<>>
      /\ \A n \in 1..L : f[n] = IF s[n] >= oldest THEN Append(f[n - 1], s[n])
                                ELSE f[n - 1]
  <2>1. \A n \in 0..L : f[n] = IF n = 0 THEN <<>>
                              ELSE IF s[n] >= oldest THEN Append(f[n - 1], s[n])
                              ELSE f[n - 1]
    BY <1>1 DEF Keeps
  <2> QED
    BY <1>0, <2>1
<1>3. Good(0)
  BY <1>0, <1>2
<1>4. ASSUME NEW n \in 1..L, Good(n - 1) PROVE Good(n)
  <2>1. n - 1 \in Nat /\ n \in Nat /\ s[n] \in S
    BY <1>0
  <2>2. CASE s[n] >= oldest
    <3>1. f[n] = Append(f[n - 1], s[n])
      BY <1>2, <2>2
    <3>2. /\ f[n] \in Seq(S) /\ Len(f[n]) = Len(f[n - 1]) + 1 /\ f[n][Len(f[n])] = s[n]
          /\ \A j \in 1..Len(f[n - 1]) : f[n][j] = f[n - 1][j]
          /\ Len(f[n - 1]) \in Nat
      BY <1>4, <2>1, <3>1
    <3>3. ASSUME NEW i \in 0..(k - 1), n - i > L - k
          PROVE  Len(f[n]) > i /\ f[n][Len(f[n]) - i] = s[n - i]
      <4>1. CASE i = 0
        BY <3>2, <4>1
      <4>2. CASE i # 0
        <5>1. i - 1 \in 0..(k - 1) /\ (n - 1) - (i - 1) = n - i
          BY <4>2, <1>0, <2>1
        <5>2. Len(f[n - 1]) > i - 1 /\ f[n - 1][Len(f[n - 1]) - (i - 1)] = s[n - i]
          BY <1>4, <3>3, <5>1
        <5>3. Len(f[n - 1]) - (i - 1) = Len(f[n]) - i
              /\ Len(f[n]) - i \in 1..Len(f[n - 1])
          BY <3>2, <4>2, <5>1, <5>2
        <5>4. f[n][Len(f[n]) - i] = f[n - 1][Len(f[n - 1]) - (i - 1)]
          BY <3>2, <5>3
        <5>5. Len(f[n]) > i
          BY <3>2, <5>1, <5>2
        <5> QED
          BY <5>2, <5>4, <5>5
      <4> QED
        BY <4>1, <4>2
    <3> QED
      BY <1>4, <2>1, <3>2, <3>3
  <2>3. CASE ~(s[n] >= oldest)
    <3>1. f[n] = f[n - 1]
      BY <1>2, <2>3
    <3>2. n <= L - k
      <4>1. ASSUME n > L - k PROVE FALSE
        <5>1. L - n \in 0..(k - 1) /\ L - (L - n) = n
          BY <1>0, <2>1, <4>1
        <5> QED
          BY <2>3, <5>1
      <4> QED
        BY <1>0, <2>1, <4>1
    <3> QED
      BY <1>0, <1>4, <2>1, <3>1, <3>2
  <2> QED
    BY <2>2, <2>3
<1>5. ASSUME Bad # {} PROVE FALSE
  <2> HIDE DEF Good
  <2>1. PICK n \in Bad : \A j \in Bad : n <= j
    <3>1. Bad \in SUBSET Nat
      BY <1>0
    <3> HIDE DEF Bad
    <3> QED
      BY <1>5, <3>1, Smallest
  <2>2. n \in 0..L /\ n # 0
    BY <1>3
  <2>3. n - 1 \in 0..L /\ n \in 1..L /\ ~(n <= n - 1)
    BY <1>0, <2>2
  <2>4. Good(n - 1)
    BY <2>1, <2>3
  <2> QED
    BY <1>4, <2>3, <2>4
<1>6. Good(L)
  <2> HIDE DEF Good
  <2> QED  BY <1>0, <1>5
<1>7. ASSUME NEW i \in 0..(k - 1) PROVE L - i > L - k
  BY <1>0
<1>8. Len(f[L]) >= k
  <2>1. CASE k = 0
    BY <1>6, <2>1
  <2>2. CASE k # 0
    <3>1. k - 1 \in 0..(k - 1)
      BY <1>0, <2>2
    <3> QED
      BY <1>0, <1>6, <1>7, <3>1
  <2> QED
    BY <2>1, <2>2
<1> QED
  BY <1>0, <1>1, <1>6, <1>7, <1>8

-----------------------------------------------------------------------------
(* The windows of @ALL.                                                    *)

\* The last k uses of a user all lie within one window.
Close(s, k) ==
  \A i, j \in 0..(k - 1) : s[Len(s) - i] - s[Len(s) - j] <= AtAllWindow

\* The stored window still has the last uses as far as they are close.
Remembered(w, s) ==
  \A k \in 1..Len(s) : Close(s, k) =>
    /\ k <= Len(w)
    /\ \A i \in 0..(k - 1) : w[Len(w) - i] = s[Len(s) - i]

Kept(w, s) ==
  /\ w \in Seq(Times) /\ Len(w) <= MaxAtAll
  /\ s \in Seq(Times) /\ Len(s) <= MaxAtAll + 1
  /\ Remembered(w, s)

AtAllInv == \A g \in Groups, u \in Users : Kept(window[g][u], uses[g][u])

AtAllTypes ==
  /\ DOMAIN window = Groups /\ DOMAIN uses = Groups
  /\ \A g \in Groups : DOMAIN window[g] = Users /\ DOMAIN uses[g] = Users

\* One more use at time t, which pruning the window had left room for.
Recorded(w, s, t, v, z) ==
  /\ Len(Prune(w, t)) < MaxAtAll
  /\ v = Append(Prune(w, t), t) /\ z = LastUses(Append(s, t))

LEMMA Remembers ==
  ASSUME NEW w, NEW s, NEW t \in Times, NEW v, NEW z,
         Kept(w, s), Recorded(w, s, t, v, z)
  PROVE  Kept(v, z)
<1> USE DEF Kept, Recorded
<1> DEFINE p == Prune(w, t)
           a == Append(s, t)
<1>0. /\ Times \subseteq Int /\ Times \subseteq Nat
      /\ MaxAtAll \in Nat /\ AtAllWindow \in Nat /\ MaxAtAll > 0
      /\ t \in Int /\ t - AtAllWindow \in Int
      /\ Len(w) \in Nat /\ Len(s) \in Nat
  BY GroupsAssumption, FriendsAssumption DEF Times
<1>1. p \in Seq(Times) /\ Len(p) \in Nat
  <2>1. 0 \in 0..Len(w) /\ \A i \in 0..(0 - 1) : w[Len(w) - i] >= t - AtAllWindow
    BY <1>0
  <2>2. Since(w, t - AtAllWindow) \in Seq(Times)
    BY <1>0, <2>1, SinceKeeps
  <2> QED
    BY <2>2 DEF Prune
<1>2. /\ v \in Seq(Times) /\ Len(v) = Len(p) + 1 /\ v[Len(v)] = t
      /\ \A i \in 1..Len(p) : v[Len(v) - i] = p[Len(p) - (i - 1)]
  <2>1. v = Append(p, t)
    OBVIOUS
  <2>2. /\ v \in Seq(Times) /\ Len(v) = Len(p) + 1 /\ v[Len(v)] = t
        /\ \A j \in 1..Len(p) : v[j] = p[j]
    BY <1>1, <2>1
  <2>3. ASSUME NEW i \in 1..Len(p) PROVE v[Len(v) - i] = p[Len(p) - (i - 1)]
    <3>1. Len(v) - i \in 1..Len(p) /\ Len(v) - i = Len(p) - (i - 1)
      BY <1>1, <2>2
    <3> QED
      BY <2>2, <3>1
  <2> QED
    BY <2>2, <2>3
<1>3. /\ a \in Seq(Times) /\ Len(a) = Len(s) + 1 /\ a[Len(a)] = t
      /\ \A j \in 1..Len(s) : a[j] = s[j]
  BY <1>0
<1>4. /\ z \in Seq(Times) /\ Len(z) <= MaxAtAll + 1 /\ Len(z) \in 1..Len(a)
      /\ \A i \in 0..(Len(z) - 1) : z[Len(z) - i] = a[Len(a) - i]
  <2>1. CASE Len(a) > MaxAtAll + 1
    <3>1. z = Tail(a)
      BY <2>1 DEF LastUses
    <3>2. z \in Seq(Times) /\ Len(z) = Len(a) - 1 /\ \A j \in 1..Len(z) : z[j] = a[j + 1]
      <4>1. a \in Seq(Times) /\ Len(a) \in Nat /\ a # <<>>
        BY <1>0, <1>3, <2>1
      <4>2. Tail(a) \in Seq(Times) /\ Len(Tail(a)) = Len(a) - 1
        BY <4>1
      <4>3. \A j \in 1..Len(Tail(a)) : Tail(a)[j] = a[j + 1]
        BY <4>1, <4>2
      <4> QED
        BY <3>1, <4>2, <4>3
    <3>3. ASSUME NEW i \in 0..(Len(z) - 1) PROVE z[Len(z) - i] = a[Len(a) - i]
      <4>1. Len(z) - i \in 1..Len(z) /\ (Len(z) - i) + 1 = Len(a) - i
        BY <1>0, <1>3, <3>2
      <4> QED
        BY <3>2, <4>1
    <3> QED
      BY <1>0, <1>3, <2>1, <3>2, <3>3
  <2>2. CASE ~(Len(a) > MaxAtAll + 1)
    BY <1>0, <1>3, <2>2 DEF LastUses
  <2> QED
    BY <2>1, <2>2
<1>5. ASSUME NEW i \in 1..Len(s) PROVE a[Len(a) - i] = s[Len(s) - (i - 1)]
  <2>1. Len(a) - i \in 1..Len(s) /\ Len(a) - i = Len(s) - (i - 1)
    BY <1>0, <1>3
  <2> QED
    BY <1>3, <2>1
<1>6. ASSUME NEW k \in 1..Len(z), Close(z, k)
      PROVE  /\ k <= Len(v)
             /\ \A i \in 0..(k - 1) : v[Len(v) - i] = z[Len(z) - i]
  <2>0. k \in 1..(Len(s) + 1) /\ k \in Nat /\ k - 1 \in Nat
    BY <1>0, <1>3, <1>4
  <2>1. z[Len(z)] = t /\ \A i \in 1..(k - 1) : z[Len(z) - i] = s[Len(s) - (i - 1)]
    <3>1. 0 \in 0..(Len(z) - 1) /\ Len(z) - 0 = Len(z) /\ Len(a) - 0 = Len(a)
      BY <1>0, <1>3, <1>4
    <3>2. z[Len(z)] = t
      BY <1>3, <1>4, <3>1
    <3>3. ASSUME NEW i \in 1..(k - 1) PROVE z[Len(z) - i] = s[Len(s) - (i - 1)]
      <4>1. i \in 0..(Len(z) - 1) /\ i \in 1..Len(s)
        BY <1>3, <1>4, <2>0
      <4> QED
        BY <1>4, <1>5, <4>1
    <3> QED
      BY <3>2, <3>3
  <2>2. \A i \in 0..((k - 1) - 1) : s[Len(s) - i] = z[Len(z) - (i + 1)]
    <3>1. \A i \in 0..((k - 1) - 1) : i + 1 \in 1..(k - 1) /\ (i + 1) - 1 = i
      BY <2>0
    <3> QED
      BY <2>1, <3>1
  <2>3. k - 1 <= Len(p) /\ \A i \in 0..((k - 1) - 1) : p[Len(p) - i] = s[Len(s) - i]
    <3>1. CASE k = 1
      BY <1>1, <3>1
    <3>2. CASE k # 1
      <4>1. Close(s, k - 1)
        <5>1. ASSUME NEW i \in 0..((k - 1) - 1), NEW j \in 0..((k - 1) - 1)
              PROVE  s[Len(s) - i] - s[Len(s) - j] <= AtAllWindow
          <6>1. i + 1 \in 0..(k - 1) /\ j + 1 \in 0..(k - 1)
            BY <2>0
          <6>2. z[Len(z) - (i + 1)] - z[Len(z) - (j + 1)] <= AtAllWindow
            BY <1>6, <6>1 DEF Close
          <6> QED
            BY <2>2, <6>2
        <5> QED
          BY <5>1 DEF Close
      <4>2. k - 1 \in 1..Len(s)
        BY <1>0, <2>0, <3>2
      <4>3. /\ k - 1 <= Len(w)
            /\ \A i \in 0..((k - 1) - 1) : w[Len(w) - i] = s[Len(s) - i]
        BY <4>1, <4>2 DEF Remembered
      <4>4. ASSUME NEW i \in 0..((k - 1) - 1) PROVE w[Len(w) - i] >= t - AtAllWindow
        <5>1. 0 \in 0..(k - 1) /\ i + 1 \in 0..(k - 1) /\ Len(z) - 0 = Len(z)
          BY <1>4, <2>0
        <5>2. z[Len(z) - 0] - z[Len(z) - (i + 1)] <= AtAllWindow
          BY <1>6, <5>1 DEF Close
        <5>3. t - w[Len(w) - i] <= AtAllWindow
          BY <2>1, <2>2, <4>3, <5>1, <5>2
        <5>4. w[Len(w) - i] \in Nat
          <6>1. Len(w) - i \in 1..Len(w)
            BY <1>0, <2>0, <4>3
          <6>2. \A j \in 1..Len(w) : w[j] \in Times
            OBVIOUS
          <6> QED
            BY <1>0, <6>1, <6>2
        <5> QED
          BY <1>0, <5>3, <5>4
      <4>5. k - 1 \in 0..Len(w)
        BY <1>0, <2>0, <4>3
      <4>6. /\ Len(p) \in (k - 1)..Len(w)
            /\ \A i \in 0..((k - 1) - 1) : p[Len(p) - i] = w[Len(w) - i]
        <5>1. p = Since(w, t - AtAllWindow)
          BY DEF Prune
        <5> HIDE DEF p
        <5> QED
          BY <1>0, <4>4, <4>5, <5>1, SinceKeeps
      <4> QED
        BY <1>1, <4>3, <4>6
    <3> QED
      BY <3>1, <3>2
  <2>4. ASSUME NEW i \in 0..(k - 1) PROVE v[Len(v) - i] = z[Len(z) - i]
    <3>1. CASE i = 0
      BY <1>1, <1>2, <1>4, <2>1, <3>1
    <3>2. CASE i # 0
      <4>1. i \in 1..(k - 1) /\ i \in 1..Len(p) /\ i - 1 \in 0..((k - 1) - 1)
        BY <1>1, <2>0, <2>3, <3>2
      <4> QED
        BY <1>2, <2>1, <2>3, <4>1
    <3> QED
      BY <3>1, <3>2
  <2>5. k <= Len(v)
    BY <1>1, <1>2, <2>0, <2>3
  <2> QED
    BY <2>4, <2>5
<1> HIDE DEF p
<1>7. Len(v) <= MaxAtAll
  BY <1>0, <1>1, <1>2 DEF p
<1> QED
  BY <1>2, <1>4, <1>6, <1>7 DEF Remembered

LEMMA AtAllSame ==
  ASSUME AtAllTypes, AtAllInv, UNCHANGED <<window, uses>>
  PROVE  AtAllTypes' /\ AtAllInv'
BY DEF AtAllTypes, AtAllInv

LEMMA AtAllRecord ==
  ASSUME AtAllTypes, AtAllInv, NEW g \in Groups, NEW u \in Users, NEW t \in Times,
         RecordMentionAtAllUsage(g, u, t)
  PROVE  AtAllTypes' /\ AtAllInv'
<1>1. PICK w, s, v, z :
        /\ w = window[g][u] /\ s = uses[g][u]
        /\ v = Append(Prune(w, t), t) /\ z = LastUses(Append(s, t))
  OBVIOUS
<1>2. /\ Recorded(w, s, t, v, z)
      /\ window' = [window EXCEPT ![g][u] = v]
      /\ uses' = [uses EXCEPT ![g][u] = z]
  BY <1>1 DEF RecordMentionAtAllUsage, Recorded
<1>3. AtAllTypes'
  BY <1>2 DEF AtAllTypes
<1>4. /\ window'[g][u] = v /\ uses'[g][u] = z
      /\ \A h \in Groups, x \in Users : h # g \/ x # u =>
           window'[h][x] = window[h][x] /\ uses'[h][x] = uses[h][x]
  BY <1>2 DEF AtAllTypes
<1>5. Kept(v, z)
  BY <1>1, <1>2, Remembers DEF AtAllInv
<1>6. ASSUME NEW h \in Groups, NEW x \in Users
      PROVE  Kept(window'[h][x], uses'[h][x])
  <2>1. CASE h = g /\ x = u
    BY <1>4, <1>5, <2>1
  <2>2. CASE ~(h = g /\ x = u)
    BY <1>4, <2>2 DEF AtAllInv
  <2> QED
    BY <2>1, <2>2
<1>7. AtAllInv'
  BY <1>6 DEF AtAllInv
<1> QED
  BY <1>3, <1>7

LEMMA AtAllInit == ASSUME Init PROVE AtAllTypes /\ AtAllInv
<1>1. <<>> \in Seq(Times) /\ Len(<<>>) = 0 /\ MaxAtAll \in Nat
  BY GroupsAssumption
<1> QED
  BY <1>1 DEF Init, AtAllTypes, AtAllInv, Kept, Remembered

LEMMA AtAllStep ==
  ASSUME AtAllTypes, AtAllInv, [Next]_vars
  PROVE  AtAllTypes' /\ AtAllInv'
<1>1. ASSUME NEW g \in Groups, NEW u \in Users, GroupStep(g, u)
      PROVE  UNCHANGED <<window, uses>>
             \/ \E t \in Times : RecordMentionAtAllUsage(g, u, t)
  BY <1>1 DEF GroupStep, CreateGroup, CreateGroupFails, CreateGroupBreaks, Seeded,
    InviteMember, RemoveMember, LeaveGroup, DeleteGroupMember, UpdateGroupName,
    UpdateGroupKey, UpdateGroupKeyFails, MuteMember, UnmuteMember
<1>2. CASE FriendStep
  BY <1>2, AtAllSame DEF FriendStep, groupVars
<1>3. CASE \E t \in CleanupTimes : CleanupExpiredData(t)
  BY <1>3, AtAllSame DEF CleanupExpiredData
<1>4. CASE UNCHANGED vars
  BY <1>4, AtAllSame DEF vars, groupVars
<1> QED
  BY <1>1, <1>2, <1>3, <1>4, AtAllSame, AtAllRecord DEF Next

\* Times in order whose first and last are close are all close.
LEMMA CloseInOrder ==
  ASSUME NEW s \in Seq(Times), NEW n \in Nat \ {0}, Len(s) = n,
         \A i \in 1..(n - 1) : s[i] <= s[i + 1], s[n] - s[1] <= AtAllWindow
  PROVE  Close(s, n)
<1>0. /\ AtAllWindow \in Nat /\ \A i \in 1..n : s[i] \in Int
  <2>1. \A i \in 1..n : s[i] \in Times
    OBVIOUS
  <2> QED
    BY <2>1, GroupsAssumption DEF Times
<1>1. ASSUME NEW i \in 1..n PROVE s[1] <= s[i]
  <2> DEFINE Bad == {j \in 1..n : ~(s[1] <= s[j])}
  <2>1. ASSUME Bad # {} PROVE FALSE
    <3>1. PICK j \in Bad : \A x \in Bad : j <= x
      <4>1. Bad \in SUBSET Nat
        OBVIOUS
      <4> HIDE DEF Bad
      <4> QED
        BY <2>1, <4>1, Smallest
    <3>2. j \in 1..n /\ ~(s[1] <= s[j]) /\ j # 1
      BY <1>0
    <3>3. j - 1 \in 1..(n - 1) /\ (j - 1) + 1 = j /\ ~(j <= j - 1)
      BY <3>2
    <3>4. s[1] <= s[j - 1]
      BY <3>1, <3>3
    <3> QED
      BY <1>0, <3>2, <3>3, <3>4
  <2> QED
    BY <2>1
<1>2. ASSUME NEW i \in 1..n PROVE s[i] <= s[n]
  <2> DEFINE Bad == {j \in 0..(n - 1) : ~(s[n - j] <= s[n])}
  <2>1. ASSUME Bad # {} PROVE FALSE
    <3>1. PICK j \in Bad : \A x \in Bad : j <= x
      <4>1. Bad \in SUBSET Nat
        OBVIOUS
      <4> HIDE DEF Bad
      <4> QED
        BY <2>1, <4>1, Smallest
    <3>2. j \in 0..(n - 1) /\ ~(s[n - j] <= s[n]) /\ j # 0
      BY <1>0
    <3>3. /\ j - 1 \in 0..(n - 1) /\ n - j \in 1..(n - 1) /\ (n - j) + 1 = n - (j - 1)
          /\ ~(j <= j - 1)
      BY <3>2
    <3>4. s[n - (j - 1)] <= s[n]
      BY <3>1, <3>3
    <3>5. n - (j - 1) \in 1..n
      BY <3>2, <3>3
    <3> QED
      BY <1>0, <3>2, <3>3, <3>4, <3>5
  <2>2. n - i \in 0..(n - 1) /\ n - (n - i) = i
    OBVIOUS
  <2> QED
    BY <2>1, <2>2
<1>3. ASSUME NEW i \in 0..(n - 1), NEW j \in 0..(n - 1)
      PROVE  s[n - i] - s[n - j] <= AtAllWindow
  <2>1. n - i \in 1..n /\ n - j \in 1..n /\ 1 \in 1..n /\ n \in 1..n
    OBVIOUS
  <2>2. s[n - i] <= s[n] /\ s[1] <= s[n - j]
    BY <1>1, <1>2, <2>1
  <2> QED
    BY <1>0, <2>1, <2>2
<1> QED
  BY <1>3 DEF Close

\* A sender never gets more than MaxAtAll @ALL into a window.
THEOREM AtAllLimitedHolds == Spec => []AtAllLimited
<1>1. AtAllInv => AtAllLimited
  <2> SUFFICES ASSUME AtAllInv, NEW g \in Groups, NEW u \in Users, NEW s,
                      s = uses[g][u], Len(s) > MaxAtAll,
                      \A i \in 1..MaxAtAll : s[i] <= s[i + 1],
                      s[Len(s)] - s[1] <= AtAllWindow
               PROVE  FALSE
    <3>1. ASSUME AtAllInv, NEW g \in Groups, NEW u \in Users,
                 Len(uses[g][u]) > MaxAtAll
          PROVE  uses[g][u][Len(uses[g][u])] \in Int /\ uses[g][u][1] \in Int
                 /\ AtAllWindow \in Int
      <4>1. PICK s : s = uses[g][u]
        OBVIOUS
      <4>2. s \in Seq(Times) /\ Len(s) \in Nat \ {0} /\ AtAllWindow \in Int
        BY <3>1, <4>1, GroupsAssumption DEF AtAllInv, Kept
      <4>3. s[Len(s)] \in Times /\ s[1] \in Times
        BY <4>2
      <4> QED
        BY <4>1, <4>2, <4>3 DEF Times
    <3> QED
      BY <3>1 DEF AtAllLimited
  <2>1. /\ s \in Seq(Times) /\ Len(s) = MaxAtAll + 1 /\ MaxAtAll \in Nat
        /\ Len(window[g][u]) <= MaxAtAll /\ Len(window[g][u]) \in Nat
        /\ Remembered(window[g][u], s)
    BY GroupsAssumption DEF AtAllInv, Kept
  <2>2. Close(s, MaxAtAll + 1)
    BY <2>1, CloseInOrder
  <2>3. MaxAtAll + 1 \in 1..Len(s)
    BY <2>1
  <2>4. MaxAtAll + 1 <= Len(window[g][u])
    BY <2>1, <2>2, <2>3 DEF Remembered
  <2> QED
    BY <2>1, <2>4
<1>2. Init => AtAllTypes /\ AtAllInv
  BY AtAllInit
<1>3. AtAllTypes /\ AtAllInv /\ [Next]_vars => (AtAllTypes /\ AtAllInv)'
  BY AtAllStep
<1> QED
  BY <1>1, <1>2, <1>3, PTL DEF Spec

-----------------------------------------------------------------------------
(* Types, and one pending request at a time.                               *)

\* The ids handed out so far are those of the rows, and differ.
RowsInv ==
  /\ befriended \subseteq Pairs /\ ended \subseteq Pairs
  /\ \A r \in requests : r.id <= asked
  /\ \A r, s \in requests : r.id = s.id => r = s

AskedOnce ==
  \A r, s \in requests :
    r.status = "pending" /\ s.status = "pending" /\ r.from = s.from /\ r.to = s.to
      => r = s

FaultsInv ==
  /\ torn \subseteq Groups
  /\ faults \in 0..MaxFaults
  /\ faults = 0 => AskedOnce

LEMMA RowsSend ==
  ASSUME FriendInv, RowsInv, NEW u \in Users, NEW v \in Users, NEW t \in Times,
         NEW fails \in BOOLEAN, SendFriendRequest(u, v, t, fails)
  PROVE  RowsInv' /\ (~fails /\ AskedOnce => AskedOnce')
<1>1. PICK new : new = [id |-> asked + 1, from |-> u, to |-> v, created |-> t,
                        status |-> "pending"]
  OBVIOUS
<1>2. /\ requests' = requests \cup {new} /\ asked' = asked + 1 /\ asked \in Nat
      /\ UNCHANGED <<befriended, ended>>
      /\ PendingFromTo(u, v) = {} \/ fails
  BY <1>1, FriendsAssumption DEF SendFriendRequest, FriendInv
<1>3. /\ new.id = asked + 1 /\ new.from = u /\ new.to = v /\ new.status = "pending"
  BY <1>1
<1>4. \A r \in requests : r.id \in Nat /\ r.id <= asked
  BY FriendsAssumption DEF FriendInv, Request, RowsInv
<1>5. \A r \in requests : r.id <= asked' /\ r.id # new.id
  BY <1>2, <1>3, <1>4
<1>6. RowsInv'
  BY <1>2, <1>3, <1>5 DEF RowsInv
<1>7. ASSUME ~fails, AskedOnce PROVE AskedOnce'
  <2>1. \A r \in requests : ~(r.from = u /\ r.to = v /\ r.status = "pending")
    BY <1>2, <1>7 DEF PendingFromTo
  <2> QED
    BY <1>2, <1>3, <1>7, <2>1 DEF AskedOnce
<1> QED
  BY <1>6, <1>7

LEMMA RowsRespond ==
  ASSUME FriendInv, RowsInv, NEW r \in requests, NEW accept \in BOOLEAN,
         RespondFriendRequest(r, accept)
  PROVE  RowsInv' /\ (AskedOnce => AskedOnce')
<1>1. PICK new : new = [r EXCEPT !.status = IF accept THEN "accepted" ELSE "rejected"]
  OBVIOUS
<1>2. r \in Request
  BY DEF FriendInv
<1>3. new.id = r.id /\ new.status # "pending"
  BY <1>1, <1>2 DEF Request
<1>4. /\ requests' = (requests \ {r}) \cup {new} /\ asked' = asked
      /\ befriended' \subseteq befriended \cup {{r.from, r.to}}
      /\ ended' \subseteq ended
  BY <1>1 DEF RespondFriendRequest
<1>5. {r.from, r.to} \in Pairs
  BY <1>2 DEF Request, Pairs
<1>6. \A s \in requests' : s.id <= asked'
  BY <1>3, <1>4 DEF RowsInv
<1>7. \A s, q \in requests' : s.id = q.id => s = q
  BY <1>3, <1>4 DEF RowsInv
<1>8. AskedOnce => AskedOnce'
  BY <1>3, <1>4 DEF AskedOnce
<1> QED
  BY <1>4, <1>5, <1>6, <1>7, <1>8 DEF RowsInv

\* Rows are only deleted.
LEMMA RowsFewer ==
  ASSUME RowsInv, requests' \subseteq requests, asked' = asked,
         befriended' = befriended, ended' \subseteq ended \cup Pairs
  PROVE  RowsInv' /\ (AskedOnce => AskedOnce')
BY DEF RowsInv, AskedOnce

LEMMA RowsFriendStep ==
  ASSUME FriendInv, RowsInv, FaultsInv, FriendStep
  PROVE  RowsInv' /\ FaultsInv'
<1>0. MaxFaults \in Nat
  BY GroupsAssumption
<1>1. CASE \E u, v \in Users, t \in Times :
             SendFriendRequest(u, v, t, FALSE) /\ UNCHANGED groupVars
  <2>1. RowsInv' /\ (AskedOnce => AskedOnce')
    BY <1>1, RowsSend
  <2> QED
    BY <1>1, <2>1 DEF FaultsInv, groupVars
<1>2. CASE \E u, v \in Users, t \in Times :
             /\ SendFriendRequest(u, v, t, TRUE)
             /\ Fault
             /\ UNCHANGED <<role, namedBy, key, mute, window, known, creator, torn, uses>>
  <2>1. RowsInv'
    BY <1>2, RowsSend
  <2>2. torn' = torn /\ faults' \in 0..MaxFaults /\ faults' # 0
    BY <1>0, <1>2 DEF Fault, FaultsInv
  <2> QED
    BY <2>1, <2>2 DEF FaultsInv
<1>3. CASE \E r \in requests, accept \in BOOLEAN :
             RespondFriendRequest(r, accept) /\ UNCHANGED groupVars
  <2>1. RowsInv' /\ (AskedOnce => AskedOnce')
    BY <1>3, RowsRespond
  <2> QED
    BY <1>3, <2>1 DEF FaultsInv, groupVars
<1>4. CASE \E u, v \in Users : DeleteFriend(u, v) /\ UNCHANGED groupVars
  <2>1. RowsInv' /\ (AskedOnce => AskedOnce')
    BY <1>4, RowsFewer DEF DeleteFriend, Pairs
  <2> QED
    BY <1>4, <2>1 DEF FaultsInv, groupVars
<1> QED
  BY <1>1, <1>2, <1>3, <1>4 DEF FriendStep

LEMMA RowsStep ==
  ASSUME FriendInv, RowsInv, FaultsInv, [Next]_vars
  PROVE  RowsInv' /\ FaultsInv'
<1>0. MaxFaults \in Nat
  BY GroupsAssumption
<1>1. CASE \E g \in Groups, u \in Users : GroupStep(g, u) /\ UNCHANGED friendVars
  <2>1. PICK g \in Groups, u \in Users : GroupStep(g, u) /\ UNCHANGED friendVars
    BY <1>1
  <2>2. /\ torn' \subseteq torn \cup {g}
        /\ faults' = faults \/ Fault
    BY <2>1 DEF GroupStep, CreateGroup, CreateGroupFails, CreateGroupBreaks, Seeded,
      InviteMember, RemoveMember, LeaveGroup, DeleteGroupMember, UpdateGroupName,
      UpdateGroupKey, UpdateGroupKeyFails, MuteMember, UnmuteMember,
      RecordMentionAtAllUsage
  <2>3. RowsInv' /\ (AskedOnce => AskedOnce')
    BY <2>1, RowsFewer DEF friendVars
  <2> QED
    BY <1>0, <2>2, <2>3 DEF FaultsInv, Fault
<1>2. CASE \E t \in CleanupTimes : CleanupExpiredData(t)
  <2>1. RowsInv' /\ (AskedOnce => AskedOnce')
    BY <1>2, RowsFewer DEF CleanupExpiredData, DeleteExpiredRequests, Unexpired
  <2>2. torn' = torn /\ (faults' = faults \/ Fault)
    BY <1>2 DEF CleanupExpiredData
  <2> QED
    BY <1>0, <2>1, <2>2 DEF FaultsInv, Fault
<1>3. CASE UNCHANGED vars
  <2>1. RowsInv' /\ (AskedOnce => AskedOnce')
    BY <1>3, RowsFewer DEF vars, friendVars
  <2> QED
    BY <1>3, <2>1 DEF FaultsInv, vars, groupVars
<1> QED
  BY <1>1, <1>2, <1>3, RowsFriendStep DEF Next

\* Types; a user asks another one once at a time, unless a lookup failed.
THEOREM WellFormedHolds == Spec => []WellFormed
<1>1. Init => RowsInv /\ FaultsInv /\ AtAllTypes /\ AtAllInv
  BY AtAllInit, GroupsAssumption
  DEF Init, FriendsInit, RowsInv, FaultsInv, AskedOnce
<1>2. /\ FriendInv /\ GroupInv
      /\ RowsInv /\ FaultsInv /\ AtAllTypes /\ AtAllInv
      /\ [Next]_vars
      => (RowsInv /\ FaultsInv /\ AtAllTypes /\ AtAllInv)'
  BY RowsStep, AtAllStep
<1>3. FriendInv /\ GroupInv /\ RowsInv /\ FaultsInv /\ AtAllInv => WellFormed
  <2> SUFFICES ASSUME FriendInv, GroupInv, RowsInv, FaultsInv, AtAllInv
               PROVE  WellFormed
    OBVIOUS
  <2>1. FriendsTypeOK
    BY DEF FriendInv, RowsInv, FriendsTypeOK
  <2>2. ASSUME faults = 0, NEW u \in Users, NEW v \in Users
        PROVE  Cardinality(PendingFromTo(u, v)) <= 1
    <3>1. \A r, s \in PendingFromTo(u, v) : r = s
      BY <2>2 DEF FaultsInv, AskedOnce, PendingFromTo
    <3>2. CASE PendingFromTo(u, v) = {}
      <4>1. Cardinality(PendingFromTo(u, v)) = 0
        BY <3>2, FS_EmptySet
      <4> QED
        BY <4>1
    <3>3. CASE PendingFromTo(u, v) # {}
      <4>1. PICK r \in PendingFromTo(u, v) : TRUE
        BY <3>3
      <4>2. PendingFromTo(u, v) = {r}
        BY <3>1
      <4>3. Cardinality(PendingFromTo(u, v)) = 1
        BY <4>2, FS_Singleton
      <4> QED
        BY <4>3
    <3> QED
      BY <3>2, <3>3
  <2>3. \A g \in Groups, u \in Users :
          /\ window[g][u] \in Seq(Times) /\ Len(window[g][u]) <= MaxAtAll
          /\ uses[g][u] \in Seq(Times)
    BY DEF AtAllInv, Kept
  <2> QED
    BY <2>1, <2>2, <2>3 DEF WellFormed, GroupInv, GroupTypes, Roles, FaultsInv
<1> QED
  BY <1>1, <1>2, <1>3, Inductive, PTL DEF Spec

\* A cleanup deletes no mute that still silences anybody, or ever will again.
THEOREM CleanupSparesMutesHolds == Spec => CleanupSparesMutes
<1>1. ASSUME GroupInv, NEW t \in CleanupTimes, CleanupExpiredData(t),
             NEW g \in Groups, NEW u \in Users, NEW s \in t..(MaxCleanupTime + Second)
      PROVE  IsMuted(mute[g][u], s) = IsMuted(mute'[g][u], s)
  <2>1. mute' = mute \/ mute'[g][u] = IF Over(mute[g][u], t) THEN NoMute ELSE mute[g][u]
    BY <1>1 DEF CleanupExpiredData, DeleteExpiredMutes
  <2>2. ~IsMuted(NoMute, s)
    BY DEF IsMuted
  <2>3. ASSUME Over(mute[g][u], t), mute[g][u] # NoMute PROVE ~IsMuted(mute[g][u], s)
    <3>1. PICK m \in Mute : m = mute[g][u]
      BY <1>1, <2>3 DEF GroupInv, GroupTypes
    <3>2. /\ m.start \in Nat /\ m.duration \in Nat \cup {Permanent}
          /\ m.duration \in Nat => m.duration * Second \in Nat
      <4>1. m.start \in 0..MaxTime /\ m.duration \in Durations \cup {Permanent}
        BY DEF Mute, Times
      <4>2. m.start \in Nat
        BY <4>1
      <4>3. Durations \subseteq Nat /\ Second \in Nat
        BY GroupsAssumption
      <4>4. \A d \in Nat, k \in Nat : d * k \in Nat
        OBVIOUS
      <4>5. m.duration \in Nat => m.duration * Second \in Nat
        BY <4>3, <4>4
      <4> QED
        BY <4>1, <4>2, <4>3, <4>5
    <3>3. m.duration >= 0 /\ m.start + m.duration * Second <= t
      BY <2>3, <3>1 DEF Over
    <3>4. s \in Int /\ t \in Int /\ t <= s
      BY GroupsAssumption DEF CleanupTimes
    <3>5. m.duration # Permanent /\ ~(s < m.start + m.duration * Second)
      BY <3>2, <3>3, <3>4 DEF Permanent
    <3> QED
      BY <3>1, <3>5 DEF IsMuted
  <2>4. CASE mute' = mute \/ ~Over(mute[g][u], t)
    <3>1. mute'[g][u] = mute[g][u]
      BY <2>1, <2>4
    <3> QED
      BY <3>1
  <2>5. CASE mute' # mute /\ Over(mute[g][u], t)
    <3>1. mute'[g][u] = NoMute /\ ~IsMuted(mute[g][u], s)
      BY <2>1, <2>2, <2>3, <2>5
    <3>2. ~IsMuted(mute'[g][u], s)
      BY <2>2, <3>1
    <3>3. IsMuted(mute[g][u], s) \in BOOLEAN /\ IsMuted(mute'[g][u], s) \in BOOLEAN
      BY DEF IsMuted
    <3> QED
      BY <3>1, <3>2, <3>3
  <2> QED
    BY <2>4, <2>5
<1>2. GroupInv /\ [Next]_vars =>
        [\A t \in CleanupTimes : CleanupExpiredData(t) =>
           \A g \in Groups, u \in Users, s \in t..(MaxCleanupTime + Second) :
             IsMuted(mute[g][u], s) = IsMuted(mute'[g][u], s)]_vars
  BY <1>1
<1> QED
  BY <1>2, Inductive, PTL DEF Spec, CleanupSparesMutes

=============================================================================

------------------------------ MODULE Friends ------------------------------
(***************************************************************************)
(* The table friend_requests and the calls that change it.  There is no    *)
(* table of friends: two users are friends while an accepted request       *)
(* between them, in either direction, is stored.  All calls run under the  *)
(* API mutex of JniBridge, so each is one step; a step stands for a call   *)
(* whose session is valid and whose signature verifies.                    *)
(***************************************************************************)
EXTENDS Integers, FiniteSets

CONSTANTS
  Users,
  RequestTtl,   \* 30 days
  MaxTime,      \* bound of the model: clocks, those of the callers included
  MaxRequests   \* bound of the model: requests ever stored

ASSUME FriendsAssumption == {RequestTtl, MaxTime, MaxRequests} \subseteq Nat

VARIABLES
  requests,     \* friend_requests, a set of rows
  asked,        \* ids handed out; they are random and not used again
  befriended,   \* history: pairs that have once become friends
  ended         \* history: pairs whose friendship was deleted and not renewed

friendVars == <<requests, asked, befriended, ended>>

Times == 0..MaxTime
Request == [id : 1..MaxRequests, from : Users, to : Users, created : Times,
            status : {"pending", "accepted", "rejected"}]
Pairs == {{u, v} : u, v \in Users}

FriendsInit ==
  /\ requests = {}
  /\ asked = 0
  /\ befriended = {}
  /\ ended = {}

-----------------------------------------------------------------------------
(* The queries.                                                            *)

\* Mutant: the columns are swapped.
PendingSwapped(u, v) ==
  {r \in requests : r.from = v /\ r.to = u /\ r.status = "pending"}

\* FindPendingFriendRequestFromTo
PendingFromTo(u, v) ==
  {r \in requests : r.from = u /\ r.to = v /\ r.status = "pending"}

\* Mutant: only the edge the caller asked for is deleted.
EdgesOneWay(u, v) ==
  {r \in requests : r.status = "accepted" /\ r.from = u /\ r.to = v}

\* DeleteAcceptedFriendshipEdgesBetween: the rows it deletes.
EdgesBetween(u, v) ==
  {r \in requests : r.status = "accepted" /\ <<r.from, r.to>> \in {<<u, v>>, <<v, u>>}}

\* Mutant: a pending request counts as a friendship.
FriendsPending(u) ==
  {v \in Users : \E r \in requests :
     r.status # "rejected" /\ <<r.from, r.to>> \in {<<u, v>>, <<v, u>>}}

\* ListAcceptedFriendPeerUserIds
FriendsOf(u) ==
  {v \in Users : \E r \in requests :
     r.status = "accepted" /\ <<r.from, r.to>> \in {<<u, v>>, <<v, u>>}}

\* DeleteExpiredPendingFriendRequests: the rows it leaves.
Unexpired(t) ==
  {r \in requests : ~(r.status = "pending" /\ t - RequestTtl > r.created)}

-----------------------------------------------------------------------------
(* The calls.                                                              *)

\* A lookup that fails counts as "no pending request": a second one is stored.
SendFriendRequest(u, v, t, lookupFails) ==
  /\ u # v
  /\ asked < MaxRequests
  /\ PendingFromTo(u, v) = {} \/ lookupFails
  /\ asked' = asked + 1
  /\ requests' = requests \cup
       {[id |-> asked + 1, from |-> u, to |-> v, created |-> t, status |-> "pending"]}
  /\ UNCHANGED <<befriended, ended>>

\* The responder is the addressee; the row must still be pending.
RespondFriendRequest(r, accept) ==
  /\ r \in requests
  /\ r.status = "pending"
  /\ requests' = (requests \ {r}) \cup
       {[r EXCEPT !.status = IF accept THEN "accepted" ELSE "rejected"]}
  /\ befriended' = IF accept THEN befriended \cup {{r.from, r.to}} ELSE befriended
  /\ ended' = IF accept THEN ended \ {{r.from, r.to}} ELSE ended
  /\ UNCHANGED asked

\* Refused when there is no edge.  Pending requests stay, in both directions.
DeleteFriend(u, v) ==
  /\ u # v
  /\ EdgesBetween(u, v) # {}
  /\ requests' = requests \ EdgesBetween(u, v)
  /\ ended' = ended \cup {{u, v}}
  /\ UNCHANGED <<asked, befriended>>

DeleteExpiredRequests(t) ==
  /\ requests' = Unexpired(t)
  /\ UNCHANGED <<asked, befriended, ended>>

-----------------------------------------------------------------------------
(* Properties.                                                             *)

FriendsTypeOK ==
  /\ requests \subseteq Request
  /\ asked \in 0..MaxRequests
  /\ befriended \subseteq Pairs
  /\ ended \subseteq Pairs
  /\ \A r, s \in requests : r.id = s.id => r = s

\* A friendship needs both: every accepted edge, whatever was deleted, expired
\* or sent again around it, joins two users one of whom accepted a request of
\* the other (FriendManager::RespondFriendRequest).
FriendsConsented ==
  \A r \in requests : r.status = "accepted" => {r.from, r.to} \in befriended

\* After a successful DeleteFriend neither sees the other among the friends
\* until a request is accepted again, although requests may have been accepted
\* in both directions.
EndedStaysEnded ==
  \A u \in Users : \A v \in FriendsOf(u) : {u, v} \notin ended
=============================================================================

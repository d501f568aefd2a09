-------------------------------- MODULE Relay --------------------------------
(***************************************************************************)
(* What the gateway promises about the IM frames it accepts, whatever its  *)
(* connections do: a frame is carried by a handler, waits in the bounded   *)
(* FIFO mailbox of its addressee, is delivered, or is dropped; it is       *)
(* delivered at most once, to its addressee, and nothing is carried        *)
(* forever.  Gateway implements this specification.                        *)
(***************************************************************************)
EXTENDS Naturals, Sequences

CONSTANTS
  Users, Msgs,
  To,          \* [Msgs -> Users]
  Bound        \* capacity of a mailbox

VARIABLES
  carried,     \* frames in the hands of a handler or an event loop
  waiting,     \* waiting[u]: the mailbox of an absent user
  delivered,   \* frames written to a connection of their addressee
  dropped      \* frames evicted from a mailbox or lost with a connection

rvars == <<carried, waiting, delivered, dropped>>

Parked == UNION {{waiting[u][i] : i \in DOMAIN waiting[u]} : u \in Users}

Init ==
  /\ carried = {}
  /\ waiting = [u \in Users |-> <<>>]
  /\ delivered = {}
  /\ dropped = {}

Accept(m) ==
  /\ m \notin carried \cup Parked \cup delivered \cup dropped
  /\ carried' = carried \cup {m}
  /\ UNCHANGED <<waiting, delivered, dropped>>

Deliver(m) ==
  /\ m \in carried
  /\ carried' = carried \ {m}
  /\ delivered' = delivered \cup {m}
  /\ UNCHANGED <<waiting, dropped>>

Drop(m) ==
  /\ m \in carried
  /\ carried' = carried \ {m}
  /\ dropped' = dropped \cup {m}
  /\ UNCHANGED <<waiting, delivered>>

\* A full mailbox gives up its oldest frame.
Park(m) ==
  /\ m \in carried
  /\ carried' = carried \ {m}
  /\ IF Len(waiting[To[m]]) < Bound
     THEN /\ waiting' = [waiting EXCEPT ![To[m]] = Append(@, m)]
          /\ UNCHANGED dropped
     ELSE /\ waiting' = [waiting EXCEPT ![To[m]] = Append(Tail(@), m)]
          /\ dropped' = dropped \cup {Head(waiting[To[m]])}
  /\ UNCHANGED delivered

\* A connection of u takes over the whole mailbox.
Collect(u) ==
  /\ carried' = carried \cup {waiting[u][i] : i \in DOMAIN waiting[u]}
  /\ waiting' = [waiting EXCEPT ![u] = <<>>]
  /\ UNCHANGED <<delivered, dropped>>

Next ==
  \/ \E m \in Msgs : Accept(m) \/ Deliver(m) \/ Drop(m) \/ Park(m)
  \/ \E u \in Users : Collect(u)

\* A carried frame is delivered, dropped or put in a mailbox in the end.
Settles == \A m \in Msgs : (m \in carried) ~> (m \notin carried)

\* The safety part of the promise.
SafeSpec == Init /\ [][Next]_rvars

Spec == SafeSpec /\ Settles

=============================================================================

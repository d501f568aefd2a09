------------------------------- MODULE Chain -------------------------------
(***************************************************************************)
(* The list of messages MM2 keeps for an IM session, oldest first, and     *)
(* the two ways it is read.  A message is a record with an id.             *)
(***************************************************************************)
EXTENDS Integers, Sequences

Ids(c) == {c[i].id : i \in DOMAIN c}

\* ImRamListIdsLastN
LastN(c, n) == SubSeq(c, (IF Len(c) > n THEN Len(c) - n ELSE 0) + 1, Len(c))

\* The place of an id that is in the list.
At(c, id) == CHOOSE i \in DOMAIN c : c[i].id = id

\* ImRamListIdsAfterMessageId: nothing after an id that is not in the list.
AfterFrom(c, id, n) ==
  IF id \notin Ids(c) THEN <<>>
  ELSE LET at == At(c, id)
       IN SubSeq(c, at, IF at + n - 1 > Len(c) THEN Len(c) ELSE at + n - 1)
After(c, id, n) ==
  IF id \notin Ids(c) THEN <<>>
  ELSE LET at == At(c, id)
       IN SubSeq(c, at + 1, IF at + n > Len(c) THEN Len(c) ELSE at + n)

\* ImRamEraseUnlocked
Without(c, id) ==
  IF id \notin Ids(c) THEN c
  ELSE LET at == At(c, id)
       IN SubSeq(c, 1, at - 1) \o SubSeq(c, at + 1, Len(c))

=============================================================================

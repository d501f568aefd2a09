-------------------------- MODULE BlockStoreProofs --------------------------
(***************************************************************************)
(* Proofs about BlockStore, for any files, contents, containers and        *)
(* capacity.  The invariant says what each stage of a call relies on: the  *)
(* slot it has taken is below the recorded end and no row points to it,    *)
(* and no promise has been made about the key it works on.                 *)
(***************************************************************************)
EXTENDS BlockStore, TLAPS

PutStages == {"zeroOld", "append", "create", "header", "blockRow",
              "revertZero", "revertRow"}
EraseStages == {"eraseZero", "eraseRow"}

\* The header in memory runs ahead of the disk only in a container that failed.
HeadersInStep ==
  up => \A z \in Zdbs : used[z] <= mem[z] /\ (z \notin broken => mem[z] = used[z])

\* A call runs in a process, and works on a key.
Calls ==
  /\ stage # "idle" => up
  /\ stage \in PutStages => cur \in Keys /\ val \in Data /\ ~must[cur]
  /\ stage \in EraseStages => cur \in Keys /\ ~must[cur] /\ row[cur] # None
  /\ stage = "zeroOld" => row[cur] # None
  /\ stage \in PutStages => val \in may[cur]

\* No row points to the slot a put has taken.
SlotTaken ==
  /\ stage \in {"header", "blockRow", "revertZero", "revertRow"} =>
       /\ loc \in Zdbs \X Slots
       /\ \A k \in Keys : row[k] # None => row[k].at # loc
  /\ stage = "header" =>
       loc[1] \notin broken /\ loc[2] = mem[loc[1]] /\ Content(loc) = val
  /\ stage = "blockRow" => loc[2] < used[loc[1]] /\ Content(loc) = val
  /\ stage = "create" => loc \in Zdbs \X Slots

IInv ==
  /\ TypeOK
  /\ HeadersInStep
  /\ Calls
  /\ SlotTaken
  /\ RowsDisjoint
  /\ StoredReadable
  /\ ReadsOwnData

-----------------------------------------------------------------------------
(* What the operators on slots do.                                         *)

LEMMA SlotOf ==
  ASSUME TypeOK, NEW k \in Keys, row[k] # None
  PROVE  /\ row[k] \in Rows
         /\ row[k].at \in Zdbs \X Slots
         /\ row[k].at[1] \in Zdbs /\ row[k].at[2] \in Slots
         /\ row[k].sha \in Data /\ row[k].sha # Junk
<1>1. row[k] \in Rows
  BY DEF TypeOK
<1> QED
  BY <1>1, NamesDistinct DEF Rows

\* Put changes one slot.
LEMMA PutSlot ==
  ASSUME TypeOK, NEW at \in Zdbs \X Slots, NEW c \in Data \cup {Junk}, Put(at, c)
  PROVE  /\ cell' \in [Zdbs -> [Slots -> Data \cup {Junk}]]
         /\ cell'[at[1]][at[2]] = c
         /\ \A b \in Zdbs \X Slots :
              b # at => cell'[b[1]][b[2]] = cell[b[1]][b[2]]
<1> DEFINE z == at[1]
           i == at[2]
           slots == [cell[z] EXCEPT ![i] = c]
<1>1. z \in Zdbs /\ i \in Slots /\ at = <<z, i>>
  OBVIOUS
<1>2. cell \in [Zdbs -> [Slots -> Data \cup {Junk}]]
  BY DEF TypeOK
<1>3. slots \in [Slots -> Data \cup {Junk}]
  BY <1>1, <1>2
<1>4. cell' = [cell EXCEPT ![z] = slots]
  BY DEF Put
<1>5. cell'[z] = slots /\ \A y \in Zdbs : y # z => cell'[y] = cell[y]
  BY <1>1, <1>2, <1>4
<1>6. slots[i] = c /\ \A j \in Slots : j # i => slots[j] = cell[z][j]
  BY <1>1, <1>2
<1>7. cell' \in [Zdbs -> [Slots -> Data \cup {Junk}]]
  BY <1>1, <1>2, <1>3, <1>4
<1> HIDE DEF slots
<1>8. ASSUME NEW b \in Zdbs \X Slots, b # at
      PROVE  cell'[b[1]][b[2]] = cell[b[1]][b[2]]
  <2>1. b[1] # z \/ b[2] # i
    BY <1>1, <1>8
  <2>2. b[1] \in Zdbs /\ b[2] \in Slots
    OBVIOUS
  <2> QED
    BY <1>5, <1>6, <2>1, <2>2
<1> QED
  BY <1>5, <1>6, <1>7, <1>8

\* A write to a slot leaves the readers' properties alone if no promise is
\* made about that slot: no row points to it, or the row's key is not
\* promised and the write is garbage.
LEMMA ReadersKept ==
  ASSUME TypeOK, StoredReadable, ReadsOwnData,
         NEW at \in Zdbs \X Slots, NEW c \in Data \cup {Junk},
         UNCHANGED cell \/ Put(at, c),
         UNCHANGED <<row, may, must>>,
         \A k \in Keys : row[k] # None /\ row[k].at = at => ~must[k] /\ c = Junk
  PROVE  /\ cell' \in [Zdbs -> [Slots -> Data \cup {Junk}]]
         /\ StoredReadable' /\ ReadsOwnData'
<1>1. CASE UNCHANGED cell
  BY <1>1 DEF TypeOK, StoredReadable, ReadsOwnData, Intact, Content
<1>2. CASE Put(at, c)
  <2>1. ASSUME NEW k \in Keys, row[k] # None, row[k].at # at
        PROVE  Content(row[k].at)' = Content(row[k].at)
    BY <1>2, <2>1, SlotOf, PutSlot DEF Content
  <2>2. ASSUME NEW k \in Keys, row[k] # None, row[k].at = at
        PROVE  ~must[k] /\ Content(row[k].at)' # row[k].sha
    BY <1>2, <2>2, SlotOf, PutSlot DEF Content
  <2>3. StoredReadable'
    BY <2>1, <2>2 DEF StoredReadable, Intact
  <2>4. ReadsOwnData'
    BY <2>1, <2>2 DEF ReadsOwnData, Intact
  <2> QED
    BY <1>2, <2>3, <2>4, PutSlot
<1> QED
  BY <1>1, <1>2

\* A failed write is a write of garbage, or none.
LEMMA FailedWrite ==
  ASSUME TypeOK, NEW at \in Zdbs \X Slots, WriteFails(at)
  PROVE  /\ UNCHANGED cell \/ Put(at, Junk)
         /\ broken \subseteq broken' /\ broken' \subseteq Zdbs
BY DEF WriteFails, TypeOK

\* Rows stay disjoint as long as no row is added and no header goes back.
LEMMA RowsKept ==
  ASSUME TypeOK, RowsDisjoint, NEW k \in Keys,
         row' = row \/ row' = [row EXCEPT ![k] = None],
         \A z \in Zdbs : used'[z] \in Int /\ used'[z] >= used[z]
  PROVE  RowsDisjoint'
<1>1. \A j \in Keys : row'[j] # None => row[j] # None /\ row'[j] = row[j]
  BY DEF TypeOK
<1>2. ASSUME NEW j \in Keys, row'[j] # None
      PROVE  row'[j].at[2] < used'[row'[j].at[1]]
  <2>1. row[j].at[1] \in Zdbs /\ row[j].at[2] \in Int
    BY <1>1, <1>2, SlotOf, CapAssumption DEF Slots
  <2>2. used[row[j].at[1]] \in Int
    BY <2>1, CapAssumption DEF TypeOK
  <2> QED
    BY <1>1, <1>2, <2>1, <2>2 DEF RowsDisjoint
<1> QED
  BY <1>1, <1>2 DEF RowsDisjoint

\* A call that has returned relies on nothing.
LEMMA Returned ==
  ASSUME TypeOK, Finish
  PROVE  /\ Calls' /\ SlotTaken'
         /\ stage' \in Stages /\ val' \in Data \cup {None}
         /\ loc' \in (Zdbs \X Slots) \cup {None}
         /\ cur' = None
BY DEF Finish, Calls, SlotTaken, PutStages, EraseStages, Stages

-----------------------------------------------------------------------------
(* The invariant holds initially ...                                       *)

LEMMA InitInv == Init => IInv
<1> SUFFICES ASSUME Init PROVE IInv
  OBVIOUS
<1>1. TypeOK
  BY CapAssumption DEF Init, TypeOK, Stages
<1>2. HeadersInStep
  BY CapAssumption DEF Init, HeadersInStep
<1>3. Calls /\ SlotTaken
  BY DEF Init, Calls, SlotTaken, PutStages, EraseStages
<1>4. RowsDisjoint /\ StoredReadable /\ ReadsOwnData
  BY DEF Init, RowsDisjoint, StoredReadable, ReadsOwnData, Intact
<1> QED
  BY <1>1, <1>2, <1>3, <1>4 DEF IInv

(* ... and every step keeps it.  A step that only writes a slot keeps all  *)
(* of it but what its stage says.                                          *)

LEMMA WriteStep ==
  ASSUME IInv, NEW at \in Zdbs \X Slots, NEW c \in Data \cup {Junk},
         UNCHANGED cell \/ Put(at, c),
         broken \subseteq broken', broken' \subseteq Zdbs,
         UNCHANGED <<state, used, row, up, mem, may, must>>,
         \A k \in Keys : row[k] # None /\ row[k].at = at => ~must[k] /\ c = Junk
  PROVE  /\ cell' \in [Zdbs -> [Slots -> Data \cup {Junk}]]
         /\ HeadersInStep' /\ RowsDisjoint' /\ StoredReadable' /\ ReadsOwnData'
<1>1. HeadersInStep'
  BY DEF IInv, HeadersInStep
<1>2. RowsDisjoint'
  BY DEF IInv, RowsDisjoint
<1> QED
  BY <1>1, <1>2, ReadersKept DEF IInv

\* A step that touches neither the disk nor the history.
LEMMA QuietStep ==
  ASSUME IInv, UNCHANGED <<disk, up, mem, may, must>>,
         broken \subseteq broken', broken' \subseteq Zdbs
  PROVE  HeadersInStep' /\ RowsDisjoint' /\ StoredReadable' /\ ReadsOwnData'
BY DEF IInv, disk, HeadersInStep, RowsDisjoint, StoredReadable, ReadsOwnData,
       Intact, Content

LEMMA StartPutInv ==
  ASSUME IInv, NEW k \in Keys, NEW d \in Data, StartPut(k, d)
  PROVE  IInv'
<1>1. TypeOK'
  BY KeyAssumption DEF IInv, TypeOK, StartPut, disk, Goto, Stages, Files
<1>2. HeadersInStep' /\ RowsDisjoint'
  BY DEF IInv, StartPut, disk, HeadersInStep, RowsDisjoint
<1>3. Calls'
  BY DEF IInv, TypeOK, StartPut, disk, Goto, Calls, PutStages, EraseStages
<1>4. SlotTaken'
  BY DEF IInv, StartPut, Goto, SlotTaken
<1>5. StoredReadable' /\ ReadsOwnData'
  BY DEF IInv, TypeOK, StartPut, disk, StoredReadable, ReadsOwnData, Intact, Content
<1> QED
  BY <1>1, <1>2, <1>3, <1>4, <1>5 DEF IInv

\* The old slot is the slot of the key being put alone.
LEMMA OwnSlot ==
  ASSUME IInv, NEW k \in Keys, row[k] # None, ~must[k]
  PROVE  /\ row[k].at \in Zdbs \X Slots
         /\ \A j \in Keys : row[j] # None /\ row[j].at = row[k].at => ~must[j]
BY SlotOf DEF IInv, RowsDisjoint

LEMMA ZeroOldInv ==
  ASSUME IInv, ZeroOld
  PROVE  IInv'
<1> DEFINE at == row[cur].at
<1>1. cur \in Keys /\ row[cur] # None /\ ~must[cur] /\ val \in Data /\ val \in may[cur]
      /\ up
  BY DEF IInv, Calls, ZeroOld, PutStages
<1>2. /\ at \in Zdbs \X Slots
      /\ \A j \in Keys : row[j] # None /\ row[j].at = at => ~must[j]
  BY <1>1, OwnSlot
<1>3. UNCHANGED <<state, used, row, up, mem, may, must>>
  BY DEF ZeroOld, history
<1>4. /\ UNCHANGED cell \/ Put(at, Junk)
      /\ broken \subseteq broken' /\ broken' \subseteq Zdbs
  BY <1>2, FailedWrite DEF ZeroOld, ZeroSlot, IInv, TypeOK
<1> HIDE DEF at
<1>5. /\ cell' \in [Zdbs -> [Slots -> Data \cup {Junk}]]
      /\ HeadersInStep' /\ RowsDisjoint' /\ StoredReadable' /\ ReadsOwnData'
  BY <1>2, <1>3, <1>4, WriteStep
<1>6. \/ stage' = "append" /\ UNCHANGED <<cur, val, loc>>
      \/ Finish
  BY DEF ZeroOld, Goto
<1>7. Calls' /\ SlotTaken'
  BY <1>1, <1>3, <1>6, Returned DEF IInv, Calls, SlotTaken, PutStages, EraseStages
<1>8. TypeOK'
  BY <1>3, <1>4, <1>5, <1>6, Returned DEF IInv, TypeOK, Stages
<1> QED
  BY <1>5, <1>7, <1>8 DEF IInv

LEMMA AppendInv ==
  ASSUME IInv, Append
  PROVE  IInv'
<1>1. PICK z \in Zdbs :
        /\ HasRoom(z)
        /\ \/ /\ z \notin broken
              /\ Put(<<z, mem[z]>>, val)
              /\ loc' = <<z, mem[z]>>
              /\ Goto("header")
              /\ UNCHANGED <<broken, cur, val>>
           \/ WriteFails(<<z, mem[z]>>) /\ Finish
  BY DEF Append
<1> DEFINE at == <<z, mem[z]>>
<1>2. cur \in Keys /\ ~must[cur] /\ val \in Data /\ val \in may[cur] /\ up
  BY DEF IInv, Calls, Append, PutStages
<1>3. mem[z] \in 0..Cap /\ used[z] \in 0..Cap /\ used[z] <= mem[z] /\ mem[z] < Cap
  BY <1>1, <1>2 DEF IInv, TypeOK, HeadersInStep, HasRoom
<1>4. at \in Zdbs \X Slots
  BY <1>3, CapAssumption DEF Slots
<1>5. \A k \in Keys : row[k] # None => row[k].at # at
  BY <1>3 DEF IInv, RowsDisjoint
<1>6. UNCHANGED <<state, used, row, up, mem, may, must>>
  BY DEF Append, history
<1>7. CASE /\ z \notin broken
           /\ Put(at, val)
           /\ loc' = at
           /\ Goto("header")
           /\ UNCHANGED <<broken, cur, val>>
  <2> HIDE DEF at
  <2>1. /\ cell' \in [Zdbs -> [Slots -> Data \cup {Junk}]]
        /\ HeadersInStep' /\ RowsDisjoint' /\ StoredReadable' /\ ReadsOwnData'
    BY <1>2, <1>4, <1>5, <1>6, <1>7, WriteStep DEF IInv, TypeOK
  <2>2. cell'[at[1]][at[2]] = val
    BY <1>2, <1>4, <1>7, PutSlot DEF IInv
  <2>3. TypeOK'
    BY <1>4, <1>6, <1>7, <2>1 DEF IInv, TypeOK, Goto, Stages
  <2>4. Calls'
    BY <1>2, <1>6, <1>7 DEF Calls, Goto, PutStages, EraseStages
  <2>5. at[1] \notin broken' /\ at[2] = mem'[at[1]]
    BY <1>6, <1>7 DEF at
  <2>6. loc' \in Zdbs \X Slots /\ Content(loc)' = val'
    BY <1>4, <1>7, <2>2 DEF Content
  <2>7. SlotTaken'
    BY <1>5, <1>6, <1>7, <2>5, <2>6 DEF SlotTaken, Goto
  <2> QED
    BY <2>1, <2>3, <2>4, <2>7 DEF IInv
<1>8. CASE WriteFails(at) /\ Finish
  <2> HIDE DEF at
  <2>1. /\ UNCHANGED cell \/ Put(at, Junk)
        /\ broken \subseteq broken' /\ broken' \subseteq Zdbs
    BY <1>4, <1>8, FailedWrite DEF IInv
  <2>2. /\ cell' \in [Zdbs -> [Slots -> Data \cup {Junk}]]
        /\ HeadersInStep' /\ RowsDisjoint' /\ StoredReadable' /\ ReadsOwnData'
    BY <1>4, <1>5, <1>6, <2>1, WriteStep
  <2>3. TypeOK' /\ Calls' /\ SlotTaken'
    BY <1>6, <1>8, <2>1, <2>2, Returned DEF IInv, TypeOK
  <2> QED
    BY <2>2, <2>3 DEF IInv
<1> QED
  BY <1>1, <1>7, <1>8

\* The slot taken is the last of its container, so the new end fits.
LEMMA HeaderInv ==
  ASSUME IInv, Header
  PROVE  IInv'
<1> DEFINE z == loc[1]
<1>1. /\ cur \in Keys /\ ~must[cur] /\ val \in Data /\ val \in may[cur] /\ up
      /\ loc \in Zdbs \X Slots /\ z \notin broken /\ loc[2] = mem[z]
      /\ Content(loc) = val
      /\ \A k \in Keys : row[k] # None => row[k].at # loc
  BY DEF IInv, Calls, SlotTaken, Header, PutStages
<1>2. z \in Zdbs /\ mem[z] \in 0..(Cap - 1) /\ used[z] = mem[z]
  BY <1>1 DEF IInv, HeadersInStep, Slots
<1>3. mem[z] + 1 \in 0..Cap
  BY <1>2, CapAssumption
<1>4. /\ UNCHANGED <<state, cell, row, up, may, must>>
      /\ mem' = [mem EXCEPT ![z] = mem[z] + 1]
      /\ \/ /\ used' = [used EXCEPT ![z] = mem[z] + 1]
            /\ stage' = "blockRow"
            /\ UNCHANGED <<broken, cur, val, loc>>
         \/ broken' = broken \cup {z} /\ UNCHANGED used /\ Finish
  BY DEF Header, HeaderWritten, history, Goto
<1> HIDE DEF z
<1>5. /\ mem' \in [Zdbs -> 0..Cap] /\ used' \in [Zdbs -> 0..Cap]
      /\ broken' \subseteq Zdbs
  BY <1>2, <1>3, <1>4 DEF IInv, TypeOK
<1>6. \A y \in Zdbs : used'[y] \in Int /\ used'[y] >= used[y]
  <2> TAKE y \in Zdbs
  <2>1. used[y] \in Int /\ used'[y] \in Int
    BY <1>5, CapAssumption DEF IInv, TypeOK
  <2> QED
    BY <1>2, <1>4, <2>1 DEF IInv, TypeOK
<1>7. RowsDisjoint'
  BY <1>1, <1>4, <1>6, RowsKept DEF IInv
<1>8. HeadersInStep'
  <2> SUFFICES ASSUME NEW y \in Zdbs
               PROVE  used'[y] <= mem'[y] /\ (y \notin broken' => mem'[y] = used'[y])
    BY DEF HeadersInStep
  <2>1. used[y] <= mem[y] /\ (y \notin broken => mem[y] = used[y])
    BY <1>1 DEF IInv, HeadersInStep
  <2>2. mem[z] \in Int
    BY <1>2, CapAssumption
  <2> QED
    BY <1>2, <1>4, <2>1, <2>2 DEF IInv, TypeOK
<1>9. StoredReadable' /\ ReadsOwnData'
  BY <1>4 DEF IInv, StoredReadable, ReadsOwnData, Intact, Content
<1>10. CASE /\ used' = [used EXCEPT ![z] = mem[z] + 1]
            /\ stage' = "blockRow"
            /\ UNCHANGED <<broken, cur, val, loc>>
  <2>1. TypeOK'
    BY <1>4, <1>5, <1>10 DEF IInv, TypeOK, Stages
  <2>2. Calls'
    BY <1>1, <1>4, <1>10 DEF Calls, PutStages, EraseStages
  <2>3. loc[2] < used'[z] /\ mem[z] \in Int
    BY <1>1, <1>2, <1>10, CapAssumption DEF IInv, TypeOK
  <2>4. SlotTaken'
    BY <1>1, <1>4, <1>10, <2>3 DEF SlotTaken, Content, z
  <2> QED
    BY <1>7, <1>8, <1>9, <2>1, <2>2, <2>4 DEF IInv
<1>11. CASE UNCHANGED used /\ Finish
  <2>1. TypeOK' /\ Calls' /\ SlotTaken'
    BY <1>4, <1>5, <1>11, Returned DEF IInv, TypeOK
  <2> QED
    BY <1>7, <1>8, <1>9, <2>1 DEF IInv
<1> QED
  BY <1>4, <1>10, <1>11

LEMMA CreateZdbInv ==
  ASSUME IInv, CreateZdb
  PROVE  IInv'
<1>1. cur \in Keys /\ ~must[cur] /\ val \in Data /\ val \in may[cur] /\ up
  BY DEF IInv, Calls, CreateZdb, PutStages
<1>2. PICK z \in Zdbs : /\ state' = [state EXCEPT ![z] = "partial"]
                        /\ loc' = <<z, 0>>
  BY DEF CreateZdb
<1>3. /\ loc' \in Zdbs \X Slots /\ stage' = "create"
      /\ UNCHANGED <<used, cell, row, up, mem, broken, cur, val, may, must>>
  BY <1>2, CapAssumption DEF CreateZdb, Goto, Slots, history
<1>4. TypeOK'
  BY <1>2, <1>3 DEF IInv, TypeOK, Stages
<1>5. Calls' /\ SlotTaken'
  BY <1>1, <1>3 DEF Calls, SlotTaken, PutStages, EraseStages
<1>6. HeadersInStep' /\ RowsDisjoint' /\ StoredReadable' /\ ReadsOwnData'
  BY <1>3 DEF IInv, HeadersInStep, RowsDisjoint, StoredReadable, ReadsOwnData,
              Intact, Content
<1> QED
  BY <1>4, <1>5, <1>6 DEF IInv

LEMMA FinishCreateInv ==
  ASSUME IInv, FinishCreate
  PROVE  IInv'
<1>1. /\ cur \in Keys /\ ~must[cur] /\ val \in Data /\ val \in may[cur] /\ up
      /\ loc \in Zdbs \X Slots
  BY DEF IInv, Calls, SlotTaken, FinishCreate, PutStages
<1>2. UNCHANGED <<used, cell, row, up, mem, broken, may, must>>
  BY DEF FinishCreate, history
<1>3. state' \in [Zdbs -> {"absent", "partial", "ok"}]
  BY <1>1 DEF FinishCreate, IInv, TypeOK
<1>4. \/ stage' = "append" /\ loc' = None /\ UNCHANGED <<cur, val>>
      \/ Finish
  BY DEF FinishCreate, Goto
<1>5. TypeOK'
  BY <1>2, <1>3, <1>4, Returned DEF IInv, TypeOK, Stages
<1>6. Calls' /\ SlotTaken'
  BY <1>1, <1>2, <1>4, Returned DEF IInv, Calls, SlotTaken, PutStages, EraseStages
<1>7. HeadersInStep' /\ RowsDisjoint' /\ StoredReadable' /\ ReadsOwnData'
  BY <1>2 DEF IInv, HeadersInStep, RowsDisjoint, StoredReadable, ReadsOwnData,
              Intact, Content
<1> QED
  BY <1>5, <1>6, <1>7 DEF IInv

LEMMA NoContainerInv ==
  ASSUME IInv, NoContainer
  PROVE  IInv'
<1>1. UNCHANGED <<disk, up, mem, broken, may, must>> /\ Finish
  BY DEF NoContainer, history
<1>2. TypeOK' /\ Calls' /\ SlotTaken'
  BY <1>1, Returned DEF IInv, TypeOK, disk
<1> QED
  BY <1>1, <1>2, QuietStep DEF IInv, TypeOK

\* The row now names the slot just written, which no other row names.
LEMMA BlockRowInv ==
  ASSUME IInv, BlockRow
  PROVE  IInv'
<1>1. /\ cur \in Keys /\ ~must[cur] /\ val \in Data /\ val \in may[cur] /\ up
      /\ loc \in Zdbs \X Slots /\ loc[2] < used[loc[1]] /\ Content(loc) = val
      /\ \A k \in Keys : row[k] # None => row[k].at # loc
  BY DEF IInv, Calls, SlotTaken, BlockRow, PutStages
<1>2. UNCHANGED <<state, used, cell, up, mem, broken>>
  BY DEF BlockRow
<1>3. HeadersInStep'
  BY <1>2 DEF IInv, HeadersInStep
<1>4. CASE /\ row' = [row EXCEPT ![cur] = [at |-> loc, sha |-> val]]
           /\ may' = [may EXCEPT ![cur] = {val}]
           /\ must' = [must EXCEPT ![cur] = TRUE]
           /\ Finish
  <2> DEFINE new == [at |-> loc, sha |-> val]
  <2>1. new \in Rows /\ new # None /\ new.at = loc /\ new.sha = val
    BY <1>1, NoRow DEF Rows
  <2> HIDE DEF new
  <2>2. /\ row'[cur] = new /\ may'[cur] = {val} /\ must'[cur]
        /\ \A k \in Keys : k # cur =>
             row'[k] = row[k] /\ may'[k] = may[k] /\ must'[k] = must[k]
    BY <1>1, <1>4 DEF IInv, TypeOK, new
  <2>3. row' \in [Keys -> Rows \cup {None}]
    BY <1>1, <1>4, <2>1 DEF IInv, TypeOK, new
  <2>4. may' \in [Keys -> SUBSET Data] /\ must' \in [Keys -> BOOLEAN]
    BY <1>1, <1>4 DEF IInv, TypeOK
  <2>5. TypeOK' /\ Calls' /\ SlotTaken'
    BY <1>2, <1>4, <2>3, <2>4, Returned DEF IInv, TypeOK
  <2>6. RowsDisjoint'
    BY <1>1, <1>2, <2>1, <2>2 DEF IInv, RowsDisjoint
  <2>7. StoredReadable' /\ ReadsOwnData'
    BY <1>1, <1>2, <2>1, <2>2 DEF IInv, StoredReadable, ReadsOwnData, Intact, Content
  <2> QED
    BY <1>3, <2>5, <2>6, <2>7 DEF IInv
<1>5. CASE /\ stage' = "revertZero"
           /\ UNCHANGED <<row, cur, val, loc, may, must>>
  <2>1. TypeOK'
    BY <1>2, <1>5 DEF IInv, TypeOK, Stages
  <2>2. Calls' /\ SlotTaken'
    BY <1>1, <1>2, <1>5 DEF Calls, SlotTaken, PutStages, EraseStages
  <2>3. RowsDisjoint' /\ StoredReadable' /\ ReadsOwnData'
    BY <1>2, <1>5 DEF IInv, RowsDisjoint, StoredReadable, ReadsOwnData, Intact, Content
  <2> QED
    BY <1>3, <2>1, <2>2, <2>3 DEF IInv
<1> QED
  BY <1>4, <1>5 DEF BlockRow, Goto, history

LEMMA RevertZeroInv ==
  ASSUME IInv, RevertZero
  PROVE  IInv'
<1>1. /\ cur \in Keys /\ ~must[cur] /\ val \in Data /\ val \in may[cur] /\ up
      /\ loc \in Zdbs \X Slots
      /\ \A k \in Keys : row[k] # None => row[k].at # loc
  BY DEF IInv, Calls, SlotTaken, RevertZero, PutStages
<1>2. UNCHANGED <<state, used, row, up, mem, may, must>>
  BY DEF RevertZero, history
<1>3. /\ UNCHANGED cell \/ Put(loc, Junk)
      /\ broken \subseteq broken' /\ broken' \subseteq Zdbs
  BY <1>1, FailedWrite DEF RevertZero, ZeroSlot, IInv, TypeOK
<1>4. /\ cell' \in [Zdbs -> [Slots -> Data \cup {Junk}]]
      /\ HeadersInStep' /\ RowsDisjoint' /\ StoredReadable' /\ ReadsOwnData'
  BY <1>1, <1>2, <1>3, WriteStep
<1>5. \/ stage' = "revertRow" /\ UNCHANGED <<cur, val, loc>>
      \/ Finish
  BY DEF RevertZero, Goto
<1>6. Calls' /\ SlotTaken'
  BY <1>1, <1>2, <1>5, Returned DEF IInv, Calls, SlotTaken, PutStages, EraseStages
<1>7. TypeOK'
  BY <1>2, <1>3, <1>4, <1>5, Returned DEF IInv, TypeOK, Stages
<1> QED
  BY <1>4, <1>6, <1>7 DEF IInv

\* A row without a promise may be deleted.
LEMMA RowGone ==
  ASSUME IInv, NEW k \in Keys, ~must[k],
         row' = row \/ row' = [row EXCEPT ![k] = None],
         may' = may \/ (row'[k] = None /\ may' = [may EXCEPT ![k] = {}]),
         UNCHANGED <<state, used, cell, up, mem, broken, must>>
  PROVE  /\ row' \in [Keys -> Rows \cup {None}]
         /\ may' \in [Keys -> SUBSET Data]
         /\ HeadersInStep' /\ RowsDisjoint' /\ StoredReadable' /\ ReadsOwnData'
<1>1. row' \in [Keys -> Rows \cup {None}] /\ may' \in [Keys -> SUBSET Data]
  BY DEF IInv, TypeOK
<1>2. /\ \A j \in Keys : j # k => row'[j] = row[j] /\ may'[j] = may[j]
      /\ row'[k] # None => row'[k] = row[k] /\ may'[k] = may[k]
  BY DEF IInv, TypeOK
<1>3. HeadersInStep'
  BY DEF IInv, HeadersInStep
<1>4. \A z \in Zdbs : used'[z] \in Int /\ used'[z] >= used[z]
  BY CapAssumption DEF IInv, TypeOK
<1>5. RowsDisjoint'
  BY <1>4, RowsKept DEF IInv
<1>6. StoredReadable' /\ ReadsOwnData'
  BY <1>2 DEF IInv, StoredReadable, ReadsOwnData, Intact, Content
<1> QED
  BY <1>1, <1>3, <1>5, <1>6

LEMMA RevertRowInv ==
  ASSUME IInv, RevertRow
  PROVE  IInv'
<1>1. cur \in Keys /\ ~must[cur]
  BY DEF IInv, Calls, RevertRow, PutStages
<1>2. /\ row' = row \/ row' = [row EXCEPT ![cur] = None]
      /\ Finish
      /\ UNCHANGED <<state, used, cell, up, mem, broken, may, must>>
  BY DEF RevertRow, history
<1>3. /\ row' \in [Keys -> Rows \cup {None}]
      /\ HeadersInStep' /\ RowsDisjoint' /\ StoredReadable' /\ ReadsOwnData'
  BY <1>1, <1>2, RowGone
<1>4. TypeOK' /\ Calls' /\ SlotTaken'
  BY <1>2, <1>3, Returned DEF IInv, TypeOK
<1> QED
  BY <1>3, <1>4 DEF IInv

LEMMA StartCancelInv ==
  ASSUME IInv, NEW f \in Files, StartCancel(f)
  PROVE  IInv'
<1>1. /\ UNCHANGED <<disk, up, mem, broken, val, loc, may, must>>
      /\ stage' = "eraseNext" /\ cur' = <<f, 0>> /\ up
  BY DEF StartCancel, Goto
<1>2. TypeOK'
  BY <1>1 DEF IInv, TypeOK, disk, Stages
<1>3. Calls' /\ SlotTaken'
  BY <1>1 DEF Calls, SlotTaken, PutStages, EraseStages
<1> QED
  BY <1>1, <1>2, <1>3, QuietStep DEF IInv, TypeOK

LEMMA EraseNextInv ==
  ASSUME IInv, EraseNext
  PROVE  IInv'
<1>1. up
  BY DEF IInv, Calls, EraseNext
<1>2. UNCHANGED <<disk, up, mem, broken, may>>
  BY DEF EraseNext
<1>3. CASE /\ cur \in Keys /\ row[cur] # None
           /\ stage' = "eraseZero"
           /\ must' = [must EXCEPT ![cur] = FALSE]
           /\ UNCHANGED <<cur, val, loc>>
  <2>1. ~must'[cur] /\ \A k \in Keys : must'[k] => must[k]
    BY <1>3 DEF IInv, TypeOK
  <2>2. TypeOK'
    BY <1>2, <1>3 DEF IInv, TypeOK, disk, Stages
  <2>3. Calls' /\ SlotTaken'
    BY <1>1, <1>2, <1>3, <2>1 DEF disk, Calls, SlotTaken, PutStages, EraseStages
  <2>4. HeadersInStep' /\ RowsDisjoint' /\ StoredReadable' /\ ReadsOwnData'
    BY <1>2, <2>1 DEF IInv, disk, HeadersInStep, RowsDisjoint, StoredReadable,
                      ReadsOwnData, Intact, Content
  <2> QED
    BY <2>2, <2>3, <2>4 DEF IInv
<1>4. CASE Finish /\ UNCHANGED must
  <2>1. TypeOK' /\ Calls' /\ SlotTaken'
    BY <1>2, <1>4, Returned DEF IInv, TypeOK, disk
  <2> QED
    BY <1>2, <1>4, <2>1, QuietStep DEF IInv, TypeOK
<1> QED
  BY <1>3, <1>4 DEF EraseNext, Goto

LEMMA EraseZeroInv ==
  ASSUME IInv, EraseZero
  PROVE  IInv'
<1> DEFINE at == row[cur].at
<1>1. cur \in Keys /\ row[cur] # None /\ ~must[cur] /\ up
  BY DEF IInv, Calls, EraseZero, EraseStages
<1>2. /\ at \in Zdbs \X Slots
      /\ \A j \in Keys : row[j] # None /\ row[j].at = at => ~must[j]
  BY <1>1, OwnSlot
<1>3. UNCHANGED <<state, used, row, up, mem, may, must>>
  BY DEF EraseZero, history
<1>4. /\ UNCHANGED cell \/ Put(at, Junk)
      /\ broken \subseteq broken' /\ broken' \subseteq Zdbs
  BY <1>2, FailedWrite DEF EraseZero, ZeroSlot, IInv, TypeOK
<1> HIDE DEF at
<1>5. /\ cell' \in [Zdbs -> [Slots -> Data \cup {Junk}]]
      /\ HeadersInStep' /\ RowsDisjoint' /\ StoredReadable' /\ ReadsOwnData'
  BY <1>2, <1>3, <1>4, WriteStep
<1>6. \/ stage' = "eraseRow" /\ UNCHANGED <<cur, val, loc>>
      \/ Finish
  BY DEF EraseZero, Goto
<1>7. Calls' /\ SlotTaken'
  BY <1>1, <1>3, <1>6, Returned DEF IInv, Calls, SlotTaken, PutStages, EraseStages
<1>8. TypeOK'
  BY <1>3, <1>4, <1>5, <1>6, Returned DEF IInv, TypeOK, Stages
<1> QED
  BY <1>5, <1>7, <1>8 DEF IInv

LEMMA EraseRowInv ==
  ASSUME IInv, EraseRow
  PROVE  IInv'
<1>1. cur \in Keys /\ ~must[cur] /\ up
  BY DEF IInv, Calls, EraseRow, EraseStages
<1>2. /\ \/ row' = [row EXCEPT ![cur] = None] /\ may' = [may EXCEPT ![cur] = {}]
         \/ UNCHANGED <<row, may>>
      /\ UNCHANGED <<state, used, cell, up, mem, broken, must>>
  BY DEF EraseRow
<1>3. /\ row' \in [Keys -> Rows \cup {None}] /\ may' \in [Keys -> SUBSET Data]
      /\ HeadersInStep' /\ RowsDisjoint' /\ StoredReadable' /\ ReadsOwnData'
  BY <1>1, <1>2, RowGone DEF IInv, TypeOK
<1>4. CASE cur' = <<cur[1], cur[2] + 1>> /\ stage' = "eraseNext" /\ UNCHANGED <<val, loc>>
  <2>1. cur[1] \in Files /\ cur[2] \in Nat
    BY <1>1, KeyAssumption DEF Files
  <2>2. TypeOK'
    BY <1>2, <1>3, <1>4, <2>1 DEF IInv, TypeOK, Stages
  <2>3. Calls' /\ SlotTaken'
    BY <1>1, <1>2, <1>4 DEF Calls, SlotTaken, PutStages, EraseStages
  <2> QED
    BY <1>3, <2>2, <2>3 DEF IInv
<1>5. CASE Finish
  <2>1. TypeOK' /\ Calls' /\ SlotTaken'
    BY <1>2, <1>3, <1>5, Returned DEF IInv, TypeOK
  <2> QED
    BY <1>3, <2>1 DEF IInv
<1> QED
  BY <1>4, <1>5 DEF EraseRow, Goto

LEMMA ReadFailsInv ==
  ASSUME IInv, NEW k \in Keys, ReadFails(k)
  PROVE  IInv'
<1>1. /\ UNCHANGED <<disk, up, mem, stage, cur, val, loc, may, must>>
      /\ stage = "idle" /\ row[k] # None
      /\ broken' = broken \cup {row[k].at[1]}
  BY DEF ReadFails, history
<1>2. broken \subseteq broken' /\ broken' \subseteq Zdbs
  BY <1>1, SlotOf DEF IInv, TypeOK
<1>3. TypeOK'
  BY <1>1, <1>2 DEF IInv, TypeOK, disk
<1>4. Calls' /\ SlotTaken'
  BY <1>1 DEF Calls, SlotTaken, PutStages, EraseStages
<1> QED
  BY <1>1, <1>2, <1>3, <1>4, QuietStep DEF IInv

LEMMA KillInv ==
  ASSUME IInv, Kill
  PROVE  IInv'
<1>1. UNCHANGED <<disk, may, must>> /\ Finish /\ ~up'
  BY DEF Kill, history
<1>2. mem' \in [Zdbs -> 0..Cap] /\ broken' \subseteq Zdbs /\ up' \in BOOLEAN
  <2>1. 0 \in 0..Cap
    BY CapAssumption
  <2>2. mem' = [z \in Zdbs |-> 0] /\ broken' = {} /\ up' = FALSE
    BY DEF Kill
  <2> QED
    BY <2>1, <2>2
<1>3. TypeOK' /\ Calls' /\ SlotTaken'
  BY <1>1, <1>2, Returned DEF IInv, TypeOK, disk
<1>4. HeadersInStep' /\ RowsDisjoint' /\ StoredReadable' /\ ReadsOwnData'
  BY <1>1 DEF IInv, disk, HeadersInStep, RowsDisjoint, StoredReadable,
              ReadsOwnData, Intact, Content
<1> QED
  BY <1>3, <1>4 DEF IInv

\* The headers are read back; what they do not count is not named by a row.
LEMMA InitializeInv ==
  ASSUME IInv, Initialize
  PROVE  IInv'
<1>1. /\ UNCHANGED <<disk, broken, stage, cur, val, loc, may, must>>
      /\ up' = TRUE /\ mem' = used /\ stage = "idle"
  BY DEF Initialize, history, IInv, Calls
<1>2. TypeOK'
  BY <1>1 DEF IInv, TypeOK, disk
<1>3. Calls' /\ SlotTaken'
  BY <1>1 DEF Calls, SlotTaken, PutStages, EraseStages
<1>4. HeadersInStep'
  BY <1>1, CapAssumption DEF IInv, TypeOK, disk, HeadersInStep
<1>5. RowsDisjoint' /\ StoredReadable' /\ ReadsOwnData'
  BY <1>1 DEF IInv, disk, RowsDisjoint, StoredReadable, ReadsOwnData, Intact, Content
<1> QED
  BY <1>2, <1>3, <1>4, <1>5 DEF IInv

LEMMA NextInv == IInv /\ [Next]_vars => IInv'
<1> SUFFICES ASSUME IInv, [Next]_vars PROVE IInv'
  OBVIOUS
<1>1. CASE Next
  BY <1>1, StartPutInv, ZeroOldInv, AppendInv, HeaderInv, CreateZdbInv,
     FinishCreateInv, NoContainerInv, BlockRowInv, RevertZeroInv, RevertRowInv,
     StartCancelInv, EraseNextInv, EraseZeroInv, EraseRowInv, ReadFailsInv,
     KillInv, InitializeInv DEF Next
<1>2. CASE UNCHANGED vars
  <2>1. UNCHANGED <<disk, up, mem, broken, may, must, stage, cur, val, loc>>
    BY <1>2 DEF vars, process, history
  <2>2. TypeOK' /\ Calls' /\ SlotTaken'
    BY <2>1 DEF IInv, TypeOK, disk, Calls, SlotTaken, Content, PutStages, EraseStages
  <2> QED
    BY <2>1, <2>2, QuietStep DEF IInv, TypeOK
<1> QED
  BY <1>1, <1>2

-----------------------------------------------------------------------------
(* What holds of every execution.                                          *)

\* Whatever calls are made and whichever of their steps fail or are cut
\* short by a kill, the state stays one in which every stage of a call may
\* rely on the slot and the row it works on.
THEOREM Inductive == Spec => []IInv
<1> QED
  BY InitInv, NextInv, PTL DEF Spec

\* The state keeps its types: no header ever counts more than Cap slots, and
\* every row names a slot of a container (TypeOK).
THEOREM TypeOKHolds == Spec => []TypeOK
<1>1. IInv => TypeOK
  BY DEF IInv
<1> QED
  BY <1>1, Inductive, PTL

\* Rows never share a slot and never point past the recorded end of their
\* container (RowsDisjoint): WriteData cannot overwrite a recorded block,
\* for any number of files, containers and slots.
THEOREM RowsDisjointHolds == Spec => []RowsDisjoint
<1>1. IInv => RowsDisjoint
  BY DEF IInv
<1> QED
  BY <1>1, Inductive, PTL

\* A block whose StoreFileChunk or PutDataBlockBlob returned true stays
\* readable until a call touches its key, through the failures and kills of
\* any number of other calls (StoredReadable).
THEOREM StoredReadableHolds == Spec => []StoredReadable
<1>1. IInv => StoredReadable
  BY DEF IInv
<1> QED
  BY <1>1, Inductive, PTL

\* GetFileChunk returns nothing but what a put of that very key stored
\* (ReadsOwnData), however slots were zeroed, abandoned and taken again.
THEOREM ReadsOwnDataHolds == Spec => []ReadsOwnData
<1>1. IInv => ReadsOwnData
  BY DEF IInv
<1> QED
  BY <1>1, Inductive, PTL

=============================================================================

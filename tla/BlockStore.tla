----------------------------- MODULE BlockStore -----------------------------
(***************************************************************************)
(* The on-disk block store of MM2: file chunks and key blobs live in       *)
(* append-only .zdb container files (ZdbFile, ZdbManager), and an SQLite   *)
(* table, data_blocks, says where each block is and what its SHA-256 is    *)
(* (SqliteMetadataDb, StorageIntegrityManager).                            *)
(*                                                                         *)
(* MM2 runs one call at a time under m_stateMutex, but a call is a chain   *)
(* of file writes and SQLite statements without a common transaction.      *)
(* Each of them is a step here; it can fail, and the process can be killed *)
(* between any two.  (Kill, not power loss: what was written to the files  *)
(* before the kill stays written.)                                         *)
(*                                                                         *)
(* Every block has the size of one slot, and a container has Cap slots.    *)
(* A container is opened once and its header cached in memory; names of    *)
(* containers are random, so any container with room may be chosen.        *)
(***************************************************************************)
EXTENDS Integers, FiniteSets

CONSTANTS
  Keys,       \* <<file, chunk index>>; a key blob is a file of one chunk
  Data,       \* contents of a block, as told apart by their SHA-256
  Zdbs,       \* names of container files
  Cap,        \* slots of a container (ZDB_FILE_SIZE)
  Junk,       \* zeros, noise or half a block: no recorded SHA-256 matches it
  None

ASSUME CapAssumption == Cap \in Nat \ {0}
ASSUME KeyAssumption == \A k \in Keys : k = <<k[1], k[2]>> /\ k[2] \in Nat
ASSUME NamesDistinct == Junk \notin Data /\ None \notin Data

VARIABLES
  state,   \* state[z]: "absent", "partial" (Create unfinished) or "ok"
  used,    \* used[z]: header.usedSize on disk, in slots
  cell,    \* cell[z][i]: what slot i of container z holds
  row,     \* row[k]: the data_blocks row of k, [at, sha], or None
  up,      \* MM2 is initialised
  mem,     \* mem[z]: header.usedSize in memory
  broken,  \* containers whose fstream has failed: it is never cleared
  stage,   \* what the running call does next, "idle" between calls
  cur,     \* the key the call works on
  val,     \* the content a put stores
  loc,     \* <<z, i>>: the slot AppendRaw took
  may,     \* history: contents a reader of k may be given
  must     \* history: a put of k has returned true, no later call touched k

disk == <<state, used, cell, row>>
process == <<up, mem, broken, stage, cur, val, loc>>
history == <<may, must>>
vars == <<disk, process, history>>

Files == {k[1] : k \in Keys}
Slots == 0..(Cap - 1)
Rows == [at : Zdbs \X Slots, sha : Data]
ASSUME NoRow == None \notin Rows
Stages == {"idle", "zeroOld", "append", "create", "header", "blockRow",
           "revertZero", "revertRow", "eraseNext", "eraseZero", "eraseRow"}

TypeOK ==
  /\ state \in [Zdbs -> {"absent", "partial", "ok"}]
  /\ used \in [Zdbs -> 0..Cap]
  /\ cell \in [Zdbs -> [Slots -> Data \cup {Junk}]]
  /\ row \in [Keys -> Rows \cup {None}]
  /\ up \in BOOLEAN
  /\ mem \in [Zdbs -> 0..Cap]
  /\ broken \subseteq Zdbs
  /\ stage \in Stages
  /\ cur = None \/ (cur[1] \in Files /\ cur[2] \in Nat)
  /\ val \in Data \cup {None}
  /\ loc \in (Zdbs \X Slots) \cup {None}
  /\ may \in [Keys -> SUBSET Data]
  /\ must \in [Keys -> BOOLEAN]

Init ==
  /\ state = [z \in Zdbs |-> "absent"]
  /\ used = [z \in Zdbs |-> 0]
  /\ cell = [z \in Zdbs |-> [i \in Slots |-> Junk]]
  /\ row = [k \in Keys |-> None]
  /\ up = TRUE
  /\ mem = [z \in Zdbs |-> 0]
  /\ broken = {}
  /\ stage = "idle"
  /\ cur = None
  /\ val = None
  /\ loc = None
  /\ may = [k \in Keys |-> {}]
  /\ must = [k \in Keys |-> FALSE]

-----------------------------------------------------------------------------
(* Containers.                                                             *)

Content(at) == cell[at[1]][at[2]]
Put(at, c) == cell' = [cell EXCEPT ![at[1]][at[2]] = c]

\* A container in m_files: created or found by this process.
Open(z) == state[z] = "ok"

\* SelectFile: GetAvailableSpace() >= size.
HasRoomByOne(z) == Open(z) /\ mem[z] <= Cap
HasRoom(z) == Open(z) /\ mem[z] < Cap

Goto(s) == stage' = s

\* The call returns: true after a complete chain, false after a failed step.
Finish == /\ stage' = "idle"
          /\ cur' = None
          /\ val' = None
          /\ loc' = None

(***************************************************************************)
(* A write to container z fails: the stream's failbit stays set, so every  *)
(* later access of this process to z fails too.  What the slot holds is    *)
(* its old content or garbage.                                             *)
(***************************************************************************)
WriteFails(at) ==
  /\ broken' = broken \cup {at[1]}
  /\ UNCHANGED cell \/ (at[1] \notin broken /\ Put(at, Junk))

\* OverwriteData: zeros, then the header again (usedSize is not lowered).
ZeroSlot(at) == Put(at, Junk)

-----------------------------------------------------------------------------
(* StoreFileChunk and PutDataBlockBlobUnlocked.                            *)

\* An old block is zeroed first, unless DataBlockExists fails: it answers
\* false on an SQLite error too.
StartPut(k, d) ==
  /\ up
  /\ stage = "idle"
  /\ cur' = k
  /\ val' = d
  /\ \/ Goto("append")
     \/ row[k] # None /\ Goto("zeroOld")
  /\ may' = [may EXCEPT ![k] = @ \cup {d}]
  /\ must' = [must EXCEPT ![k] = FALSE]
  /\ UNCHANGED <<disk, up, mem, broken, loc>>

ZeroOld ==
  /\ stage = "zeroOld"
  /\ \/ /\ row[cur].at[1] \notin broken
        /\ ZeroSlot(row[cur].at)
        /\ Goto("append")
        /\ UNCHANGED <<broken, cur, val, loc>>
     \/ /\ WriteFails(row[cur].at)
        /\ Finish
     \/ Finish /\ UNCHANGED <<cell, broken>>   \* GetDataBlock fails
  /\ UNCHANGED <<state, used, row, up, mem, history>>

\* WriteData on a container with room: AppendRaw writes the block ...
Append ==
  /\ stage = "append"
  /\ \E z \in Zdbs :
       /\ HasRoom(z)
       /\ LET at == <<z, mem[z]>>
          IN  \/ /\ z \notin broken
                 /\ Put(at, val)
                 /\ loc' = at
                 /\ Goto("header")
                 /\ UNCHANGED <<broken, cur, val>>
              \/ /\ WriteFails(at)
                 /\ Finish
  /\ UNCHANGED <<state, used, row, up, mem, history>>

\* ... and then the header, in memory first.
HeaderOnlyInMemory ==
  /\ mem' = [mem EXCEPT ![loc[1]] = @ + 1]
  /\ UNCHANGED used
HeaderWritten ==
  /\ mem' = [mem EXCEPT ![loc[1]] = @ + 1]
  /\ used' = [used EXCEPT ![loc[1]] = mem[loc[1]] + 1]

Header ==
  /\ stage = "header"
  /\ \/ /\ HeaderWritten
        /\ Goto("blockRow")
        /\ UNCHANGED <<broken, cur, val, loc>>
     \/ /\ mem' = [mem EXCEPT ![loc[1]] = @ + 1]
        /\ broken' = broken \cup {loc[1]}
        /\ Finish
        /\ UNCHANGED used
  /\ UNCHANGED <<state, cell, row, up, history>>

\* No container has room: ZdbFile::Create starts to fill a new one.
CreateZdb ==
  /\ stage = "append"
  /\ \A z \in Zdbs : ~HasRoom(z)
  /\ \E z \in Zdbs :
       /\ state[z] = "absent"
       /\ state' = [state EXCEPT ![z] = "partial"]
       /\ loc' = <<z, 0>>
  /\ Goto("create")
  /\ UNCHANGED <<used, cell, row, up, mem, broken, cur, val, history>>

\* The body is filled and reopened; a failure leaves the unfinished file.
FinishCreate ==
  /\ stage = "create"
  /\ \/ /\ state' = [state EXCEPT ![loc[1]] = "ok"]
        /\ loc' = None
        /\ Goto("append")
        /\ UNCHANGED <<cur, val>>
     \/ Finish /\ UNCHANGED state
  /\ UNCHANGED <<used, cell, row, up, mem, broken, history>>

\* No name is left: the disk is full (the model's bound on containers).
NoContainer ==
  /\ stage = "append"
  /\ \A z \in Zdbs : ~HasRoom(z) /\ state[z] # "absent"
  /\ Finish
  /\ UNCHANGED <<disk, up, mem, broken, history>>

\* UpsertZdbFile (a copy of usedSize that is never read back), then
\* RecordDataBlockHash; when both succeed the put returns true.
BlockRow ==
  /\ stage = "blockRow"
  /\ \/ /\ row' = [row EXCEPT ![cur] = [at |-> loc, sha |-> val]]
        /\ may' = [may EXCEPT ![cur] = {val}]
        /\ must' = [must EXCEPT ![cur] = TRUE]
        /\ Finish
     \/ /\ Goto("revertZero")
        /\ UNCHANGED <<row, cur, val, loc, history>>
  /\ UNCHANGED <<state, used, cell, up, mem, broken>>

\* RevertFailedPutDataBlockUnlocked: zero the new block ...
RevertZero ==
  /\ stage = "revertZero"
  /\ \/ /\ loc[1] \notin broken
        /\ ZeroSlot(loc)
        /\ Goto("revertRow")
        /\ UNCHANGED <<broken, cur, val, loc>>
     \/ WriteFails(loc) /\ Finish
  /\ UNCHANGED <<state, used, row, up, mem, history>>

\* ... and delete the row, which still points to the old block.
RevertRow ==
  /\ stage = "revertRow"
  /\ row' = [row EXCEPT ![cur] = None] \/ UNCHANGED row
  /\ Finish
  /\ UNCHANGED <<state, used, cell, up, mem, broken, history>>

-----------------------------------------------------------------------------
(* CancelFile: EraseAllChunksForLogicalFileUnlocked.                       *)

StartCancel(f) ==
  /\ up
  /\ stage = "idle"
  /\ cur' = <<f, 0>>
  /\ Goto("eraseNext")
  /\ UNCHANGED <<disk, up, mem, broken, val, loc, may, must>>

\* The loop ends at the first index without a row, or on an SQLite error.
EraseNext ==
  /\ stage = "eraseNext"
  /\ \/ /\ cur \in Keys /\ row[cur] # None
        /\ Goto("eraseZero")
        /\ must' = [must EXCEPT ![cur] = FALSE]
        /\ UNCHANGED <<cur, val, loc>>
     \/ Finish /\ UNCHANGED must
  /\ UNCHANGED <<disk, up, mem, broken, may>>

EraseZero ==
  /\ stage = "eraseZero"
  /\ \/ /\ row[cur].at[1] \notin broken
        /\ ZeroSlot(row[cur].at)
        /\ Goto("eraseRow")
        /\ UNCHANGED <<broken, cur, val, loc>>
     \/ WriteFails(row[cur].at) /\ Finish
  /\ UNCHANGED <<state, used, row, up, mem, history>>

\* DeleteDataBlock, then UpsertZdbFile, whose failure ends the loop.
EraseRow ==
  /\ stage = "eraseRow"
  /\ \/ /\ row' = [row EXCEPT ![cur] = None]
        /\ may' = [may EXCEPT ![cur] = {}]
        /\ \/ /\ cur' = <<cur[1], cur[2] + 1>>
              /\ Goto("eraseNext")
              /\ UNCHANGED <<val, loc>>
           \/ Finish
     \/ Finish /\ UNCHANGED <<row, may>>
  /\ UNCHANGED <<state, used, cell, up, mem, broken, must>>

-----------------------------------------------------------------------------
(* GetFileChunk and GetDataBlockBlobUnlocked.                              *)

\* The block is returned if its hash is the recorded one.
IntactUnverified(k) == row[k] # None
Intact(k) == row[k] # None /\ Content(row[k].at) = row[k].sha

\* A failed read changes nothing but the stream: its failbit stays set.
ReadFails(k) ==
  /\ up
  /\ stage = "idle"
  /\ row[k] # None
  /\ broken' = broken \cup {row[k].at[1]}
  /\ UNCHANGED <<disk, up, mem, stage, cur, val, loc, history>>

-----------------------------------------------------------------------------
(* The process.                                                            *)

Kill ==
  /\ up
  /\ up' = FALSE
  /\ broken' = {}
  /\ mem' = [z \in Zdbs |-> 0]
  /\ Finish
  /\ UNCHANGED <<disk, history>>

\* InitializeImplUnlocked: every .zdb in the directory must be complete; the
\* rows of data_blocks are not compared with the containers.
Initialize ==
  /\ ~up
  /\ \A z \in Zdbs : state[z] # "partial"
  /\ up' = TRUE
  /\ mem' = used
  /\ UNCHANGED <<disk, broken, stage, cur, val, loc, history>>

Next ==
  \/ \E k \in Keys, d \in Data : StartPut(k, d)
  \/ ZeroOld \/ Append \/ Header \/ CreateZdb \/ FinishCreate \/ NoContainer
  \/ BlockRow \/ RevertZero \/ RevertRow
  \/ \E f \in Files : StartCancel(f)
  \/ EraseNext \/ EraseZero \/ EraseRow
  \/ \E k \in Keys : ReadFails(k)
  \/ Kill \/ Initialize

Spec == Init /\ [][Next]_vars

-----------------------------------------------------------------------------
(* Properties.                                                             *)

(***************************************************************************)
(* A row and a slot belong together: no two rows share a slot, and every   *)
(* row points below the recorded end of its container, so a later append   *)
(* cannot overwrite it, whatever calls failed or were killed half-way.     *)
(***************************************************************************)
RowsDisjoint ==
  /\ \A k \in Keys : row[k] # None => row[k].at[2] < used[row[k].at[1]]
  /\ \A j, k \in Keys :
       j # k /\ row[j] # None /\ row[k] # None => row[j].at # row[k].at

(***************************************************************************)
(* A block whose put returned true, and which no later call has touched,   *)
(* is intact on disk, with the content that was put: neither failed nor    *)
(* killed puts of other blocks, nor cancels, reverts and restarts, nor the *)
(* reuse of the slots they leave behind damage it.                         *)
(***************************************************************************)
StoredReadable ==
  \A k \in Keys : must[k] => Intact(k) /\ may[k] = {row[k].sha}

(***************************************************************************)
(* A read never returns anything but what a put of this very key stored or *)
(* was storing when it failed: no zeros, no noise, no other key's block,   *)
(* nothing from before a cancel.                                           *)
(***************************************************************************)
ReadsOwnData ==
  \A k \in Keys : Intact(k) => Content(row[k].at) \in may[k]

=============================================================================

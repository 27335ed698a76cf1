---------------------------- MODULE PreserveProofs ----------------------------
(***************************************************************************)
(* Proofs about Preserve, for every value of its constants: IInv is an     *)
(* inductive invariant under CleanUse, and with it a row shown as          *)
(* preserved is stored.                                                    *)
(***************************************************************************)
EXTENDS Preserve, TLAPS, SequenceTheorems, FiniteSetTheorems, WellFoundedInduction

-----------------------------------------------------------------------------
(* The queue.                                                               *)

\* Queueing an id once more keeps the queue a sequence of rows, and queues it.
LEMMA AppendNewProps ==
  ASSUME NEW q \in Seq(Item), NEW i \in Item
  PROVE  /\ AppendNew(q, i) \in Seq(Item)
         /\ Elems(AppendNew(q, i)) = Elems(q) \cup {i}
<1>1. CASE i \in Elems(q)
  BY <1>1 DEF AppendNew
<1>2. CASE i \notin Elems(q)
  <2>1. /\ Append(q, i) \in Seq(Item)
        /\ DOMAIN Append(q, i) = 1..Len(q) + 1
        /\ \A k \in 1..Len(q) : Append(q, i)[k] = q[k]
        /\ Append(q, i)[Len(q) + 1] = i
    BY AppendProperties, LenProperties
  <2>2. Elems(Append(q, i)) = Elems(q) \cup {i}
    BY <2>1 DEF Elems
  <2> QED
    BY <1>2, <2>1, <2>2 DEF AppendNew
<1> QED
  BY <1>1, <1>2

\* Any part of a sequence of rows is one.
LEMMA PartType ==
  ASSUME NEW q \in Seq(Item), NEW m \in Nat \ {0}, NEW n \in Nat, n <= Len(q)
  PROVE  SubSeq(q, m, n) \in Seq(Item)
<1>1. Len(q) \in Nat /\ \A j \in 1..Len(q) : q[j] \in Item
  BY LenProperties, ElementOfSeq
<1>2. \A j \in m..n : q[j] \in Item
  BY <1>1
<1> QED
  BY <1>2, SubSeqProperties

\* Dropping a row from the queue leaves a sequence of rows.
LEMMA WithoutType ==
  ASSUME NEW q \in Seq(Item), NEW i \in Item
  PROVE  Without(q, i) \in Seq(Item)
<1>1. CASE i \notin Elems(q)
  BY <1>1 DEF Without
<1>2. CASE i \in Elems(q)
  <2> DEFINE k == CHOOSE n \in DOMAIN q : q[n] = i
  <2>1. k \in 1..Len(q) /\ Len(q) \in Nat
    BY <1>2, LenProperties DEF Elems
  <2> HIDE DEF k
  <2>2. SubSeq(q, 1, k - 1) \in Seq(Item)
    BY <2>1, PartType
  <2>3. SubSeq(q, k + 1, Len(q)) \in Seq(Item)
    BY <2>1, PartType
  <2>4. SubSeq(q, 1, k - 1) \o SubSeq(q, k + 1, Len(q)) \in Seq(Item)
    BY <2>2, <2>3, ConcatProperties
  <2> QED
    BY <1>2, <2>4 DEF Without, k
<1> QED
  BY <1>1, <1>2

\* An order of a set of rows is a sequence of rows.
LEMMA OrdersType ==
  ASSUME PreserveAssumption, NEW S \in SUBSET Item, NEW q \in Orders(S)
  PROVE  q \in Seq(Item)
<1>1. Cardinality(S) \in Nat
  BY FS_Subset, FS_CardinalityType DEF PreserveAssumption
<1> QED
  BY <1>1 DEF Orders

\* What is left of the queue behind its k-th id.
LEMMA RestType ==
  ASSUME NEW q \in Seq(Item), NEW k \in DOMAIN q
  PROVE  SubSeq(q, k + 1, Len(q)) \in Seq(Item)
BY SubSeqProperties

-----------------------------------------------------------------------------
\* Rows are of one of two kinds, and "no item" is neither.
LEMMA Kinds ==
  /\ IaItem \subseteq Item /\ CidItem \subseteq Item
  /\ \A i \in Item : i # Nobody /\ (i \in IaItem \/ i \in CidItem)
  /\ \A i \in IaItem : i \notin CidItem
BY PreserveAssumption DEF Item

\* The states a row can be in.
LEMMA RowStates ==
  /\ "gone" \in RowState /\ "available" \in RowState /\ "mirroring" \in RowState
  /\ "mirrored" \in RowState /\ "pending" \in RowState /\ "error" \in RowState
BY DEF RowState

\* Under clean use an upload that fails has left nothing behind at the node, and no
\* event of another consumer arrives.
LEMMA CleanUploads ==
  ASSUME CleanUse
  PROVE  (\A c : UploadFails(c) => UploadRefused) /\ (\A ok : ~ForeignDone(ok))
BY DEF CleanUse, OwnNode, UploadFails, ForeignDone

(* The parts of the invariant, and what is enough to keep each of them.     *)

RowTypes ==
  /\ st \in [Item -> RowState]
  /\ stored \in [Item -> Seq(Cids)]
  /\ disk \in [Item -> RowState]

QueueTypes == auto \in BOOLEAN /\ autoQueue \in Seq(Item)

IaTypes ==
  /\ iaItem \in IaItem \cup {Nobody}
  /\ iaMan \in IaItem \cup {Nobody}
  /\ iaIdx \in Nat
  /\ iaUnverified \in Nat
  /\ iaCids \in Seq(Cids)
  /\ iaTmp \in BOOLEAN
  /\ iaReply \in Requests \cup {NoReply}
  /\ strays \in SUBSET Requests

ReseedTypes ==
  /\ reseedItem \in CidItem \cup {Nobody}
  /\ reseedLeft \in Nat
  /\ reseedReplies \in SUBSET CidItem

\* TypeOK, variable group by variable group.
LEMMA TypeParts ==
  TypeOK <=> /\ StorageTypeOK(Cids) /\ RowTypes /\ QueueTypes /\ IaTypes
             /\ ReseedTypes /\ held \in SUBSET Cids
BY DEF TypeOK, RowTypes, QueueTypes, IaTypes, ReseedTypes

\* setItemState: the row takes the state if it is there, and what is saved is
\* the table it leaves or nothing at all.
LEMMA SetStateFacts ==
  ASSUME NEW rows \in [Item -> RowState], NEW file \in [Item -> RowState],
         NEW i \in Item, NEW s \in RowState, SetStateIn(rows, file, i, s)
  PROVE  /\ st' \in [Item -> RowState]
         /\ disk' \in [Item -> RowState]
         /\ \A j \in Item : st'[j] = IF j = i /\ rows[j] # "gone" THEN s ELSE rows[j]
         /\ disk' = st' \/ disk' = file
         /\ s = "mirroring" \/ rows[i] = "gone" => disk' = file
         /\ s # "mirroring" /\ rows[i] # "gone" => disk' = st'
BY DEF SetStateIn

\* Row i is shown as preserved after a step that has just stored all of it.
NewlyStored(i) ==
  IF i \in IaItem
  THEN StoredFiles(i, FileCount[i], stored[i])'
  ELSE \E g \in BOOLEAN : Cid(i, 0, g) \in held'

\* A row keeps what it stored, or forgets it and is not shown as preserved, or
\* has been stored anew.
StoredKept ==
  \A i \in Item :
    \/ stored'[i] = stored[i]
    \/ stored'[i] = <<>> /\ st'[i] # "mirrored"
    \/ i \in IaItem /\ NewlyStored(i)

\* Only the content of rows that are not preserved is dropped from the node.
HeldKept == \A c \in held : c \in held' \/ (st'[c.item] # "mirrored" /\ c.item # iaItem)

\* A file's CID names the item it belongs to.
LEMMA FileCidItem ==
  ASSUME NEW i, NEW k, NEW c \in FileCids(i, k)
  PROVE  c.item = i
<1>1. PICK g : c = Cid(i, k, g)
  BY DEF FileCids
<1> QED
  BY <1>1 DEF Cid

\* StoredFiles, file by file.
LEMMA StoredFile ==
  ASSUME NEW i, NEW n, NEW cids, StoredFiles(i, n, cids), NEW k \in 1..n
  PROVE  cids[k] \in FileCids(i, k) /\ cids[k] \in held
BY DEF StoredFiles

\* The same after a step.
LEMMA StoredFileNext ==
  ASSUME NEW i, NEW n, NEW cids, Len(cids) = n,
         \A k \in 1..n : cids[k] \in FileCids(i, k) /\ cids[k] \in held'
  PROVE  StoredFiles(i, n, cids)'
BY DEF StoredFiles, FileCids

\* The rows stay right when a row becomes preserved only with all of it stored,
\* nothing it stored is removed, and no row is left breathing without an owner.
LEMMA RowsKept ==
  ASSUME TypeOK, RowsOK, HeldKept, StoredKept, stored' \in [Item -> Seq(Cids)],
         \A i \in Item : st'[i] = "mirrored" => st[i] = "mirrored" \/ NewlyStored(i),
         \A i \in Item : disk'[i] = "mirrored" => st'[i] = "mirrored",
         \A i \in Item : st'[i] = "mirroring" => i \in {iaItem', reseedItem'}
  PROVE  RowsOK'
<1>1. MirroredIsStored'
  <2>1. ASSUME NEW i \in IaItem, st'[i] = "mirrored", ~NewlyStored(i)
        PROVE  StoredFiles(i, FileCount[i], stored[i])'
    <3>1. st[i] = "mirrored" /\ stored'[i] = stored[i]
      BY <2>1, Kinds DEF StoredKept
    <3>2. StoredFiles(i, FileCount[i], stored[i])
      BY <3>1 DEF RowsOK, MirroredIsStored
    <3>3. ASSUME NEW k \in 1..FileCount[i]
          PROVE  stored'[i][k] \in FileCids(i, k) /\ stored'[i][k] \in held'
      <4>1. stored[i][k] \in FileCids(i, k) /\ stored[i][k] \in held
        BY <3>2, StoredFile
      <4> QED
        BY <2>1, <3>1, <4>1, FileCidItem DEF HeldKept
    <3>4. Len(stored'[i]) = FileCount[i]
      BY <3>1, <3>2 DEF StoredFiles
    <3> QED
      BY <3>3, <3>4, StoredFileNext
  <2>2. ASSUME NEW i \in CidItem, st'[i] = "mirrored", ~NewlyStored(i)
        PROVE  \E g \in BOOLEAN : Cid(i, 0, g) \in held'
    <3>1. st[i] = "mirrored"
      BY <2>2, Kinds
    <3>2. PICK g \in BOOLEAN : Cid(i, 0, g) \in held
      BY <3>1 DEF RowsOK, MirroredIsStored
    <3> QED
      BY <2>2, <3>2 DEF HeldKept, Cid
  <2> QED
    BY <2>1, <2>2, Kinds DEF MirroredIsStored, NewlyStored
<1>2. MirroringIsOwned'
  BY DEF MirroringIsOwned
<1>3. ASSUME NEW i \in IaItem, NEW k \in DOMAIN stored'[i]
      PROVE  stored'[i][k].item = i
  <2>1. CASE stored'[i] = stored[i]
    BY <2>1, Kinds DEF RowsOK
  <2>2. CASE stored'[i] = <<>>
    BY <2>2
  <2>3. CASE NewlyStored(i)
    <3>1. stored'[i] \in Seq(Cids)
      BY Kinds
    <3>2. /\ Len(stored'[i]) = FileCount[i]
          /\ \A n \in 1..FileCount[i] : stored'[i][n] \in FileCids(i, n)
      BY <2>3 DEF NewlyStored, StoredFiles, FileCids
    <3>3. DOMAIN stored'[i] = 1..FileCount[i]
      BY <3>1, <3>2, LenProperties
    <3>4. stored'[i][k] \in FileCids(i, k)
      BY <3>2, <3>3
    <3> QED
      BY <3>4, FileCidItem
  <2> QED
    BY <2>1, <2>2, <2>3, Kinds DEF StoredKept
<1>4. \A i \in Item : stored'[i] # <<>> => i \in IaItem
  BY DEF StoredKept, RowsOK
<1> QED
  BY <1>1, <1>2, <1>3, <1>4 DEF RowsOK

\* What the ia_item machine has stored of its row so far stays stored.
LEMMA FilesKept ==
  ASSUME HeldKept, NEW n, NEW cids, StoredFiles(iaItem, n, cids)
  PROVE  \A i : i = iaItem => StoredFiles(i, n, cids)'
<1>1. ASSUME NEW k \in 1..n
      PROVE  cids[k] \in FileCids(iaItem, k) /\ cids[k] \in held'
  <2>1. cids[k] \in FileCids(iaItem, k) /\ cids[k] \in held
    BY StoredFile
  <2> QED
    BY <2>1, FileCidItem DEF HeldKept
<1>2. Len(cids) = n
  BY DEF StoredFiles
<1> QED
  BY <1>1, <1>2, StoredFileNext

\* The ia_item machine stays where it is when a step leaves it and the slot alone.
LEMMA IaPhaseKept ==
  ASSUME TypeOK, IaPhaseOK, HeldKept,
         UNCHANGED <<iaItem, iaMan, iaIdx, iaCids, iaTmp, iaReply, slotVars>>,
         iaItem # Nobody => reseedItem' = reseedItem /\ st'[iaItem] # "mirrored"
  PROVE  IaPhaseOK'
<1>1. iaItem # Nobody => StoredFiles(iaItem, iaIdx, iaCids)'
  <2>1. ASSUME iaItem # Nobody
        PROVE  \A i : i = iaItem => StoredFiles(i, iaIdx, iaCids)'
    <3>1. StoredFiles(iaItem, iaIdx, iaCids)
      BY <2>1 DEF IaPhaseOK
    <3> QED
      BY <3>1, FilesKept DEF StoredFiles
  <2> QED
    BY <2>1
<1>2. \A c : c \in FileCids(iaItem, iaIdx + 1) => c \in FileCids(iaItem, iaIdx + 1)'
  BY DEF FileCids
<1> QED
  BY <1>1, <1>2 DEF IaPhaseOK, slotVars

\* So does the reseed.
LEMMA ReseedPhaseKept ==
  ASSUME ReseedPhaseOK, UNCHANGED <<reseedItem, reseedReplies, slotVars>>,
         reseedItem # Nobody => st'[reseedItem] # "mirrored"
  PROVE  ReseedPhaseOK'
BY DEF ReseedPhaseOK, slotVars

\* What the invariant says of the rows, in the form the lemmas below ask for.
LEMMA InvFacts ==
  ASSUME IInv
  PROVE  /\ TypeOK /\ IaPhaseOK /\ ReseedPhaseOK /\ SlotOK /\ RowsOK
         /\ st \in [Item -> RowState] /\ disk \in [Item -> RowState]
         /\ stored \in [Item -> Seq(Cids)]
         /\ \A i \in Item : disk[i] = "mirrored" => st[i] = "mirrored"
         /\ \A i \in Item : st[i] = "mirroring" => i \in {iaItem, reseedItem}
         /\ iaItem # Nobody => iaItem \in IaItem /\ reseedItem = Nobody /\ st[iaItem] # "mirrored"
         /\ reseedItem # Nobody => reseedItem \in CidItem /\ st[reseedItem] # "mirrored"
         /\ strays = {}
BY DEF IInv, TypeOK, IaPhaseOK, ReseedPhaseOK, SlotOK, RowsOK, MirroringIsOwned

-----------------------------------------------------------------------------
(* One lemma per action: it keeps the invariant.                            *)

\* Bring-up and the storageStart event touch the health light only.
LEMMA HealthStep ==
  ASSUME IInv, ElsewhereUnchanged,
         \/ InitStorage
         \/ InitReply
         \/ \E ok \in BOOLEAN : StorageStart(ok)
  PROVE  IInv'
<1>0. UNCHANGED <<uploading, nodeUploads, st, stored, disk, auto, autoQueue, iaItem, iaMan,
                  iaIdx, iaUnverified, iaCids, iaTmp, iaReply, strays, reseedItem,
                  reseedLeft, reseedReplies, held>>
  BY DEF ElsewhereUnchanged, slotVars, rowVars, queueVars, iaVars, reseedVars
<1>1. TypeOK'
  <2>1. StorageTypeOK(Cids)'
    BY <1>0 DEF IInv, TypeOK, StorageTypeOK, InitStorage, InitReply, StorageStart,
           InitInFlight, InitAnswer, StorageState
  <2> QED
    BY <1>0, <2>1 DEF IInv, TypeOK
<1>2. IaPhaseOK'
  BY <1>0, IaPhaseKept DEF HeldKept, IInv, IaPhaseOK, slotVars
<1>3. ReseedPhaseOK'
  BY <1>0, ReseedPhaseKept DEF IInv, ReseedPhaseOK, slotVars
<1>4. SlotOK'
  BY <1>0 DEF IInv, SlotOK, Idle
<1>5. RowsOK'
  <2>1. StoredKept /\ held' = held /\ st' = st /\ stored' = stored /\ disk' = disk
        /\ iaItem' = iaItem /\ reseedItem' = reseedItem
    BY <1>0 DEF StoredKept
  <2> HIDE <1>0
  <2> QED
    BY <2>1, InvFacts, RowsKept DEF StoredKept, HeldKept
<1> QED
  BY <1>1, <1>2, <1>3, <1>4, <1>5 DEF IInv

\* A progress tick shows the machine's own row as mirroring.
LEMMA ProgressStep ==
  ASSUME IInv, NEW i \in Item, i \in {iaItem, reseedItem}, SetState(i, "mirroring"),
         UNCHANGED <<storageVars, stored, queueVars, iaVars, reseedVars, held>>
  PROVE  IInv'
<1> USE DEF storageVars, slotVars, rowVars, queueVars, iaVars, reseedVars
<1>0. /\ st' \in [Item -> RowState] /\ disk' = disk
      /\ \A j \in Item : st'[j] = IF j = i /\ st[j] # "gone" THEN "mirroring" ELSE st[j]
  <2>1. st \in [Item -> RowState] /\ disk \in [Item -> RowState]
    BY DEF IInv, TypeOK
  <2> QED
    BY <2>1, SetStateFacts, RowStates DEF SetState
<1>1. TypeOK'
  BY <1>0 DEF IInv, TypeOK, StorageTypeOK
<1>2. IaPhaseOK'
  BY <1>0, IaPhaseKept DEF HeldKept, IInv, IaPhaseOK, TypeOK, Item
<1>3. ReseedPhaseOK'
  BY <1>0, ReseedPhaseKept DEF IInv, ReseedPhaseOK, TypeOK, Item
<1>4. SlotOK'
  BY DEF IInv, SlotOK, Idle
<1>5. RowsOK'
  <2>1. \A j \in Item : disk'[j] = "mirrored" => st'[j] = "mirrored"
    BY <1>0, InvFacts, Kinds
  <2> QED
    BY <1>0, <2>1, InvFacts, RowsKept DEF StoredKept, HeldKept
<1> QED
  BY <1>1, <1>2, <1>3, <1>4, <1>5 DEF IInv

\* Forgetting a row forgets what it stored; the machines go on.
LEMMA RemoveStep ==
  ASSUME IInv, NEW i \in Item, Remove(i)
  PROVE  IInv'
<1> USE DEF Remove, storageVars, slotVars, queueVars, iaVars, reseedVars
<1>0. /\ st' \in [Item -> RowState] /\ disk' = st'
      /\ \A j \in Item : st'[j] = IF j = i THEN "gone" ELSE st[j]
      /\ stored' \in [Item -> Seq(Cids)]
      /\ \A j \in Item : stored'[j] = IF j = i THEN <<>> ELSE stored[j]
  BY RowStates DEF IInv, TypeOK
<1>1. TypeOK'
  BY <1>0 DEF IInv, TypeOK, StorageTypeOK
<1>2. IaPhaseOK'
  BY <1>0, Kinds, IaPhaseKept DEF HeldKept, IInv, IaPhaseOK, TypeOK
<1>3. ReseedPhaseOK'
  BY <1>0, Kinds, ReseedPhaseKept DEF IInv, ReseedPhaseOK, TypeOK
<1>4. SlotOK'
  BY DEF IInv, SlotOK, Idle
<1>5. RowsOK'
  BY <1>0, InvFacts, RowsKept DEF StoredKept, HeldKept
<1> QED
  BY <1>1, <1>2, <1>3, <1>4, <1>5 DEF IInv

\* Nor does forgetting the channel stop them.
LEMMA ForgetStep ==
  ASSUME IInv, ForgetChannel, autoQueue' = autoQueue \/ autoQueue' = <<>>
  PROVE  IInv'
<1> USE DEF ForgetChannel, storageVars, slotVars, iaVars, reseedVars
<1>0. /\ st' \in [Item -> RowState] /\ disk' = st'
      /\ \A j \in Item : st'[j] = "gone"
      /\ stored' \in [Item -> Seq(Cids)]
      /\ \A j \in Item : stored'[j] = <<>>
  BY RowStates DEF IInv, TypeOK
<1>1. TypeOK'
  <2>1. <<>> \in Seq(Item)
    BY EmptySeq
  <2>2. StorageTypeOK(Cids)' /\ QueueTypes'
    BY <2>1 DEF IInv, TypeOK, StorageTypeOK, QueueTypes
  <2>3. IaTypes' /\ ReseedTypes' /\ held' \in SUBSET Cids
    BY DEF IInv, TypeOK, IaTypes, ReseedTypes
  <2> QED
    BY <1>0, <2>2, <2>3 DEF TypeOK, RowTypes, QueueTypes, IaTypes, ReseedTypes
<1>2. IaPhaseOK'
  BY <1>0, Kinds, IaPhaseKept DEF HeldKept, IInv, IaPhaseOK, TypeOK
<1>3. ReseedPhaseOK'
  BY <1>0, Kinds, ReseedPhaseKept DEF IInv, ReseedPhaseOK, TypeOK
<1>4. SlotOK'
  BY DEF IInv, SlotOK, Idle
<1>5. RowsOK'
  BY <1>0, InvFacts, RowsKept DEF StoredKept, HeldKept
<1> QED
  BY <1>1, <1>2, <1>3, <1>4, <1>5 DEF IInv

\* Saving changes the file only.
LEMMA ScanSavedStep ==
  ASSUME IInv, ScanSaved
  PROVE  IInv'
<1> USE DEF ScanSaved, storageVars, slotVars, queueVars, iaVars, reseedVars
<1>1. TypeOK'
  BY DEF IInv, TypeOK, StorageTypeOK
<1>2. IaPhaseOK'
  BY IaPhaseKept DEF HeldKept, IInv, IaPhaseOK
<1>3. ReseedPhaseOK'
  BY ReseedPhaseKept DEF IInv, ReseedPhaseOK
<1>4. SlotOK'
  BY DEF IInv, SlotOK, Idle
<1>5. RowsOK'
  BY InvFacts, RowsKept DEF StoredKept, HeldKept
<1> QED
  BY <1>1, <1>2, <1>3, <1>4, <1>5 DEF IInv

\* A restart starts from the file, with both machines idle and the slot free.
LEMMA RestartStep ==
  ASSUME IInv, Restart
  PROVE  IInv'
<1> USE DEF Restart, StorageRestart
<1>0. /\ st' \in [Item -> RowState]
      /\ \A j \in Item : st'[j] = Loaded(disk[j])
  BY RowStates DEF IInv, TypeOK, Loaded
<1>1. TypeOK'
  <2>1. <<>> \in Seq(Item) /\ <<>> \in Seq(Cids)
    BY EmptySeq
  <2>2. StorageTypeOK(Cids)' /\ QueueTypes'
    BY <2>1 DEF IInv, TypeOK, StorageTypeOK, StorageState, QueueTypes
  <2>3. IaTypes' /\ ReseedTypes'
    BY <2>1 DEF IaTypes, ReseedTypes
  <2>4. RowTypes' /\ held' \in SUBSET Cids
    BY <1>0 DEF IInv, TypeOK, RowTypes
  <2> QED
    BY <2>2, <2>3, <2>4 DEF TypeOK, RowTypes, QueueTypes, IaTypes, ReseedTypes
<1>2. IaPhaseOK'
  BY DEF IaPhaseOK
<1>3. ReseedPhaseOK'
  BY DEF ReseedPhaseOK
<1>4. SlotOK'
  BY DEF SlotOK
<1>5. RowsOK'
  <2>1. \A j \in Item : /\ st'[j] # "mirroring"
                        /\ st'[j] = "mirrored" <=> disk[j] = "mirrored"
    BY <1>0 DEF Loaded
  <2> QED
    BY <2>1, InvFacts, RowsKept DEF StoredKept, HeldKept
<1> QED
  BY <1>1, <1>2, <1>3, <1>4, <1>5 DEF IInv

\* An abort outside an accepted upload leaves the ia_item machine idle and the
\* slot free, and takes the row out of the queue.
LEMMA AbortStep ==
  ASSUME CleanUse, IInv, NEW i \in Item, Abort(i)
  PROVE  IInv'
<1> USE DEF storageVars, slotVars, reseedVars
<1>0. /\ st' \in [Item -> RowState] /\ disk' \in [Item -> RowState]
      /\ \A j \in Item : st'[j] = IF j = i /\ st[j] # "gone" THEN "available" ELSE st[j]
      /\ disk' = st' \/ disk' = disk
  <2>1. st \in [Item -> RowState] /\ disk \in [Item -> RowState]
    BY DEF IInv, TypeOK
  <2> QED
    BY <2>1, SetStateFacts, RowStates DEF SetState, Abort
<1>a. st[i] \in {"mirroring", "pending"} /\ Phase(i) # "upload"
  BY DEF CleanUse, Abort, Sees
<1>1. TypeOK'
  <2>1. autoQueue' \in Seq(Item)
    BY WithoutType DEF IInv, TypeOK, Abort
  <2>2. StorageTypeOK(Cids)' /\ QueueTypes'
    BY <2>1 DEF IInv, TypeOK, StorageTypeOK, QueueTypes, Abort
  <2>3. <<>> \in Seq(Cids)
    BY EmptySeq
  <2>4. IaTypes'
    BY <2>3 DEF IInv, TypeOK, IaTypes, Abort
  <2>5. RowTypes' /\ ReseedTypes' /\ held' \in SUBSET Cids
    BY <1>0 DEF IInv, TypeOK, RowTypes, ReseedTypes, Abort
  <2> QED
    BY <2>2, <2>4, <2>5 DEF TypeOK, RowTypes, QueueTypes, IaTypes, ReseedTypes
<1>2. IaPhaseOK'
  <2>1. CASE iaItem = i
    BY <2>1 DEF Abort, IaPhaseOK
  <2>2. CASE iaItem # i
    BY <2>2, <1>0, Kinds, IaPhaseKept DEF HeldKept, IInv, IaPhaseOK, TypeOK, Abort
  <2> QED
    BY <2>1, <2>2
<1>3. ReseedPhaseOK'
  BY <1>0, Kinds, ReseedPhaseKept DEF IInv, ReseedPhaseOK, TypeOK, Abort
<1>4. SlotOK'
  BY <1>a, Kinds DEF IInv, SlotOK, IaPhaseOK, Idle, Abort, Phase
<1>5. RowsOK'
  <2>1. \A j \in Item : st'[j] = "mirroring" => j \in {iaItem', reseedItem'}
    BY <1>0, <1>a, InvFacts DEF Abort
  <2> QED
    BY <1>0, <1>a, <2>1, InvFacts, RowsKept DEF Abort, StoredKept, HeldKept
<1> QED
  BY <1>1, <1>2, <1>3, <1>4, <1>5 DEF IInv


-----------------------------------------------------------------------------
(* Whose a reply or an event is.                                            *)

\* A reseed download in flight is the reseed's own, and nothing else goes on.
LEMMA ReseedOwner ==
  ASSUME IInv, NEW i \in reseedReplies
  PROVE  /\ i = reseedItem /\ i \in CidItem /\ i \in Item /\ st[i] # "mirrored"
         /\ iaItem = Nobody /\ reseedReplies = {i}
         /\ ~uploading /\ nodeUploads = {}
<1>1. reseedItem # Nobody
  BY DEF IInv, ReseedPhaseOK
<1>2. iaItem = Nobody
  BY <1>1, InvFacts
<1>3. reseedReplies = {reseedItem} /\ ~uploading /\ st[reseedItem] # "mirrored"
  BY <1>1 DEF IInv, ReseedPhaseOK
<1>4. reseedItem \in CidItem
  BY <1>1 DEF IInv, TypeOK
<1> QED
  BY <1>2, <1>3, <1>4, Kinds DEF IInv, SlotOK

\* An archive.org reply is the one the ia_item machine waits for.
LEMMA IaOwner ==
  ASSUME IInv, NEW r \in InFlight
  PROVE  /\ iaItem \in IaItem /\ iaItem \in Item /\ iaItem # Nobody
         /\ st[iaItem] # "mirrored"
         /\ reseedItem = Nobody /\ reseedReplies = {}
         /\ ~uploading /\ nodeUploads = {}
         /\ Tracked(r) = NoReply /\ Untracked(r) = {}
         /\ StoredFiles(iaItem, iaIdx, iaCids)
         /\ IsManifest(r) =>
              iaMan = Nobody /\ iaIdx = 0 /\ ~iaTmp /\ r.item = iaItem
         /\ ~IsManifest(r) =>
              /\ iaMan = iaItem /\ iaIdx < FileCount[iaItem] /\ iaTmp
              /\ r.item = iaItem /\ r.man = iaItem /\ r.file = iaIdx + 1
<1>1. r = iaReply /\ r # NoReply /\ strays = {}
  BY DEF InFlight, IInv, SlotOK
<1>2. iaItem # Nobody
  BY <1>1 DEF IInv, IaPhaseOK
<1>3. iaItem \in IaItem /\ iaItem \in Item /\ iaIdx \in Nat
  BY <1>2, Kinds DEF IInv, TypeOK
<1>4. reseedItem = Nobody /\ reseedReplies = {}
  BY <1>2 DEF IInv, IaPhaseOK, ReseedPhaseOK
<1>5. Tracked(r) = NoReply /\ Untracked(r) = {}
  BY <1>1 DEF Tracked, Untracked
<1>6. st[iaItem] # "mirrored" /\ StoredFiles(iaItem, iaIdx, iaCids)
  BY <1>2 DEF IInv, IaPhaseOK
<1>7. \/ /\ iaMan = Nobody /\ iaIdx = 0 /\ ~iaTmp /\ ~uploading
         /\ r = Request(iaItem, Nobody, 0)
      \/ /\ iaMan = iaItem /\ iaIdx < FileCount[iaItem] /\ iaTmp /\ ~uploading
         /\ r = Request(iaItem, iaItem, iaIdx + 1)
  BY <1>1, <1>2 DEF IInv, IaPhaseOK
<1>8. ~uploading /\ nodeUploads = {}
  BY <1>7 DEF IInv, SlotOK
<1>9. iaIdx + 1 # 0
  BY <1>3
<1> QED
  BY <1>2, <1>3, <1>4, <1>5, <1>6, <1>7, <1>8, <1>9 DEF Request, IsManifest

\* An upload the node works on is that of the file the plugin waits for.
LEMMA UploadOwner ==
  ASSUME IInv, NEW c \in nodeUploads
  PROVE  /\ uploading /\ nodeUploads = {c} /\ reseedReplies = {}
         /\ \/ /\ iaItem \in IaItem /\ iaItem # Nobody /\ reseedItem = Nobody
               /\ st[iaItem] # "mirrored"
               /\ StoredFiles(iaItem, iaIdx, iaCids)
               /\ iaMan = iaItem /\ iaIdx < FileCount[iaItem] /\ iaReply = NoReply
               /\ c \in FileCids(iaItem, iaIdx + 1)
            \/ /\ iaItem = Nobody /\ reseedItem \in CidItem /\ reseedItem # Nobody
               /\ st[reseedItem] # "mirrored"
               /\ \E g \in BOOLEAN : c = Cid(reseedItem, 0, g)
<1>1. uploading
  BY DEF IInv, SlotOK
<1>2. CASE iaItem # Nobody
  <2>1. iaItem \in IaItem /\ reseedItem = Nobody /\ reseedReplies = {}
    BY <1>2 DEF IInv, TypeOK, IaPhaseOK, ReseedPhaseOK
  <2> QED
    BY <1>1, <1>2, <2>1 DEF IInv, IaPhaseOK
<1>3. CASE iaItem = Nobody
  <2>1. reseedItem # Nobody
    BY <1>1, <1>3 DEF IInv, SlotOK, Idle
  <2>2. reseedItem \in CidItem
    BY <2>1 DEF IInv, TypeOK
  <2> QED
    BY <1>1, <1>3, <2>1, <2>2 DEF IInv, ReseedPhaseOK
<1> QED
  BY <1>2, <1>3


-----------------------------------------------------------------------------
(* The ends of a preserve, and its next file.                               *)

\* A preserve that stops with nothing in flight leaves both machines idle.
LEMMA IaStopStep ==
  ASSUME IInv, iaItem \in IaItem, reseedItem = Nobody, reseedReplies = {},
         NEW s \in {"error", "pending"}, IaStop(s, NoReply, {}),
         StorageTypeOK(Cids)', ~uploading', nodeUploads' = {},
         held \subseteq held', held' \in SUBSET Cids,
         auto' = auto, autoQueue' \in Seq(Item), iaUnverified' \in Nat,
         UNCHANGED <<reseedItem, reseedLeft, reseedReplies>>
  PROVE  IInv'
<1>0. /\ st' \in [Item -> RowState] /\ disk' \in [Item -> RowState] /\ stored' = stored
      /\ \A j \in Item : st'[j] = IF j = iaItem /\ st[j] # "gone" THEN s ELSE st[j]
      /\ disk' = st' \/ disk' = disk
  <2>1. s \in RowState /\ iaItem \in Item
    BY RowStates, Kinds
  <2> QED
    BY <2>1, InvFacts, SetStateFacts DEF SetState, IaStop
<1>1. TypeOK'
  <2>1. <<>> \in Seq(Cids)
    BY EmptySeq
  <2>2. IaTypes'
    BY <2>1 DEF IInv, TypeOK, IaTypes, IaStop
  <2>4. ReseedTypes' /\ QueueTypes'
    BY DEF IInv, TypeOK, ReseedTypes, QueueTypes
  <2>3. RowTypes'
    BY <1>0 DEF IInv, TypeOK, RowTypes
  <2> QED
    BY <2>2, <2>3, <2>4 DEF TypeOK, RowTypes, QueueTypes, IaTypes, ReseedTypes
<1>2. IaPhaseOK'
  BY DEF IaStop, IaPhaseOK
<1>3. ReseedPhaseOK'
  BY DEF ReseedPhaseOK
<1>4. SlotOK'
  BY DEF SlotOK, IaStop
<1>5. RowsOK'
  <2>1. iaItem' = Nobody
    BY DEF IaStop
  <2>2. \A j \in Item : st'[j] = "mirrored" => st[j] = "mirrored"
    BY <1>0
  <2>3. \A j \in Item : st'[j] # "mirroring"
    BY <1>0, InvFacts, Kinds
  <2>4. \A j \in Item : disk'[j] = "mirrored" => st'[j] = "mirrored"
    BY <1>0, InvFacts, Kinds
  <2>5. StoredKept /\ HeldKept /\ stored' \in [Item -> Seq(Cids)]
    BY <1>0, InvFacts DEF StoredKept, HeldKept
  <2> QED
    BY <2>2, <2>3, <2>4, <2>5, InvFacts, RowsKept
<1> QED
  BY <1>1, <1>2, <1>3, <1>4, <1>5 DEF IInv

\* A preserve that goes on to its next file waits for that file.
LEMMA NextRequestStep ==
  ASSUME IInv, iaItem \in IaItem, reseedItem = Nobody, reseedReplies = {},
         NEW n \in Nat, NEW cids \in Seq(Cids), n < FileCount[iaItem],
         StoredFiles(iaItem, n, cids)',
         st[iaItem] # "mirrored",
         iaMan' = iaItem, iaIdx' = n, iaCids' = cids, iaTmp' = TRUE,
         SendRequest(Request(iaItem, iaItem, n + 1), NoReply, {}),
         UNCHANGED <<iaItem, st, stored, disk>>,
         StorageTypeOK(Cids)', ~uploading', nodeUploads' = {},
         held \subseteq held', held' \in SUBSET Cids,
         auto' = auto, autoQueue' \in Seq(Item), iaUnverified' \in Nat,
         UNCHANGED <<reseedItem, reseedLeft, reseedReplies>>
  PROVE  IInv'
<1>0. iaReply' = Request(iaItem, iaItem, n + 1) /\ strays' = {}
  BY DEF SendRequest
<1>1. TypeOK'
  <2>1. Request(iaItem, iaItem, n + 1) \in Requests
    BY DEF Request, Requests
  <2>2. IaTypes' /\ ReseedTypes' /\ QueueTypes' /\ RowTypes'
    BY <1>0, <2>1 DEF IInv, TypeOK, IaTypes, ReseedTypes, QueueTypes, RowTypes
  <2> QED
    BY <2>2 DEF TypeOK, RowTypes, QueueTypes, IaTypes, ReseedTypes
<1>2. IaPhaseOK'
  BY <1>0, Kinds DEF IaPhaseOK, StoredFiles
<1>3. ReseedPhaseOK'
  BY DEF ReseedPhaseOK
<1>4. SlotOK'
  BY <1>0 DEF SlotOK
<1>5. RowsOK'
  BY InvFacts, RowsKept DEF StoredKept, HeldKept
<1> QED
  BY <1>1, <1>2, <1>3, <1>4, <1>5 DEF IInv

\* A preserve that has stored every file of its manifest shows the row as
\* preserved, with exactly those files.
LEMMA CompleteStep ==
  ASSUME IInv, iaItem \in IaItem, reseedItem = Nobody, reseedReplies = {},
         NEW cids \in Seq(Cids), NEW i \in IaItem, i = iaItem,
         StoredFiles(i, FileCount[i], cids)',
         iaItem' = Nobody, iaMan' = Nobody, iaIdx' \in Nat, iaCids' = <<>>, ~iaTmp',
         iaTmp' \in BOOLEAN, iaReply' = NoReply, strays' = {},
         SetStoredCids(iaItem, cids), SetState(iaItem, "mirrored"),
         StorageTypeOK(Cids)', ~uploading', nodeUploads' = {},
         held \subseteq held', held' \in SUBSET Cids,
         auto' = auto, autoQueue' \in Seq(Item), iaUnverified' \in Nat,
         UNCHANGED <<reseedItem, reseedLeft, reseedReplies>>
  PROVE  IInv'
<1>0. /\ st' \in [Item -> RowState] /\ disk' \in [Item -> RowState]
      /\ \A j \in Item : st'[j] = IF j = iaItem /\ st[j] # "gone" THEN "mirrored" ELSE st[j]
      /\ disk' = st' \/ disk' = disk
  BY RowStates, Kinds, InvFacts, SetStateFacts DEF SetState
<1>a. /\ stored' \in [Item -> Seq(Cids)]
      /\ \A j \in Item :
           stored'[j] = IF j = iaItem /\ st[j] # "gone" THEN cids ELSE stored[j]
  BY Kinds, InvFacts DEF SetStoredCids
<1>1. TypeOK'
  <2>1. <<>> \in Seq(Cids)
    BY EmptySeq
  <2>2. IaTypes' /\ ReseedTypes' /\ QueueTypes'
    BY <2>1 DEF IInv, TypeOK, IaTypes, ReseedTypes, QueueTypes
  <2>3. RowTypes'
    BY <1>0, <1>a DEF RowTypes
  <2> QED
    BY <2>2, <2>3 DEF TypeOK, RowTypes, QueueTypes, IaTypes, ReseedTypes
<1>2. IaPhaseOK'
  BY DEF IaPhaseOK
<1>3. ReseedPhaseOK'
  BY DEF ReseedPhaseOK
<1>4. SlotOK'
  BY DEF SlotOK
<1>5. RowsOK'
  <2>1. ASSUME NEW j \in Item, j = iaItem, st[j] # "gone"
        PROVE  NewlyStored(j)
    <3>1. /\ Len(cids) = FileCount[i]
          /\ \A k \in 1..FileCount[i] : cids[k] \in FileCids(i, k) /\ cids[k] \in held'
      BY DEF StoredFiles
    <3>2. Len(stored'[i]) = FileCount[i] /\ stored'[i] = cids
      BY <1>a, <2>1, <3>1
    <3> QED
      BY <2>1, <3>1, <3>2, StoredFileNext DEF NewlyStored
  <2>2. StoredKept
    BY <1>a, <2>1 DEF StoredKept
  <2>3. \A j \in Item : st'[j] = "mirrored" => st[j] = "mirrored" \/ NewlyStored(j)
    BY <1>0, <2>1
  <2>4. \A j \in Item : st'[j] # "mirroring"
    BY <1>0, InvFacts, Kinds
  <2>5. \A j \in Item : disk'[j] = "mirrored" => st'[j] = "mirrored"
    BY <1>0, InvFacts
  <2> QED
    BY <1>a, <2>2, <2>3, <2>4, <2>5, InvFacts, RowsKept DEF HeldKept
<1> QED
  BY <1>1, <1>2, <1>3, <1>4, <1>5 DEF IInv


-----------------------------------------------------------------------------
(* Replies and events, one lemma each.                                      *)

\* A failed download fails the preserve.
LEMMA FileFailedStep ==
  ASSUME IInv, NEW r \in InFlight, FileFailed(r)
  PROVE  IInv'
<1>1. /\ iaItem \in IaItem /\ iaItem # Nobody /\ reseedItem = Nobody /\ reseedReplies = {}
      /\ ~uploading /\ nodeUploads = {}
      /\ Tracked(r) = NoReply /\ Untracked(r) = {}
  BY IaOwner
<1>2. IaFail(NoReply, {}) /\ iaUnverified' = iaUnverified
  BY <1>1 DEF FileFailed
<1>3. UNCHANGED <<storageState, everReady, bringUp, booting, uploading, nodeUploads, auto,
                  reseedItem, reseedLeft, reseedReplies, held>>
  BY DEF FileFailed, storageVars, reseedVars
<1>4. StorageTypeOK(Cids)' /\ autoQueue' \in Seq(Item) /\ iaUnverified' \in Nat
      /\ held' \in SUBSET Cids
  BY <1>2, <1>3 DEF IInv, TypeOK, StorageTypeOK, IaFail
<1>5. IaStop("error", NoReply, {})
  BY <1>2 DEF IaFail
<1> QED
  BY <1>1, <1>3, <1>4, <1>5, IaStopStep

\* A manifest starts the first file, or fails the preserve.
LEMMA ManifestReplyStep ==
  ASSUME IInv, NEW r \in InFlight, NEW ok \in BOOLEAN, ManifestReply(r, ok)
  PROVE  IInv'
<1>0. IsManifest(r)
  BY DEF ManifestReply
<1>1. /\ iaItem \in IaItem /\ iaItem # Nobody /\ reseedItem = Nobody /\ reseedReplies = {}
      /\ ~uploading /\ nodeUploads = {} /\ st[iaItem] # "mirrored"
      /\ Tracked(r) = NoReply /\ Untracked(r) = {} /\ r.item = iaItem
      /\ iaIdx = 0 /\ ~iaTmp /\ StoredFiles(iaItem, iaIdx, iaCids)
  BY <1>0, IaOwner
<1>2. UNCHANGED <<storageState, everReady, bringUp, booting, uploading, nodeUploads, auto,
                  reseedItem, reseedLeft, reseedReplies, held>>
  BY DEF ManifestReply, storageVars, reseedVars
<1>3. iaUnverified' = iaUnverified
  BY <1>1 DEF ManifestReply
<1>4. CASE ~ok
  <2>1. IaFail(NoReply, {})
    BY <1>1, <1>4 DEF ManifestReply
  <2>2. StorageTypeOK(Cids)' /\ autoQueue' \in Seq(Item) /\ iaUnverified' \in Nat
        /\ held' \in SUBSET Cids
    BY <2>1, <1>2, <1>3 DEF IInv, TypeOK, StorageTypeOK, IaFail
  <2>3. IaStop("error", NoReply, {})
    BY <2>1 DEF IaFail
  <2> QED
    BY <1>1, <1>2, <2>2, <2>3, IaStopStep
<1>5. CASE ok
  <2>1. IaNextFile(iaItem, 0, iaCids, iaTmp, NoReply, {}) /\ autoQueue' = autoQueue
    BY <1>1, <1>5 DEF ManifestReply
  <2>2. FilesIn(iaItem) = FileCount[iaItem] /\ FileCount[iaItem] \in Nat \ {0}
    BY <1>1, PreserveAssumption DEF FilesIn
  <2>3. /\ iaIdx' = 0 /\ iaMan' = iaItem /\ iaCids' = iaCids /\ iaTmp' = TRUE
        /\ SendRequest(Request(iaItem, iaItem, 0 + 1), NoReply, {})
        /\ UNCHANGED <<iaItem, st, stored, disk>>
    BY <2>1, <2>2 DEF IaNextFile
  <2>4. StorageTypeOK(Cids)' /\ autoQueue' \in Seq(Item) /\ iaUnverified' \in Nat
        /\ held' \in SUBSET Cids /\ iaCids \in Seq(Cids)
    BY <2>1, <1>2, <1>3 DEF IInv, TypeOK, StorageTypeOK
  <2>5. StoredFiles(iaItem, 0, iaCids)'
    BY <1>1, <1>2, <2>3 DEF StoredFiles
  <2>6. held \subseteq held' /\ ~uploading' /\ nodeUploads' = {} /\ auto' = auto
        /\ UNCHANGED <<reseedItem, reseedLeft, reseedReplies>>
        /\ 0 < FileCount[iaItem] /\ 0 \in Nat
    BY <1>1, <1>2, <2>2
  <2> QED
    BY <1>1, <2>3, <2>4, <2>5, <2>6, NextRequestStep
<1> QED
  BY <1>4, <1>5


\* A file that passes its checksum is uploaded, or its item waits for storage;
\* one that does not fails the preserve.
LEMMA FileDownloadedStep ==
  ASSUME CleanUse, IInv, NEW r \in InFlight, NEW good \in BOOLEAN, FileDownloaded(r, good)
  PROVE  IInv'
<1>0. ~IsManifest(r)
  BY DEF FileDownloaded
<1>1. /\ iaItem \in IaItem /\ iaItem # Nobody /\ reseedItem = Nobody /\ reseedReplies = {}
      /\ ~uploading /\ nodeUploads = {} /\ st[iaItem] # "mirrored" /\ iaItem \in Item
      /\ Tracked(r) = NoReply /\ Untracked(r) = {}
      /\ r.man = iaItem /\ r.file = iaIdx + 1
      /\ iaMan = iaItem /\ iaTmp /\ iaIdx < FileCount[iaItem]
      /\ StoredFiles(iaItem, iaIdx, iaCids)
  BY <1>0, IaOwner
<1>2. UNCHANGED <<storageState, everReady, bringUp, booting, auto,
                  reseedItem, reseedLeft, reseedReplies, held>>
  BY DEF FileDownloaded, healthVars, reseedVars
<1>3. \/ /\ Mismatch(r, good)
         /\ IaFail(NoReply, {}) /\ UNCHANGED <<slotVars, iaUnverified>>
      \/ /\ ~Mismatch(r, good)
         /\ iaUnverified' = IF Unverified(r) THEN iaUnverified + 1 ELSE iaUnverified
         /\ \/ /\ UploadAccepted(Cid(r.man, r.file, good))
               /\ iaReply' = NoReply /\ strays' = {}
               /\ UNCHANGED <<rowVars, autoQueue, iaItem, iaMan, iaIdx, iaCids, iaTmp>>
            \/ UploadRefused /\ IaPending(NoReply, {})
  BY <1>1, CleanUploads DEF FileDownloaded
<1>4. iaUnverified' \in Nat /\ held' \in SUBSET Cids
  BY <1>2, <1>3 DEF IInv, TypeOK
<1>5. CASE Mismatch(r, good)
  <2>1. /\ IaStop("error", NoReply, {}) /\ autoQueue' = autoQueue
        /\ uploading' = uploading /\ nodeUploads' = nodeUploads
    BY <1>3, <1>5 DEF IaFail, slotVars
  <2>2. StorageTypeOK(Cids)' /\ autoQueue' \in Seq(Item)
    BY <2>1, <1>2 DEF IInv, TypeOK, StorageTypeOK
  <2> QED
    BY <1>1, <1>2, <1>4, <2>1, <2>2, IaStopStep
<1>6. CASE ~Mismatch(r, good) /\ UploadRefused /\ IaPending(NoReply, {})
  <2>1. IaStop("pending", NoReply, {}) /\ autoQueue' = AppendNew(autoQueue, iaItem)
    BY <1>6 DEF IaPending
  <2>2. uploading' = uploading /\ nodeUploads' = nodeUploads
    BY <1>6 DEF UploadRefused, UploadBusy, UploadRejected, slotVars
  <2>3. StorageTypeOK(Cids)'
    BY <2>2, <1>2 DEF IInv, TypeOK, StorageTypeOK
  <2>4. autoQueue' \in Seq(Item)
    <3>1. autoQueue \in Seq(Item)
      BY DEF IInv, TypeOK
    <3> QED
      BY <1>1, <2>1, <3>1, AppendNewProps
  <2> QED
    BY <1>1, <1>2, <1>4, <2>1, <2>2, <2>3, <2>4, IaStopStep
<1>7. CASE /\ ~Mismatch(r, good)
           /\ UploadAccepted(Cid(r.man, r.file, good))
           /\ iaReply' = NoReply /\ strays' = {}
           /\ UNCHANGED <<rowVars, autoQueue, iaItem, iaMan, iaIdx, iaCids, iaTmp>>
  <2> DEFINE c == Cid(iaItem, iaIdx + 1, good)
  <2>1. c \in FileCids(iaItem, iaIdx + 1) /\ c \in Cids
    <3>1. good \in IF <<iaItem, iaIdx + 1>> \in Published THEN {TRUE} ELSE BOOLEAN
      BY <1>1, <1>7 DEF Mismatch
    <3>2. iaIdx + 1 \in Nat
      BY DEF IInv, TypeOK
    <3> QED
      BY <1>1, <3>1, <3>2 DEF FileCids, Cid, Cids
  <2>2. uploading' = TRUE /\ nodeUploads' = {c}
    BY <1>1, <1>7 DEF UploadAccepted
  <2> HIDE DEF c
  <2>3. UNCHANGED <<st, stored, disk, autoQueue, iaItem, iaMan, iaIdx, iaCids, iaTmp>>
    BY <1>7 DEF rowVars
  <2>4. TypeOK'
    <3>1. StorageTypeOK(Cids)' /\ QueueTypes' /\ RowTypes'
      BY <1>2, <2>1, <2>2, <2>3 DEF IInv, TypeOK, StorageTypeOK, QueueTypes, RowTypes
    <3>2. IaTypes' /\ ReseedTypes'
      BY <1>2, <1>4, <1>7, <2>3 DEF IInv, TypeOK, IaTypes, ReseedTypes
    <3> QED
      BY <1>4, <3>1, <3>2 DEF TypeOK, RowTypes, QueueTypes, IaTypes, ReseedTypes
  <2>5. IaPhaseOK'
    <3>1. StoredFiles(iaItem, iaIdx, iaCids)'
      BY <1>1, <1>2, <2>3 DEF StoredFiles
    <3> QED
      BY <1>1, <1>2, <1>7, <2>1, <2>2, <2>3, <3>1 DEF IaPhaseOK
  <2>6. ReseedPhaseOK'
    BY <1>1, <1>2 DEF ReseedPhaseOK
  <2>7. SlotOK'
    BY <1>1, <1>7, <2>2, <2>3 DEF SlotOK, Idle
  <2>8. RowsOK'
    BY <1>2, <2>3, InvFacts, RowsKept DEF StoredKept, HeldKept
  <2> QED
    BY <2>4, <2>5, <2>6, <2>7, <2>8 DEF IInv
<1> QED
  BY <1>3, <1>5, <1>6, <1>7

\* A reseed that runs out of candidates, or whose file cannot be stored, or is
\* stored, leaves both machines idle.
LEMMA ReseedEnds ==
  ASSUME IInv, NEW i \in CidItem, i = reseedItem, iaItem = Nobody,
         NEW s \in {"error", "mirrored"}, SetState(i, s),
         s = "mirrored" => \E g \in BOOLEAN : Cid(i, 0, g) \in held',
         reseedItem' = Nobody, reseedReplies' = {}, reseedLeft' \in Nat,
         StorageTypeOK(Cids)', ~uploading', nodeUploads' = {},
         held \subseteq held', held' \in SUBSET Cids,
         UNCHANGED <<stored, auto, autoQueue, iaItem, iaMan, iaIdx, iaUnverified, iaCids,
                     iaTmp, iaReply, strays>>
  PROVE  IInv'
<1>0. /\ st' \in [Item -> RowState] /\ disk' \in [Item -> RowState]
      /\ \A j \in Item : st'[j] = IF j = i /\ st[j] # "gone" THEN s ELSE st[j]
      /\ disk' = st' \/ disk' = disk
      /\ st[i] # "mirrored"
  <2>1. s \in RowState /\ i \in Item /\ i # Nobody
    BY RowStates, Kinds
  <2>2. st[i] # "mirrored" /\ st \in [Item -> RowState] /\ disk \in [Item -> RowState]
    BY <2>1, InvFacts
  <2>3. SetStateIn(st, disk, i, s)
    BY DEF SetState
  <2> QED
    BY <2>1, <2>2, <2>3, SetStateFacts
<1>1. TypeOK'
  <2>1. IaTypes' /\ QueueTypes'
    BY DEF IInv, TypeOK, IaTypes, QueueTypes
  <2>2. RowTypes' /\ ReseedTypes'
    BY <1>0, InvFacts DEF RowTypes, ReseedTypes
  <2> QED
    BY <2>1, <2>2 DEF TypeOK, RowTypes, QueueTypes, IaTypes, ReseedTypes
<1>2. IaPhaseOK'
  BY DEF IInv, IaPhaseOK
<1>3. ReseedPhaseOK'
  BY DEF ReseedPhaseOK
<1>4. SlotOK'
  BY InvFacts DEF SlotOK
<1>5. RowsOK'
  <2>0. i \notin IaItem
    BY Kinds
  <2>5. s = "mirrored" => NewlyStored(i)
    BY <2>0 DEF NewlyStored
  <2>1. \A j \in Item : st'[j] = "mirrored" => st[j] = "mirrored" \/ NewlyStored(j)
    BY <1>0, <2>5
  <2>2. \A j \in Item : st'[j] # "mirroring"
    BY <1>0, InvFacts, Kinds
  <2>3. \A j \in Item : disk'[j] = "mirrored" => st'[j] = "mirrored"
    BY <1>0, InvFacts
  <2>4. StoredKept /\ HeldKept /\ stored' \in [Item -> Seq(Cids)]
    BY InvFacts DEF StoredKept, HeldKept
  <2> QED
    BY <2>1, <2>2, <2>3, <2>4, InvFacts, RowsKept
<1> QED
  BY <1>1, <1>2, <1>3, <1>4, <1>5 DEF IInv


\* The next candidate is tried, or the reseed gives up.
LEMMA ReseedFailedStep ==
  ASSUME IInv, NEW i \in reseedReplies, ReseedFailed(i)
  PROVE  IInv'
<1>1. /\ i = reseedItem /\ i \in CidItem /\ iaItem = Nobody /\ reseedReplies = {i}
      /\ ~uploading /\ nodeUploads = {}
  BY ReseedOwner
<1>2. UNCHANGED <<storageState, everReady, bringUp, booting, uploading, nodeUploads, auto,
                  autoQueue, stored, held, iaItem, iaMan, iaIdx, iaUnverified, iaCids,
                  iaTmp, iaReply, strays>>
  BY DEF ReseedFailed, storageVars, queueVars, iaVars
<1>3. StorageTypeOK(Cids)' /\ held' \in SUBSET Cids /\ reseedLeft \in Nat
  BY <1>2 DEF IInv, TypeOK, StorageTypeOK
<1>4. CASE reseedLeft > 0
  <2>1. /\ reseedLeft' \in Nat
        /\ UNCHANGED <<reseedItem, reseedReplies, st, disk>>
    BY <1>3, <1>4 DEF ReseedFailed
  <2>2. TypeOK'
    <3>1. IaTypes' /\ QueueTypes' /\ RowTypes' /\ ReseedTypes'
      BY <1>2, <2>1 DEF IInv, TypeOK, IaTypes, QueueTypes, RowTypes, ReseedTypes
    <3> QED
      BY <1>3, <3>1 DEF TypeOK, RowTypes, QueueTypes, IaTypes, ReseedTypes
  <2>3. IaPhaseOK'
    BY <1>1, <1>2 DEF IInv, IaPhaseOK
  <2>4. ReseedPhaseOK'
    BY <1>2, <2>1, ReseedPhaseKept DEF IInv, ReseedPhaseOK, slotVars
  <2>5. SlotOK'
    BY <1>1, <1>2, InvFacts DEF SlotOK
  <2>6. RowsOK'
    BY <1>2, <2>1, InvFacts, RowsKept DEF StoredKept, HeldKept
  <2> QED
    BY <2>2, <2>3, <2>4, <2>5, <2>6 DEF IInv
<1>5. CASE ~(reseedLeft > 0)
  <2>1. /\ reseedItem' = Nobody /\ reseedReplies' = {} /\ reseedLeft' = reseedLeft
        /\ SetState(i, "error")
    BY <1>1, <1>5 DEF ReseedFailed
  <2> QED
    BY <1>1, <1>2, <1>3, <2>1, ReseedEnds
<1> QED
  BY <1>4, <1>5

\* A downloaded candidate is uploaded, or the reseed fails.
LEMMA ReseedDownloadedStep ==
  ASSUME CleanUse, IInv, NEW i \in reseedReplies, NEW good \in BOOLEAN,
         ReseedDownloaded(i, good)
  PROVE  IInv'
<1>1. /\ i = reseedItem /\ i \in CidItem /\ i # Nobody /\ iaItem = Nobody
      /\ reseedReplies = {i} /\ ~uploading /\ nodeUploads = {} /\ st[i] # "mirrored"
  BY ReseedOwner, Kinds
<1>2. UNCHANGED <<storageState, everReady, bringUp, booting, auto, held>> /\ reseedReplies' = {}
  BY <1>1 DEF ReseedDownloaded, healthVars
<1>3. CASE /\ UploadRefused
           /\ UploadFinished(FALSE, Cid(i, 0, good))
           /\ UNCHANGED iaUnverified
  <2>1. uploading' = uploading /\ nodeUploads' = nodeUploads
    BY <1>3 DEF UploadRefused, UploadBusy, UploadRejected, slotVars
  <2>2. /\ UNCHANGED <<iaItem, iaMan, iaIdx, iaUnverified, iaCids, iaTmp, iaReply, strays,
                       stored, autoQueue, reseedLeft>>
        /\ reseedItem' = Nobody /\ SetState(i, "error")
    BY <1>1, <1>3 DEF UploadFinished
  <2>3. StorageTypeOK(Cids)' /\ held' \in SUBSET Cids /\ reseedLeft' \in Nat
    BY <1>2, <2>1, <2>2 DEF IInv, TypeOK, StorageTypeOK
  <2> QED
    BY <1>1, <1>2, <2>1, <2>2, <2>3, ReseedEnds
<1>4. CASE /\ UploadAccepted(Cid(i, 0, good))
           /\ UNCHANGED <<rowVars, autoQueue, iaVars, reseedItem, reseedLeft>>
  <2>1. uploading' = TRUE /\ nodeUploads' = {Cid(i, 0, good)}
    BY <1>1, <1>4 DEF UploadAccepted
  <2>2. UNCHANGED <<st, stored, disk, autoQueue, iaItem, iaMan, iaIdx, iaUnverified, iaCids,
                    iaTmp, iaReply, strays, reseedItem, reseedLeft>>
    BY <1>4 DEF rowVars, iaVars
  <2>3. TypeOK'
    <3>1. Cid(i, 0, good) \in Cids
      BY <1>1, Kinds DEF Cid, Cids
    <3>2. StorageTypeOK(Cids)' /\ QueueTypes' /\ RowTypes'
      BY <1>2, <2>1, <2>2, <3>1 DEF IInv, TypeOK, StorageTypeOK, QueueTypes, RowTypes
    <3>3. IaTypes' /\ ReseedTypes' /\ held' \in SUBSET Cids
      BY <1>2, <2>2 DEF IInv, TypeOK, IaTypes, ReseedTypes
    <3> QED
      BY <3>2, <3>3 DEF TypeOK, RowTypes, QueueTypes, IaTypes, ReseedTypes
  <2>4. IaPhaseOK'
    BY <1>1, <2>2 DEF IInv, IaPhaseOK
  <2>5. ReseedPhaseOK'
    BY <1>1, <1>2, <2>1, <2>2 DEF ReseedPhaseOK
  <2>6. SlotOK'
    BY <1>1, <2>1, <2>2, InvFacts DEF SlotOK, Idle
  <2>7. RowsOK'
    BY <1>2, <2>2, InvFacts, RowsKept DEF StoredKept, HeldKept
  <2> QED
    BY <2>3, <2>4, <2>5, <2>6, <2>7 DEF IInv
<1> QED
  BY <1>3, <1>4, CleanUploads DEF ReseedDownloaded


\* One more file stored, behind those stored so far.
LEMMA StoredNext ==
  ASSUME NEW i, NEW n \in Nat, NEW cids \in Seq(Cids), StoredFiles(i, n, cids),
         NEW c \in FileCids(i, n + 1), c \in Cids, held' = held \cup {c}
  PROVE  \E new \in Seq(Cids) :
           /\ new = Append(cids, c)
           /\ Len(new) = n + 1
           /\ \A k \in 1..n + 1 : new[k] \in FileCids(i, k) /\ new[k] \in held'
<1>1. /\ Append(cids, c) \in Seq(Cids)
      /\ Len(Append(cids, c)) = Len(cids) + 1
      /\ \A k \in 1..Len(cids) : Append(cids, c)[k] = cids[k]
      /\ Append(cids, c)[Len(cids) + 1] = c
  BY AppendProperties
<1>2. Len(cids) = n
  BY DEF StoredFiles
<1>3. ASSUME NEW k \in 1..n + 1
      PROVE  Append(cids, c)[k] \in FileCids(i, k) /\ Append(cids, c)[k] \in held'
  <2>1. CASE k \in 1..n
    <3>1. cids[k] \in FileCids(i, k) /\ cids[k] \in held
      BY <2>1, StoredFile
    <3> QED
      BY <1>1, <1>2, <2>1, <3>1
  <2>2. CASE k = n + 1
    <3>1. Append(cids, c)[k] = c
      BY <1>1, <1>2, <2>2
    <3> QED
      BY <2>2, <3>1
  <2>3. k \in 1..n \/ k = n + 1
    OBVIOUS
  <2> QED
    BY ONLY <2>1, <2>2, <2>3
<1> QED
  BY <1>1, <1>2, <1>3

\* The event ends the upload it belongs to: the item goes on to its next file,
\* is complete, or waits for storage; a reseeded row is stored, or fails.
LEMMA UploadDoneStep ==
  ASSUME IInv, NEW c \in nodeUploads, NEW ok \in BOOLEAN, UploadDone(c, ok)
  PROVE  IInv'
<1>1. /\ uploading /\ nodeUploads = {c} /\ reseedReplies = {}
  BY UploadOwner
<1>2. /\ UNCHANGED <<storageState, everReady, bringUp, booting, auto, iaUnverified,
                     reseedReplies>>
      /\ uploading' = FALSE /\ nodeUploads' = {}
      /\ held' = IF ok THEN held \cup {c} ELSE held
      /\ UploadFinished(ok, c)
  BY <1>1 DEF UploadDone, UploadDoneEvent, healthVars
<1>3. /\ c \in Cids /\ StorageTypeOK(Cids)' /\ held' \in SUBSET Cids
      /\ held \subseteq held' /\ iaUnverified' \in Nat
      /\ autoQueue \in Seq(Item) /\ iaCids \in Seq(Cids) /\ iaIdx \in Nat
  BY <1>2 DEF IInv, TypeOK, StorageTypeOK
<1>4. CASE iaItem # Nobody
  <2>1. /\ iaItem \in IaItem /\ iaItem \in Item /\ reseedItem = Nobody
        /\ st[iaItem] # "mirrored" /\ StoredFiles(iaItem, iaIdx, iaCids)
        /\ iaMan = iaItem /\ iaIdx < FileCount[iaItem] /\ iaReply = NoReply
        /\ c \in FileCids(iaItem, iaIdx + 1) /\ strays = {}
    BY <1>4, UploadOwner, InvFacts, Kinds
  <2>2. CASE ~ok
    <3>1. /\ IaStop("pending", NoReply, {}) /\ autoQueue' = AppendNew(autoQueue, iaItem)
          /\ UNCHANGED <<reseedItem, reseedLeft>>
      BY <1>2, <1>4, <2>1, <2>2 DEF UploadFinished, IaPending
    <3>2. autoQueue' \in Seq(Item)
      BY <1>3, <2>1, <3>1, AppendNewProps
    <3> QED
      BY <1>1, <1>2, <1>3, <2>1, <3>1, <3>2, IaStopStep
  <2>3. CASE ok
    <3>1. /\ IaNextFile(iaItem, iaIdx + 1, Append(iaCids, c), FALSE, NoReply, {})
          /\ autoQueue' = autoQueue
          /\ UNCHANGED <<reseedItem, reseedLeft>>
          /\ held' = held \cup {c}
      BY <1>2, <1>4, <2>1, <2>3 DEF UploadFinished
    <3>2. PICK cids \in Seq(Cids) :
             /\ cids = Append(iaCids, c)
             /\ Len(cids) = iaIdx + 1
             /\ \A k \in 1..iaIdx + 1 : cids[k] \in FileCids(iaItem, k) /\ cids[k] \in held'
      BY <1>3, <2>1, <3>1, StoredNext
    <3>6. IaNextFile(iaItem, iaIdx + 1, cids, FALSE, NoReply, {})
      BY <3>1, <3>2
    <3>3. FilesIn(iaItem) = FileCount[iaItem] /\ FileCount[iaItem] \in Nat
      BY <2>1, <1>4, PreserveAssumption DEF FilesIn
    <3>4. CASE iaIdx + 1 >= FileCount[iaItem]
      <4>1. iaIdx + 1 = FileCount[iaItem]
        BY <1>3, <2>1, <3>3, <3>4
      <4>2. /\ iaItem' = Nobody /\ iaMan' = Nobody /\ iaIdx' \in Nat /\ iaCids' = <<>>
            /\ iaTmp' = FALSE /\ iaReply' = NoReply /\ strays' = {}
            /\ SetStoredCids(iaItem, cids) /\ SetState(iaItem, "mirrored")
        BY <1>3, <3>3, <3>4, <3>6 DEF IaNextFile
      <4>3. PICK i \in IaItem : i = iaItem
        BY <2>1
      <4>4. StoredFiles(i, FileCount[i], cids)'
        BY <3>2, <4>1, <4>3, StoredFileNext
      <4> QED
        BY <1>1, <1>2, <1>3, <2>1, <3>1, <3>2, <4>2, <4>3, <4>4, CompleteStep
    <3>5. CASE iaIdx + 1 < FileCount[iaItem]
      <4>1. /\ iaMan' = iaItem /\ iaIdx' = iaIdx + 1 /\ iaCids' = cids /\ iaTmp' = TRUE
            /\ SendRequest(Request(iaItem, iaItem, iaIdx + 1 + 1), NoReply, {})
            /\ UNCHANGED <<iaItem, st, stored, disk>>
        BY <1>3, <3>3, <3>5, <3>6 DEF IaNextFile
      <4>2. PICK n \in Nat : n = iaIdx + 1
        BY <1>3
      <4>3. StoredFiles(iaItem, n, cids)'
        <5>1. \A j : j = iaItem => StoredFiles(j, n, cids)'
          BY <3>2, <4>2, StoredFileNext
        <5> QED
          BY <4>1, <5>1 DEF StoredFiles
      <4> QED
        BY <1>1, <1>2, <1>3, <2>1, <3>1, <3>2, <3>5, <4>1, <4>2, <4>3, NextRequestStep
    <3> QED
      BY <1>3, <3>3, <3>4, <3>5
  <2> QED
    BY <2>2, <2>3
<1>5. CASE iaItem = Nobody
  <2>1. /\ reseedItem \in CidItem /\ reseedItem # Nobody
        /\ \E g \in BOOLEAN : c = Cid(reseedItem, 0, g)
    BY <1>5, UploadOwner
  <2>2. /\ UNCHANGED <<iaItem, iaMan, iaIdx, iaCids, iaTmp, iaReply, strays, stored,
                       autoQueue, reseedLeft>>
        /\ reseedItem' = Nobody
        /\ SetState(reseedItem, IF ok THEN "mirrored" ELSE "error")
    BY <1>2, <1>5, <2>1 DEF UploadFinished
  <2>3. PICK i \in CidItem : i = reseedItem
    BY <2>1
  <2>4. PICK s \in {"error", "mirrored"} : s = IF ok THEN "mirrored" ELSE "error"
    OBVIOUS
  <2>5. SetState(i, s) /\ (s = "mirrored" => \E g \in BOOLEAN : Cid(i, 0, g) \in held')
    BY <1>2, <2>1, <2>2, <2>3, <2>4
  <2>6. reseedLeft' \in Nat
    BY <2>2 DEF IInv, TypeOK
  <2> QED
    BY <1>1, <1>2, <1>3, <1>5, <2>2, <2>3, <2>5, <2>6, ReseedEnds
<1> QED
  BY <1>4, <1>5


-----------------------------------------------------------------------------
(* Starting a preserve.  A handler may have changed rows before it starts   *)
(* one: rows and file are the table and state.json at that point.           *)

\* No row has become preserved or started breathing in the same handler.
RowsAsBefore(rows, file) ==
  /\ rows \in [Item -> RowState] /\ file \in [Item -> RowState]
  /\ \A j \in Item : rows[j] = "mirrored" <=> st[j] = "mirrored"
  /\ \A j \in Item : rows[j] = "mirroring" => st[j] = "mirroring"
  /\ \A j \in Item : file[j] = "mirrored" => st[j] = "mirrored"

\* When both machines are idle nothing is in flight and no row breathes.
LEMMA IdleFacts ==
  ASSUME IInv, Idle
  PROVE  /\ iaItem = Nobody /\ reseedItem = Nobody /\ iaMan = Nobody /\ iaCids = <<>>
         /\ ~iaTmp /\ iaReply = NoReply /\ strays = {} /\ reseedReplies = {}
         /\ ~uploading /\ nodeUploads = {}
         /\ \A j \in Item : st[j] # "mirroring"
<1>1. iaItem = Nobody /\ reseedItem = Nobody
  BY DEF Idle
<1>2. iaMan = Nobody /\ iaCids = <<>> /\ ~iaTmp /\ iaReply = NoReply
  BY <1>1 DEF IInv, IaPhaseOK
<1>3. reseedReplies = {}
  BY <1>1 DEF IInv, ReseedPhaseOK
<1>4. strays = {} /\ ~uploading /\ nodeUploads = {}
  BY DEF IInv, SlotOK
<1>5. \A j \in Item : st[j] # "mirroring"
  BY <1>1, Kinds, InvFacts
<1> QED
  BY <1>1, <1>2, <1>3, <1>4, <1>5

\* A step that starts nothing keeps the invariant.
LEMMA NothingStarted ==
  ASSUME IInv, NEW rows, NEW file, RowsAsBefore(rows, file), st' = rows, disk' = file,
         StorageTypeOK(Cids)', auto' \in BOOLEAN, autoQueue' \in Seq(Item),
         UNCHANGED <<uploading, nodeUploads, stored, iaItem, iaMan, iaIdx, iaUnverified,
                     iaCids, iaTmp, iaReply, strays, reseedItem, reseedLeft,
                     reseedReplies, held>>
  PROVE  IInv'
<1>0. /\ st' \in [Item -> RowState] /\ disk' \in [Item -> RowState]
      /\ \A j \in Item : st'[j] = "mirrored" <=> st[j] = "mirrored"
      /\ \A j \in Item : st'[j] = "mirroring" => st[j] = "mirroring"
      /\ \A j \in Item : disk'[j] = "mirrored" => st[j] = "mirrored"
  BY DEF RowsAsBefore
<1>1. TypeOK'
  <2>1. RowTypes' /\ IaTypes' /\ ReseedTypes' /\ held' \in SUBSET Cids
    BY <1>0 DEF IInv, TypeOK, RowTypes, IaTypes, ReseedTypes
  <2> QED
    BY <2>1 DEF TypeOK, RowTypes, IaTypes, ReseedTypes
<1>2. IaPhaseOK'
  BY <1>0, InvFacts, Kinds, IaPhaseKept DEF HeldKept, slotVars
<1>3. ReseedPhaseOK'
  BY <1>0, InvFacts, Kinds, ReseedPhaseKept DEF slotVars
<1>4. SlotOK'
  BY DEF IInv, SlotOK, Idle
<1>5. RowsOK'
  BY <1>0, InvFacts, RowsKept DEF StoredKept, HeldKept
<1> QED
  BY <1>1, <1>2, <1>3, <1>4, <1>5 DEF IInv

\* Starting to preserve an IA item: it waits for its manifest, nothing stored yet.
LEMMA StartIaStep ==
  ASSUME IInv, Idle, NEW rows, NEW file, RowsAsBefore(rows, file),
         NEW i \in IaItem, rows[i] \notin {"gone", "mirrored"},
         StartIaPreserve(i, rows, file),
         StorageTypeOK(Cids)', auto' \in BOOLEAN, autoQueue' \in Seq(Item),
         UNCHANGED <<uploading, nodeUploads>>
  PROVE  IInv'
<1>0. /\ st' \in [Item -> RowState] /\ disk' \in [Item -> RowState]
      /\ \A j \in Item : st'[j] = IF j = i THEN "mirroring" ELSE rows[j]
      /\ disk' = file
  BY RowStates, Kinds, SetStateFacts DEF RowsAsBefore, StartIaPreserve
<1>a. /\ iaItem' = i /\ iaMan' = Nobody /\ iaIdx' = 0 /\ iaUnverified' = 0 /\ iaCids' = <<>>
      /\ UNCHANGED <<iaTmp, stored, reseedItem, reseedLeft, reseedReplies, held>>
      /\ iaReply' = Request(i, Nobody, 0) /\ strays' = {}
  BY IdleFacts DEF StartIaPreserve, SendRequest, reseedVars
<1>1. TypeOK'
  <2>1. Request(i, Nobody, 0) \in Requests /\ <<>> \in Seq(Cids)
    BY EmptySeq DEF Request, Requests
  <2>2. IaTypes'
    BY <1>a, <2>1 DEF IInv, TypeOK, IaTypes
  <2>3. RowTypes' /\ ReseedTypes' /\ held' \in SUBSET Cids
    BY <1>0, <1>a DEF IInv, TypeOK, RowTypes, ReseedTypes
  <2> QED
    BY <2>2, <2>3 DEF TypeOK, RowTypes, IaTypes, ReseedTypes
<1>2. IaPhaseOK'
  <2>1. StoredFiles(iaItem, iaIdx, iaCids)'
    <3>1. Len(iaCids') = 0 /\ iaIdx' = 0
      BY <1>a, EmptySeq
    <3> QED
      BY <3>1 DEF StoredFiles
  <2>2. st'[i] = "mirroring" /\ i # Nobody
    BY <1>0, Kinds
  <2> QED
    BY <1>a, <2>1, <2>2, IdleFacts DEF IaPhaseOK
<1>3. ReseedPhaseOK'
  BY <1>a, IdleFacts DEF ReseedPhaseOK
<1>4. SlotOK'
  BY <1>a, IdleFacts DEF SlotOK
<1>5. RowsOK'
  <2>1. \A j \in Item : /\ st'[j] = "mirrored" => st[j] = "mirrored"
                        /\ disk'[j] = "mirrored" => st'[j] = "mirrored"
                        /\ st'[j] = "mirroring" => j \in {iaItem', reseedItem'}
    BY <1>0, <1>a, IdleFacts DEF RowsAsBefore
  <2>2. StoredKept /\ HeldKept /\ stored' \in [Item -> Seq(Cids)]
    BY <1>a, InvFacts DEF StoredKept, HeldKept
  <2> QED
    BY <2>1, <2>2, InvFacts, RowsKept
<1> QED
  BY <1>1, <1>2, <1>3, <1>4, <1>5 DEF IInv

\* A CID row is pinned, reseeded, or fails.
LEMMA MirrorCidStep ==
  ASSUME IInv, Idle, NEW rows, NEW file, RowsAsBefore(rows, file),
         NEW i \in CidItem, rows[i] \notin {"gone", "mirrored"},
         MirrorCidRow(i, rows, file),
         StorageTypeOK(Cids)', auto' \in BOOLEAN, autoQueue' \in Seq(Item),
         UNCHANGED <<uploading, nodeUploads>>
  PROVE  IInv'
<1>0. PICK s \in {"error", "mirrored", "mirroring"} :
        /\ SetStateIn(rows, file, i, s)
        /\ s = "mirrored" => held' = held \cup {InscribedCid(i)}
        /\ s # "mirrored" => held' = held
        /\ IF s = "mirroring"
           THEN reseedItem' = i /\ reseedLeft' = Candidates[i] - 1 /\ reseedReplies' = {i}
                /\ Candidates[i] # 0
           ELSE UNCHANGED <<reseedItem, reseedLeft, reseedReplies>>
  <2>1. CASE held' = held \cup {InscribedCid(i)} /\ SetStateIn(rows, file, i, "mirrored")
             /\ UNCHANGED reseedVars
    BY <2>1 DEF reseedVars
  <2>2. CASE StartReseed(i, rows, file) /\ UNCHANGED held
    BY <2>2, IdleFacts DEF StartReseed, reseedVars
  <2> QED
    BY <2>1, <2>2 DEF MirrorCidRow
<1>a. UNCHANGED <<iaItem, iaMan, iaIdx, iaUnverified, iaCids, iaTmp, iaReply, strays, stored>>
  BY DEF MirrorCidRow, iaVars
<1>b. /\ st' \in [Item -> RowState] /\ disk' \in [Item -> RowState]
      /\ \A j \in Item : st'[j] = IF j = i THEN s ELSE rows[j]
      /\ disk' = st' \/ disk' = file
  <2>1. s \in RowState /\ i \in Item
    BY RowStates, Kinds
  <2>2. rows \in [Item -> RowState] /\ file \in [Item -> RowState]
    BY DEF RowsAsBefore
  <2>3. SetStateIn(rows, file, i, s)
    BY <1>0
  <2>4. /\ st' \in [Item -> RowState] /\ disk' \in [Item -> RowState]
        /\ \A j \in Item : st'[j] = IF j = i /\ rows[j] # "gone" THEN s ELSE rows[j]
        /\ disk' = st' \/ disk' = file
    BY <2>1, <2>2, <2>3, SetStateFacts
  <2> QED
    BY <2>4
<1>c. InscribedCid(i) \in Cids /\ held \subseteq held' /\ held' \in SUBSET Cids
  <2>1. InscribedCid(i) \in Cids
    BY Kinds DEF InscribedCid, Cid, Cids
  <2> QED
    BY <1>0, <2>1 DEF IInv, TypeOK
<1>1. TypeOK'
  <2>1. IaTypes' /\ RowTypes'
    BY <1>a, <1>b DEF IInv, TypeOK, IaTypes, RowTypes
  <2>2. ReseedTypes'
    <3>1. Candidates[i] \in Nat
      BY PreserveAssumption
    <3>2. Candidates[i] # 0 => Candidates[i] - 1 \in Nat
      BY <3>1
    <3> QED
      BY <1>0, <3>2 DEF IInv, TypeOK, ReseedTypes
  <2> QED
    BY <1>c, <2>1, <2>2 DEF TypeOK, RowTypes, IaTypes, ReseedTypes
<1>2. IaPhaseOK'
  BY <1>a, IdleFacts DEF IaPhaseOK
<1>3. ReseedPhaseOK'
  BY <1>0, <1>b, IdleFacts, Kinds DEF ReseedPhaseOK
<1>4. SlotOK'
  BY <1>a, IdleFacts DEF SlotOK
<1>5. RowsOK'
  <2>0. i \notin IaItem /\ i \in Item
    BY Kinds
  <2>1. s = "mirrored" => NewlyStored(i)
    <3>1. s = "mirrored" => Cid(i, 0, TRUE) \in held'
      BY <1>0 DEF InscribedCid
    <3> QED
      BY <2>0, <3>1 DEF NewlyStored
  <2>2. \A j \in Item : st'[j] = "mirrored" => st[j] = "mirrored" \/ NewlyStored(j)
    BY <1>b, <2>1 DEF RowsAsBefore
  <2>3. \A j \in Item : disk'[j] = "mirrored" => st'[j] = "mirrored"
    BY <1>b, <2>0 DEF RowsAsBefore
  <2>4. \A j \in Item : st'[j] = "mirroring" => j \in {iaItem', reseedItem'}
    BY <1>0, <1>b, IdleFacts DEF RowsAsBefore
  <2>5. StoredKept /\ HeldKept /\ stored' \in [Item -> Seq(Cids)]
    BY <1>a, <1>c, InvFacts DEF StoredKept, HeldKept
  <2> QED
    BY <2>2, <2>3, <2>4, <2>5, InvFacts, RowsKept
<1> QED
  BY <1>1, <1>2, <1>3, <1>4, <1>5 DEF IInv


\* mirrorItem once storage is ready, whichever kind of row it is for.
LEMMA MirrorItemStep ==
  ASSUME IInv, Idle, NEW rows, NEW file, RowsAsBefore(rows, file),
         NEW i \in Item, rows[i] # "mirrored", MirrorItem(i, rows, file),
         StorageTypeOK(Cids)', auto' \in BOOLEAN, autoQueue' \in Seq(Item),
         UNCHANGED <<uploading, nodeUploads>>
  PROVE  IInv'
<1>1. CASE i \in IaItem
  <2>1. StartIaPreserve(i, rows, file) /\ rows[i] \notin {"gone", "mirrored"}
    BY <1>1 DEF MirrorItem
  <2> QED
    BY <1>1, <2>1, StartIaStep
<1>2. CASE i \notin IaItem
  <2>1. MirrorCidRow(i, rows, file) /\ rows[i] \notin {"gone", "mirrored"} /\ i \in CidItem
    BY <1>2, Kinds DEF MirrorItem
  <2> QED
    BY <2>1, MirrorCidStep
<1> QED
  BY <1>1, <1>2

\* A set of positions of a queue that is not empty has a first one.
LEMMA FirstPosition ==
  ASSUME NEW q \in Seq(Item), NEW ready \in SUBSET DOMAIN q, ready # {}
  PROVE  /\ (CHOOSE k \in ready : \A j \in ready : k <= j) \in ready
         /\ \A i \in ready : (CHOOSE k \in ready : \A j \in ready : k <= j) <= i
<1>1. ready \subseteq Nat
  BY LenProperties
<1>2. PICK k \in ready : \A j \in ready : ~(<<j, k>> \in OpToRel(<, Nat))
  BY <1>1, NatLessThanWellFounded, WFMin
<1>3. \A j \in ready : ~(j < k)
  <2>1. \A j \in Nat : j < k => <<j, k>> \in OpToRel(<, Nat)
    BY <1>1 DEF OpToRel
  <2> QED
    BY <1>1, <1>2, <2>1
<1>4. \A j \in ready : k <= j
  BY <1>1, <1>3
<1> QED
  BY <1>2, <1>4

\* drainAutoQueue starts the first startable row of the queue, or nothing.
LEMMA DrainStep ==
  ASSUME IInv, NEW q \in Seq(Item), NEW rows, NEW file, RowsAsBefore(rows, file), NEW health,
         DrainAutoQueue(q, rows, file, health),
         StorageTypeOK(Cids)', auto' \in BOOLEAN,
         UNCHANGED <<uploading, nodeUploads>>
  PROVE  IInv'
<1> DEFINE ready == {k \in DOMAIN q : Startable(q[k], rows)}
           first == CHOOSE k \in ready : \A j \in ready : k <= j
<1>1. CASE Idle /\ health = "ready" /\ ready # {}
  <2>1. autoQueue' = SubSeq(q, first + 1, Len(q)) /\ MirrorItem(q[first], rows, file)
    BY <1>1 DEF DrainAutoQueue
  <2>2. first \in ready
    BY <1>1, FirstPosition
  <2>3. first \in DOMAIN q /\ q[first] \in Item /\ rows[q[first]] # "mirrored"
    BY <2>2 DEF Startable
  <2> HIDE DEF first, ready
  <2>4. autoQueue' \in Seq(Item)
    BY <2>1, <2>3, RestType
  <2> QED
    BY <1>1, <2>1, <2>3, <2>4, MirrorItemStep
<1>2. CASE ~(Idle /\ health = "ready" /\ ready # {})
  <2>1. /\ autoQueue' = IF Idle /\ health = "ready" THEN <<>> ELSE q
        /\ st' = rows /\ disk' = file
        /\ UNCHANGED <<stored, iaVars, reseedVars, held>>
    BY <1>2 DEF DrainAutoQueue
  <2>2. autoQueue' \in Seq(Item)
    BY <2>1, EmptySeq
  <2>3. UNCHANGED <<stored, iaItem, iaMan, iaIdx, iaUnverified, iaCids, iaTmp, iaReply,
                    strays, reseedItem, reseedLeft, reseedReplies, held>>
    BY <2>1 DEF iaVars, reseedVars
  <2> HIDE DEF first, ready
  <2> QED
    BY <2>1, <2>2, <2>3, NothingStarted
<1> QED
  BY <1>1, <1>2

\* The table and the file as they are.
LEMMA RowsAsTheyAre ==
  ASSUME IInv
  PROVE  RowsAsBefore(st, disk) /\ RowsAsBefore(st, st)
BY InvFacts DEF RowsAsBefore

\* The user's preserve.
LEMMA MirrorStep ==
  ASSUME CleanUse, IInv, NEW i \in Item, Mirror(i)
  PROVE  IInv'
<1>1. /\ MirrorItem(i, st, disk) /\ st[i] # "mirrored"
      /\ UNCHANGED <<storageState, everReady, bringUp, booting, uploading, nodeUploads,
                     auto, autoQueue>>
  BY DEF Mirror, CleanUse, Sees, storageVars, queueVars
<1>2. Idle
  BY Kinds DEF Mirror, MirrorItem, CleanUse
<1>3. StorageTypeOK(Cids)' /\ auto' \in BOOLEAN /\ autoQueue' \in Seq(Item)
  BY <1>1 DEF IInv, TypeOK, StorageTypeOK
<1> QED
  BY <1>1, <1>2, <1>3, RowsAsTheyAre, MirrorItemStep

\* The timer's probe, and the retry it drives.
LEMMA HealthTickStep ==
  ASSUME IInv, NEW ok \in BOOLEAN, HealthTick(ok)
  PROVE  IInv'
<1>1. UNCHANGED <<uploading, nodeUploads, auto>>
  BY DEF HealthTick, slotVars
<1>2. StorageTypeOK(Cids)'
  BY <1>1 DEF HealthTick, healthVars, PollHealth, Pinged, IInv, TypeOK, StorageTypeOK,
              StorageState
<1>3. DrainAutoQueue(autoQueue, st, disk, storageState')
  BY DEF HealthTick
<1>4. auto' \in BOOLEAN /\ autoQueue \in Seq(Item)
  BY <1>1 DEF IInv, TypeOK
<1> QED
  BY <1>1, <1>2, <1>3, <1>4, RowsAsTheyAre, DrainStep

\* Auto-preserve on or off.
LEMMA SetAutoPreserveStep ==
  ASSUME IInv, NEW on \in BOOLEAN, SetAutoPreserve(on)
  PROVE  IInv'
<1>1. /\ UNCHANGED <<storageState, everReady, bringUp, booting, uploading, nodeUploads>>
      /\ auto' \in BOOLEAN
  BY DEF SetAutoPreserve, storageVars
<1>2. StorageTypeOK(Cids)' /\ autoQueue \in Seq(Item)
  BY <1>1 DEF IInv, TypeOK, StorageTypeOK
<1>3. CASE on
  <2>1. PICK new \in Orders({i \in Item \ (Oversize \cup Elems(autoQueue)) :
                               st[i] \in {"available", "error"}}) :
          DrainAutoQueue(autoQueue \o new, st, st, storageState)
    BY <1>3 DEF SetAutoPreserve
  <2>2. new \in Seq(Item)
    BY OrdersType, PreserveAssumption
  <2>3. autoQueue \o new \in Seq(Item)
    BY <1>2, <2>2, ConcatProperties
  <2> QED
    BY <1>1, <1>2, <2>1, <2>3, RowsAsTheyAre, DrainStep
<1>4. CASE ~on
  <2>1. disk' = st /\ UNCHANGED <<st, stored, autoQueue, iaVars, reseedVars, held>>
    BY <1>4 DEF SetAutoPreserve
  <2>2. UNCHANGED <<stored, iaItem, iaMan, iaIdx, iaUnverified, iaCids, iaTmp, iaReply,
                    strays, reseedItem, reseedLeft, reseedReplies, held>>
    BY <2>1 DEF iaVars, reseedVars
  <2>3. autoQueue' \in Seq(Item) /\ st' = st
    BY <1>2, <2>1
  <2> QED
    BY <1>1, <1>2, <2>1, <2>2, <2>3, RowsAsTheyAre, NothingStarted
<1> QED
  BY <1>3, <1>4

\* New rows, and what an auto channel does with them.
LEMMA DiscoverStep ==
  ASSUME IInv, NEW S \in SUBSET Item, Discover(S)
  PROVE  IInv'
<1> DEFINE rows == [i \in Item |-> IF i \in S THEN "available" ELSE st[i]]
           wanted == IF auto THEN S \ (Oversize \cup Elems(autoQueue)) ELSE {}
<1>1. /\ UNCHANGED <<storageState, everReady, bringUp, booting, uploading, nodeUploads, auto>>
      /\ \A i \in S : st[i] = "gone"
  BY DEF Discover, storageVars
<1>2. PICK new \in Orders(wanted) : DrainAutoQueue(autoQueue \o new, rows, disk, storageState)
  BY DEF Discover
<1>3. StorageTypeOK(Cids)' /\ autoQueue \in Seq(Item) /\ auto' \in BOOLEAN
  BY <1>1 DEF IInv, TypeOK, StorageTypeOK
<1>4. autoQueue \o new \in Seq(Item)
  <2>1. wanted \in SUBSET Item
    OBVIOUS
  <2>2. new \in Seq(Item)
    BY <2>1, OrdersType, PreserveAssumption
  <2> QED
    BY <1>3, <2>2, ConcatProperties
<1>5. RowsAsBefore(rows, disk)
  BY <1>1, InvFacts, RowStates DEF RowsAsBefore
<1> HIDE DEF rows
<1> QED
  BY <1>1, <1>2, <1>3, <1>4, <1>5, DrainStep


\* An unpreserve drops only content of its own row.
LEMMA UnmirrorFacts ==
  ASSUME CleanUse, IInv, NEW i \in Item, Unmirror(i)
  PROVE  /\ st[i] = "mirrored"
         /\ held' \subseteq held
         /\ \A c \in held : c \in held' \/ c.item = i
         /\ \E s \in {"available", "error"}, left \in {<<>>, stored[i]} :
              SetStoredCids(i, left) /\ SetState(i, s)
<1>1. st[i] = "mirrored"
  BY DEF Unmirror, CleanUse, Sees
<1>2. PICK s \in {"available", "error"}, D \in SUBSET DOMAIN CidsOf(i), left \in {<<>>, stored[i]} :
        /\ held' = held \ {CidsOf(i)[k] : k \in D}
        /\ SetStoredCids(i, left)
        /\ SetState(i, s)
  <2>1. PICK done \in [DOMAIN CidsOf(i) -> BOOLEAN] :
          LET n == Len(CidsOf(i))
              completes(k) == done[k] /\ (k = n \/ \E j \in 1..k-1 : ~done[j])
          IN /\ held' = held \ {CidsOf(i)[k] : k \in {j \in 1..n : done[j]}}
             /\ SetStoredCids(i, IF \E k \in 1..n : completes(k) THEN <<>> ELSE stored[i])
             /\ SetState(i, IF done[n] THEN "available" ELSE "error")
    BY DEF Unmirror
  <2> DEFINE n == Len(CidsOf(i))
             D == {j \in 1..n : done[j]}
  <2>2. CidsOf(i) \in Seq(Cids)
    <3>1. InscribedCid(i) \in Cids
      BY Kinds DEF InscribedCid, Cid, Cids
    <3> QED
      BY <3>1, InvFacts DEF CidsOf
  <2>3. D \in SUBSET DOMAIN CidsOf(i)
    BY <2>2, LenProperties
  <2> QED
    BY <2>1, <2>3
<1>3. \A k \in DOMAIN CidsOf(i) : CidsOf(i)[k].item = i
  <2>1. CASE i \in CidItem \cup Collections
    BY <2>1 DEF CidsOf, InscribedCid, Cid
  <2>2. CASE i \notin CidItem \cup Collections
    BY <2>2, Kinds DEF CidsOf, IInv, RowsOK
  <2> QED
    BY <2>1, <2>2, Kinds
<1> QED
  BY <1>1, <1>2, <1>3

\* The row is not shown as preserved any more, and no machine works on it.
LEMMA UnmirrorStep ==
  ASSUME CleanUse, IInv, NEW i \in Item, Unmirror(i)
  PROVE  IInv'
<1>1. /\ st[i] = "mirrored"
      /\ UNCHANGED <<storageState, everReady, bringUp, booting, uploading, nodeUploads, auto,
                     autoQueue, iaItem, iaMan, iaIdx, iaUnverified, iaCids, iaTmp, iaReply,
                     strays, reseedItem, reseedLeft, reseedReplies>>
  BY UnmirrorFacts DEF Unmirror, storageVars, queueVars, iaVars, reseedVars
<1>2. PICK s \in {"available", "error"}, left \in {<<>>, stored[i]} :
        SetStoredCids(i, left) /\ SetState(i, s)
  BY UnmirrorFacts
<1>4. held' \subseteq held /\ \A c \in held : c \in held' \/ c.item = i
  BY UnmirrorFacts
<1>5. /\ st' \in [Item -> RowState] /\ disk' = st'
      /\ \A j \in Item : st'[j] = IF j = i THEN s ELSE st[j]
  <2>1. s \in RowState /\ s # "mirroring"
    BY RowStates
  <2>2. st \in [Item -> RowState] /\ disk \in [Item -> RowState]
    BY InvFacts
  <2>3. SetStateIn(st, disk, i, s)
    BY <1>2 DEF SetState
  <2>4. /\ st' \in [Item -> RowState]
        /\ \A j \in Item : st'[j] = IF j = i /\ st[j] # "gone" THEN s ELSE st[j]
        /\ st[i] # "gone" => disk' = st'
    BY <2>1, <2>2, <2>3, SetStateFacts
  <2> QED
    BY <1>1, <2>4
<1>6. /\ stored' \in [Item -> Seq(Cids)]
      /\ \A j \in Item : stored'[j] = stored[j] \/ (j = i /\ stored'[j] = <<>>)
  <2>1. <<>> \in Seq(Cids) /\ stored[i] \in Seq(Cids)
    BY EmptySeq, InvFacts
  <2> QED
    BY <1>2, <2>1, InvFacts DEF SetStoredCids
<1>7. HeldKept
  BY <1>1, <1>4, <1>5, InvFacts, Kinds DEF HeldKept
<1>8. held' \in SUBSET Cids
  BY <1>4 DEF IInv, TypeOK
<1>9. TypeOK'
  <2>1. StorageTypeOK(Cids)' /\ QueueTypes'
    BY <1>1 DEF IInv, TypeOK, StorageTypeOK, QueueTypes
  <2>2. IaTypes' /\ ReseedTypes'
    BY <1>1 DEF IInv, TypeOK, IaTypes, ReseedTypes
  <2> QED
    BY <1>5, <1>6, <1>8, <2>1, <2>2 DEF TypeOK, RowTypes, QueueTypes, IaTypes, ReseedTypes
<1>10. IaPhaseOK'
  BY <1>1, <1>5, <1>7, InvFacts, Kinds, IaPhaseKept DEF slotVars
<1>11. ReseedPhaseOK'
  BY <1>1, <1>5, InvFacts, Kinds, ReseedPhaseKept DEF slotVars
<1>12. SlotOK'
  BY <1>1 DEF IInv, SlotOK, Idle
<1>13. RowsOK'
  <2>1. StoredKept
    BY <1>5, <1>6 DEF StoredKept
  <2>2. \A j \in Item : /\ st'[j] = "mirrored" => st[j] = "mirrored"
                        /\ st'[j] = "mirroring" => j \in {iaItem', reseedItem'}
    BY <1>1, <1>5, InvFacts
  <2> QED
    BY <1>5, <1>6, <1>7, <2>1, <2>2, InvFacts, RowsKept
<1> QED
  BY <1>9, <1>10, <1>11, <1>12, <1>13 DEF IInv

-----------------------------------------------------------------------------
(* The theorems.                                                            *)

\* The plugin starts in the invariant.
LEMMA InitStep == Init => IInv
<1> SUFFICES ASSUME Init PROVE IInv
  OBVIOUS
<1>1. <<>> \in Seq(Item) /\ <<>> \in Seq(Cids)
  BY EmptySeq
<1>2. TypeOK
  <2>1. StorageTypeOK(Cids)
    BY DEF Init, StorageInit, StorageTypeOK, StorageState
  <2>2. RowTypes /\ QueueTypes
    BY <1>1, RowStates DEF Init, RowTypes, QueueTypes
  <2>3. IaTypes /\ ReseedTypes /\ held \in SUBSET Cids
    BY <1>1 DEF Init, IaTypes, ReseedTypes
  <2> QED
    BY <2>1, <2>2, <2>3, TypeParts
<1>3. IaPhaseOK /\ ReseedPhaseOK /\ SlotOK
  BY DEF Init, StorageInit, IaPhaseOK, ReseedPhaseOK, SlotOK
<1>4. RowsOK
  BY Kinds DEF Init, RowsOK, MirroredIsStored, MirroringIsOwned
<1> QED
  BY <1>2, <1>3, <1>4 DEF IInv

\* Every step of the plugin, its environment and a clean user keeps it.
LEMMA NextStep ==
  ASSUME CleanUse, IInv, [Next]_vars
  PROVE  IInv'
<1>1. CASE Environment
  <2>1. ASSUME NEW r \in InFlight, FileFailed(r) PROVE IInv'
    BY <2>1, FileFailedStep
  <2>2. ASSUME NEW r \in InFlight, NEW ok \in BOOLEAN, ManifestReply(r, ok) PROVE IInv'
    BY <2>2, ManifestReplyStep
  <2>3. ASSUME NEW r \in InFlight, NEW ok \in BOOLEAN, FileDownloaded(r, ok) PROVE IInv'
    BY <2>3, FileDownloadedStep
  <2>4. ASSUME NEW i \in reseedReplies, ReseedFailed(i) PROVE IInv'
    BY <2>4, ReseedFailedStep
  <2>5. ASSUME NEW i \in reseedReplies, NEW good \in BOOLEAN, ReseedDownloaded(i, good)
        PROVE  IInv'
    BY <2>5, ReseedDownloadedStep
  <2>6. ASSUME NEW c \in nodeUploads, NEW ok \in BOOLEAN, UploadDone(c, ok) PROVE IInv'
    BY <2>6, UploadDoneStep
  <2>7. ASSUME NEW c \in nodeUploads, UploadDoneLost(c) PROVE IInv'
    BY <2>7 DEF UploadDoneLost, CleanUse
  <2>8. ASSUME NEW r \in InFlight, IaProgress(r) PROVE IInv'
    <3>1. iaItem \in Item
      BY IaOwner
    <3> QED
      BY <2>8, <3>1, ProgressStep DEF IaProgress
  <2>9. ASSUME NEW i \in reseedReplies, ReseedProgress(i) PROVE IInv'
    <3>1. i \in Item /\ i = reseedItem
      BY ReseedOwner
    <3> QED
      BY <2>9, <3>1, ProgressStep DEF ReseedProgress
  <2>10. CASE BroughtUp \/ NodeStarted
    BY <2>10, HealthStep DEF BroughtUp, NodeStarted
  <2> QED
    BY <1>1, <2>1, <2>2, <2>3, <2>4, <2>5, <2>6, <2>7, <2>8, <2>9, <2>10, CleanUploads
       DEF Environment, TransferEnds, ReseedTransferEnds, UploadEnds
<1>2. CASE UserCall
  <2>1. ASSUME NEW i \in Item, Mirror(i) \/ Abort(i) \/ Unmirror(i) \/ Remove(i)
        PROVE  IInv'
    BY <2>1, MirrorStep, AbortStep, UnmirrorStep, RemoveStep
  <2>2. CASE UnfollowChannel
    BY <2>2, ForgetStep DEF UnfollowChannel
  <2>3. CASE RemoveAllItems
    BY <2>3, ForgetStep DEF RemoveAllItems
  <2>4. ASSUME NEW on \in BOOLEAN, SetAutoPreserve(on) PROVE IInv'
    BY <2>4, SetAutoPreserveStep
  <2> QED
    BY <1>2, <2>1, <2>2, <2>3, <2>4 DEF UserCall
<1>3. CASE Background
  <2>1. CASE BringUp
    BY <2>1, HealthStep DEF BringUp
  <2>2. ASSUME NEW ok \in BOOLEAN, HealthTick(ok) PROVE IInv'
    BY <2>2, HealthTickStep
  <2>3. ASSUME NEW S \in SUBSET Item \ {{}}, Discover(S) PROVE IInv'
    BY <2>3, DiscoverStep
  <2>4. CASE ScanSaved
    BY <2>4, ScanSavedStep
  <2>5. CASE Restart
    BY <2>5, RestartStep
  <2> QED
    BY <1>3, <2>1, <2>2, <2>3, <2>4, <2>5 DEF Background
<1>4. CASE UNCHANGED vars
  <2>1. UNCHANGED <<storageState, everReady, bringUp, booting, uploading, nodeUploads, auto,
                    autoQueue, st, stored, disk, iaItem, iaMan, iaIdx, iaUnverified, iaCids,
                    iaTmp, iaReply, strays, reseedItem, reseedLeft, reseedReplies, held>>
    BY <1>4 DEF vars, storageVars, rowVars, queueVars, iaVars, reseedVars
  <2>2. StorageTypeOK(Cids)' /\ auto' \in BOOLEAN /\ autoQueue' \in Seq(Item)
    BY <2>1 DEF IInv, TypeOK, StorageTypeOK
  <2> QED
    BY <2>1, <2>2, RowsAsTheyAre, NothingStarted
<1> QED
  BY <1>1, <1>2, <1>3, <1>4 DEF Next

\* The invariant holds of every run of a clean user.
THEOREM Invariance == CleanUse /\ Spec => []IInv
<1> SUFFICES ASSUME CleanUse PROVE Spec => []IInv
  OBVIOUS
<1>1. IInv /\ [Next]_vars => IInv'
  BY NextStep
<1> QED
  BY <1>1, InitStep, PTL DEF Spec

\* Types, for every run of a clean user.
THEOREM TypeCorrect == CleanUse /\ Spec => []TypeOK
<1> SUFFICES ASSUME CleanUse PROVE Spec => []TypeOK
  OBVIOUS
<1>1. IInv => TypeOK
  BY DEF IInv
<1> QED
  BY <1>1, Invariance, PTL

\* What is shown as preserved is stored: every file of the manifest, verified where
\* a checksum is published, named by the row's storedCids.
THEOREM PreservedIsStored == CleanUse /\ Spec => []MirroredIsStored
<1> SUFFICES ASSUME CleanUse PROVE Spec => []MirroredIsStored
  OBVIOUS
<1>1. IInv => MirroredIsStored
  BY DEF IInv, RowsOK
<1> QED
  BY <1>1, Invariance, PTL

\* What state.json says is preserved is stored too, so a restart never claims more.
THEOREM SavedIsStored == CleanUse /\ Spec => []SavedMirroredIsStored
<1> SUFFICES ASSUME CleanUse PROVE Spec => []SavedMirroredIsStored
  OBVIOUS
<1>1. IInv => SavedMirroredIsStored
  BY Kinds DEF IInv, RowsOK, MirroredIsStored, SavedMirroredIsStored
<1> QED
  BY <1>1, Invariance, PTL

\* A completion event belongs to the file the plugin waits for.
THEOREM EventIsOwn == CleanUse /\ Spec => []UploadIsOwn
<1> SUFFICES ASSUME CleanUse PROVE Spec => []UploadIsOwn
  OBVIOUS
<1>1. ASSUME IInv, uploading
      PROVE  \/ /\ iaItem # Nobody /\ iaMan = iaItem /\ iaTmp
                /\ \E c \in FileCids(iaItem, iaIdx + 1) : nodeUploads = {c}
             \/ /\ reseedItem # Nobody
                /\ \E g \in BOOLEAN : nodeUploads = {Cid(reseedItem, 0, g)}
  <2>1. iaItem # Nobody \/ reseedItem # Nobody
    BY <1>1 DEF IInv, SlotOK, Idle
  <2>2. CASE iaItem # Nobody
    BY <1>1, <2>2 DEF IInv, IaPhaseOK
  <2>3. CASE reseedItem # Nobody
    BY <1>1, <2>3 DEF IInv, ReseedPhaseOK
  <2> QED
    BY <2>1, <2>2, <2>3
<1>2. IInv => UploadIsOwn
  BY <1>1 DEF UploadIsOwn
<1> QED
  BY <1>2, Invariance, PTL

\* No row is left breathing with no one to finish it.
THEOREM BreathingIsOwned == CleanUse /\ Spec => []MirroringIsOwned
<1> SUFFICES ASSUME CleanUse PROVE Spec => []MirroringIsOwned
  OBVIOUS
<1>1. IInv => MirroringIsOwned
  BY DEF IInv, RowsOK
<1> QED
  BY <1>1, Invariance, PTL

\* While nothing is being preserved the upload slot is free, so a health probe
\* never meets an upload.
THEOREM ProbeMeetsNoUpload == CleanUse /\ Spec => []IdleSlotIsFree
<1> SUFFICES ASSUME CleanUse PROVE Spec => []IdleSlotIsFree
  OBVIOUS
<1>1. IInv => IdleSlotIsFree
  BY DEF IInv, SlotOK, IdleSlotIsFree
<1> QED
  BY <1>1, Invariance, PTL

\* One preserve, one file of it and one request of it at a time, and an idle machine
\* keeps nothing of the run before.
THEOREM OneAtATime == CleanUse /\ Spec => []OneInFlight
<1> SUFFICES ASSUME CleanUse PROVE Spec => []OneInFlight
  OBVIOUS
<1>1. ASSUME IInv PROVE OneInFlight
  <2>1. Cardinality({}) = 0 /\ \A x : Cardinality({x}) = 1
    BY FS_EmptySet, FS_Singleton
  <2>2. InFlight = {iaReply} \ {NoReply}
    BY <1>1, InvFacts DEF InFlight
  <2>3. iaItem = Nobody \/ reseedItem = Nobody
    BY <1>1, InvFacts
  <2>4. iaItem = Nobody => /\ iaMan = Nobody /\ iaCids = <<>> /\ ~iaTmp
                           /\ iaReply = NoReply
    BY <1>1 DEF IInv, IaPhaseOK
  <2>5. ASSUME Cardinality(nodeUploads) + Cardinality(InFlight)
                 + Cardinality(reseedReplies) <= 1,
               \A r \in InFlight : r.item = iaItem
        PROVE  OneInFlight
    BY <1>1, <2>3, <2>4, <2>5, InvFacts DEF OneInFlight
  <2>6. CASE iaItem = Nobody /\ reseedItem = Nobody
    <3>1. nodeUploads = {} /\ InFlight = {} /\ reseedReplies = {}
      BY <1>1, <2>2, <2>4, <2>6 DEF IInv, SlotOK, Idle, ReseedPhaseOK
    <3>2. /\ Cardinality(nodeUploads) = 0 /\ Cardinality(InFlight) = 0
          /\ Cardinality(reseedReplies) = 0
      BY <2>1, <3>1
    <3> QED
      BY <2>5, <3>1, <3>2
  <2>7. CASE iaItem = Nobody /\ reseedItem # Nobody
    <3>1. InFlight = {}
      BY <2>2, <2>4, <2>7
    <3>2. \/ nodeUploads = {} /\ reseedReplies = {reseedItem}
          \/ reseedReplies = {} /\ \E c : nodeUploads = {c}
      BY <1>1, <2>7 DEF IInv, SlotOK, ReseedPhaseOK
    <3>3. /\ Cardinality(InFlight) = 0
          /\ \/ Cardinality(nodeUploads) = 0 /\ Cardinality(reseedReplies) = 1
             \/ Cardinality(nodeUploads) = 1 /\ Cardinality(reseedReplies) = 0
      BY <2>1, <3>1, <3>2
    <3> QED
      BY <2>5, <3>1, <3>3
  <2>8. CASE iaItem # Nobody
    <3>1. reseedReplies = {}
      BY <1>1, <2>3, <2>8 DEF IInv, ReseedPhaseOK
    <3>2. \/ nodeUploads = {} /\ \E m, k : iaReply = Request(iaItem, m, k)
          \/ iaReply = NoReply /\ \E c : nodeUploads = {c}
      BY <1>1, <2>8 DEF IInv, SlotOK, IaPhaseOK
    <3>3. \/ nodeUploads = {} /\ InFlight = {iaReply} /\ iaReply.item = iaItem
          \/ InFlight = {} /\ \E c : nodeUploads = {c}
      BY <2>2, <2>8, <3>2 DEF Request, NoReply
    <3>4. /\ Cardinality(reseedReplies) = 0
          /\ \/ Cardinality(nodeUploads) = 0 /\ Cardinality(InFlight) = 1
             \/ Cardinality(nodeUploads) = 1 /\ Cardinality(InFlight) = 0
      BY <2>1, <3>1, <3>3
    <3> QED
      BY <2>5, <3>3, <3>4
  <2> QED
    BY <2>6, <2>7, <2>8
<1> QED
  BY <1>1, Invariance, PTL

-----------------------------------------------------------------------------
(* The unverified count.                                                    *)

\* The files of i up to file n that have no published checksum.
Unchecked(i, n) == {k \in 1..n : <<i, k>> \notin Published}

\* The files handed to storage so far: those stored, and the one being uploaded.
HandedOver == IF uploading THEN iaIdx + 1 ELSE iaIdx

\* One file more counts when it has no checksum.
LEMMA UncheckedNext ==
  ASSUME NEW i, NEW n \in Nat
  PROVE  /\ Cardinality(Unchecked(i, 0)) = 0
         /\ Cardinality(Unchecked(i, n + 1))
              = IF <<i, n + 1>> \in Published THEN Cardinality(Unchecked(i, n))
                ELSE Cardinality(Unchecked(i, n)) + 1
<1>1. Unchecked(i, 0) = {}
  BY DEF Unchecked
<1>2. IsFiniteSet(Unchecked(i, n))
  <2>1. IsFiniteSet(1..n)
    BY FS_Interval
  <2>2. Unchecked(i, n) \in SUBSET (1..n)
    BY DEF Unchecked
  <2> QED
    BY <2>1, <2>2, FS_Subset
<1>3. 1..n + 1 = (1..n) \cup {n + 1}
  OBVIOUS
<1>4. CASE <<i, n + 1>> \in Published
  <2>1. Unchecked(i, n + 1) = Unchecked(i, n)
    BY <1>3, <1>4 DEF Unchecked
  <2> QED
    BY <1>1, <1>4, <2>1, FS_EmptySet
<1>5. CASE <<i, n + 1>> \notin Published
  <2>1. Unchecked(i, n + 1) = Unchecked(i, n) \cup {n + 1}
    BY <1>3, <1>5 DEF Unchecked
  <2>2. n + 1 \notin Unchecked(i, n)
    BY DEF Unchecked
  <2>3. Cardinality(Unchecked(i, n + 1)) = Cardinality(Unchecked(i, n)) + 1
    BY <1>2, <2>1, <2>2, FS_AddElement
  <2> QED
    BY <1>1, <1>5, <2>3, FS_EmptySet
<1> QED
  BY <1>4, <1>5

\* The count is right after a step that leaves the machine idle, leaves it where it
\* is, hands one more file over, or starts a run at nought.
LEMMA CountKept ==
  ASSUME UnverifiedIsCounted, HandedOver \in Nat,
         \/ iaItem' = Nobody
         \/ UNCHANGED <<iaItem, iaUnverified, HandedOver>>
         \/ /\ iaItem # Nobody /\ iaItem' = iaItem /\ HandedOver' = HandedOver + 1
            /\ iaUnverified' = IF <<iaItem, HandedOver + 1>> \in Published THEN iaUnverified
                               ELSE iaUnverified + 1
         \/ HandedOver' = 0 /\ iaUnverified' = 0
  PROVE  UnverifiedIsCounted'
<1>1. iaItem # Nobody => iaUnverified = Cardinality(Unchecked(iaItem, HandedOver))
  BY DEF UnverifiedIsCounted, Unchecked, HandedOver
<1>2. iaItem' # Nobody => iaUnverified' = Cardinality(Unchecked(iaItem', HandedOver'))
  <2>1. CASE UNCHANGED <<iaItem, iaUnverified, HandedOver>>
    BY <1>1, <2>1
  <2>2. CASE /\ iaItem # Nobody /\ iaItem' = iaItem /\ HandedOver' = HandedOver + 1
             /\ iaUnverified' = IF <<iaItem, HandedOver + 1>> \in Published
                                THEN iaUnverified ELSE iaUnverified + 1
    BY <1>1, <2>2, UncheckedNext
  <2>3. CASE HandedOver' = 0 /\ iaUnverified' = 0
    BY <2>3, UncheckedNext
  <2> QED
    BY <2>1, <2>2, <2>3
<1> QED
  BY <1>2 DEF UnverifiedIsCounted, Unchecked, HandedOver

\* A preserve that starts, starts at nought; a row that is not started moves nothing.
LEMMA CountAtStart ==
  ASSUME IInv, UnverifiedIsCounted, UNCHANGED slotVars,
         NEW i, NEW rows, NEW file,
         MirrorItem(i, rows, file) \/ UNCHANGED iaVars
  PROVE  UnverifiedIsCounted'
<1>0. HandedOver \in Nat
  BY InvFacts DEF TypeOK, HandedOver
<1>1. CASE MirrorItem(i, rows, file) /\ i \in IaItem
  <2>1. ~uploading
    BY <1>1, IdleFacts DEF MirrorItem
  <2>2. HandedOver' = 0 /\ iaUnverified' = 0
    BY <1>1, <2>1 DEF MirrorItem, StartIaPreserve, HandedOver, slotVars
  <2> QED
    BY <1>0, <2>2, CountKept
<1>2. CASE (MirrorItem(i, rows, file) /\ i \notin IaItem) \/ UNCHANGED iaVars
  <2>1. UNCHANGED <<iaItem, iaUnverified, HandedOver>>
    BY <1>2 DEF MirrorItem, MirrorCidRow, iaVars, HandedOver, slotVars
  <2> QED
    BY <1>0, <2>1, CountKept
<1> QED
  BY <1>1, <1>2

\* drainAutoQueue starts one row or none.
LEMMA CountAtDrain ==
  ASSUME IInv, UnverifiedIsCounted, UNCHANGED slotVars,
         NEW q, NEW rows, NEW file, NEW health, DrainAutoQueue(q, rows, file, health)
  PROVE  UnverifiedIsCounted'
<1>1. (\E i : MirrorItem(i, rows, file)) \/ UNCHANGED iaVars
  BY DEF DrainAutoQueue
<1> QED
  BY <1>1, CountAtStart

\* Replies and events: a file counts when it is handed over, not when it is stored.
LEMMA CountAtEnvironment ==
  ASSUME CleanUse, IInv, UnverifiedIsCounted, Environment
  PROVE  UnverifiedIsCounted'
<1>0. HandedOver \in Nat
  BY InvFacts DEF TypeOK, HandedOver
<1>1. ASSUME NEW r \in InFlight, FileFailed(r) PROVE UnverifiedIsCounted'
  <2>1. iaItem' = Nobody
    BY <1>1, IaOwner DEF FileFailed, IaFail, IaStop
  <2> QED
    BY <1>0, <2>1, CountKept
<1>2. ASSUME NEW r \in InFlight, NEW ok \in BOOLEAN, ManifestReply(r, ok)
      PROVE  UnverifiedIsCounted'
  <2>1. iaItem' = Nobody \/ UNCHANGED <<iaItem, iaUnverified, HandedOver>>
    BY <1>2, IaOwner
       DEF ManifestReply, IaFail, IaStop, IaNextFile, HandedOver, storageVars
  <2> QED
    BY <1>0, <2>1, CountKept
<1>3. ASSUME NEW r \in InFlight, NEW good \in BOOLEAN, FileDownloaded(r, good)
      PROVE  UnverifiedIsCounted'
  <2>1. /\ iaItem # Nobody /\ ~uploading /\ ~IsManifest(r)
        /\ r.man = iaItem /\ r.file = iaIdx + 1
    BY <1>3, IaOwner DEF FileDownloaded
  <2>2. \/ iaItem' = Nobody
        \/ /\ uploading' /\ UNCHANGED <<iaItem, iaIdx>>
           /\ iaUnverified' = IF Unverified(r) THEN iaUnverified + 1 ELSE iaUnverified
    BY <1>3, <2>1 DEF FileDownloaded, IaFail, IaPending, IaStop, UploadAccepted
  <2>3. \/ iaItem' = Nobody
        \/ /\ iaItem' = iaItem /\ HandedOver' = HandedOver + 1
           /\ iaUnverified' = IF <<iaItem, HandedOver + 1>> \in Published THEN iaUnverified
                              ELSE iaUnverified + 1
    BY <2>1, <2>2 DEF HandedOver, Unverified
  <2> QED
    BY <1>0, <2>1, <2>3, CountKept
<1>4. ASSUME NEW c \in nodeUploads, NEW ok \in BOOLEAN, UploadDone(c, ok)
      PROVE  UnverifiedIsCounted'
  <2>1. uploading
    BY UploadOwner
  <2>2. ~uploading' /\ iaUnverified' = iaUnverified /\ UploadFinished(ok, c)
    BY <1>4, <2>1 DEF UploadDone, UploadDoneEvent
  <2>3. iaItem' = Nobody \/ (iaItem' = iaItem /\ iaIdx' = iaIdx + 1)
    BY <2>2 DEF UploadFinished, IaNextFile, IaPending, IaStop
  <2> QED
    BY <1>0, <2>1, <2>2, <2>3, CountKept DEF HandedOver
<1>5. ASSUME NEW i \in reseedReplies,
             \/ ReseedFailed(i)
             \/ \E good \in BOOLEAN : ReseedDownloaded(i, good)
             \/ ReseedProgress(i)
      PROVE  UnverifiedIsCounted'
  <2>1. iaItem = Nobody
    BY ReseedOwner
  <2>2. iaItem' = Nobody
    BY <1>5, <2>1
       DEF ReseedFailed, ReseedDownloaded, ReseedProgress, UploadFinished, iaVars
  <2> QED
    BY <1>0, <2>2, CountKept
<1>6. CASE (\E r \in InFlight : IaProgress(r)) \/ BroughtUp \/ NodeStarted
  <2>1. UNCHANGED <<iaItem, iaUnverified, HandedOver>>
    BY <1>6 DEF IaProgress, BroughtUp, NodeStarted, ElsewhereUnchanged,
                storageVars, slotVars, iaVars, HandedOver
  <2> QED
    BY <1>0, <2>1, CountKept
<1>7. ~(\E c \in nodeUploads : UploadDoneLost(c)) /\ ~(\E ok \in BOOLEAN : ForeignDone(ok))
  BY CleanUploads DEF UploadDoneLost, CleanUse
<1> QED
  BY <1>1, <1>2, <1>3, <1>4, <1>5, <1>6, <1>7
     DEF Environment, TransferEnds, ReseedTransferEnds, UploadEnds

\* What the user, the timers and the host do.
LEMMA CountAtCalls ==
  ASSUME CleanUse, IInv, UnverifiedIsCounted, UserCall \/ Background
  PROVE  UnverifiedIsCounted'
<1>0. HandedOver \in Nat
  BY InvFacts DEF TypeOK, HandedOver
<1>1. ASSUME NEW i \in Item, Mirror(i) PROVE UnverifiedIsCounted'
  BY <1>1, CountAtStart DEF Mirror, storageVars, slotVars
<1>2. ASSUME NEW i \in Item, Abort(i) PROVE UnverifiedIsCounted'
  <2>1. iaItem' = Nobody \/ UNCHANGED <<iaItem, iaUnverified, HandedOver>>
    BY <1>2 DEF Abort, HandedOver, storageVars
  <2> QED
    BY <1>0, <2>1, CountKept
<1>3. ASSUME (\E i \in Item : Unmirror(i) \/ Remove(i)) \/ UnfollowChannel
                \/ RemoveAllItems \/ BringUp \/ ScanSaved
      PROVE  UnverifiedIsCounted'
  <2>1. UNCHANGED <<slotVars, iaVars>>
    BY <1>3 DEF Unmirror, Remove, UnfollowChannel, RemoveAllItems, ForgetChannel,
                BringUp, ScanSaved, ElsewhereUnchanged, storageVars, slotVars
  <2>2. UNCHANGED <<iaItem, iaUnverified, HandedOver>>
    BY <2>1 DEF slotVars, iaVars, HandedOver
  <2> QED
    BY <1>0, <2>2, CountKept
<1>4. ASSUME NEW on \in BOOLEAN, SetAutoPreserve(on) PROVE UnverifiedIsCounted'
  <2>1. UNCHANGED slotVars
    BY <1>4 DEF SetAutoPreserve, storageVars, slotVars
  <2>2. CASE UNCHANGED iaVars
    <3>1. UNCHANGED <<iaItem, iaUnverified, HandedOver>>
      BY <2>1, <2>2 DEF slotVars, iaVars, HandedOver
    <3> QED
      BY <1>0, <3>1, CountKept
  <2>3. UNCHANGED iaVars \/ \E q : DrainAutoQueue(q, st, st, storageState)
    BY <1>4 DEF SetAutoPreserve
  <2> QED
    BY <2>1, <2>2, <2>3, CountAtDrain
<1>5. ASSUME NEW ok \in BOOLEAN, HealthTick(ok) PROVE UnverifiedIsCounted'
  BY <1>5, CountAtDrain DEF HealthTick
<1>6. ASSUME NEW S \in SUBSET Item, Discover(S) PROVE UnverifiedIsCounted'
  <2>1. \E q, rows : DrainAutoQueue(q, rows, disk, storageState)
    BY <1>6 DEF Discover
  <2>2. UNCHANGED slotVars
    BY <1>6 DEF Discover, storageVars, slotVars
  <2> QED
    BY <2>1, <2>2, CountAtDrain
<1>7. CASE Restart
  <2>1. iaItem' = Nobody
    BY <1>7 DEF Restart
  <2> QED
    BY <1>0, <2>1, CountKept
<1> QED
  BY <1>1, <1>2, <1>3, <1>4, <1>5, <1>6, <1>7 DEF UserCall, Background

\* The notice that a preserve is complete names the right number of files that could
\* not be verified.
THEOREM NoticeIsHonest == CleanUse /\ Spec => []UnverifiedIsCounted
<1> SUFFICES ASSUME CleanUse PROVE Spec => []UnverifiedIsCounted
  OBVIOUS
<1>1. Init => UnverifiedIsCounted
  BY DEF Init, UnverifiedIsCounted
<1>2. ASSUME IInv, UnverifiedIsCounted, [Next]_vars PROVE UnverifiedIsCounted'
  <2>1. CASE UNCHANGED vars
    BY <1>2, <2>1 DEF vars, storageVars, iaVars, UnverifiedIsCounted
  <2> QED
    BY <1>2, <2>1, CountAtEnvironment, CountAtCalls DEF Next
<1>3. IInv /\ UnverifiedIsCounted /\ [Next]_vars => UnverifiedIsCounted'
  BY <1>2
<1> QED
  BY <1>1, <1>3, Invariance, PTL DEF Spec
==============================================================================

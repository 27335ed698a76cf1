---------------------------- MODULE VerifiedProofs ----------------------------
(***************************************************************************)
(* What holds without clean use, with overlaps, aborts at any phase, stale *)
(* views, lost events, calls that time out and another consumer's events:  *)
(* only bytes that passed the published checksum reach the node; the state *)
(* keeps its types; a pending row is queued until the host stops; auto on  *)
(* takes every available row; an abort of an IA row is final as long as no *)
(* row is taken from under its preserve.  And on a node of our own that    *)
(* answers in time, it works on one upload of ours at a time.              *)
(***************************************************************************)
EXTENDS PreserveProofs

\* Bytes that may be handed to storage.
MayStore(c) == <<c.item, c.file>> \in Published => c.good

\* What the node has, or works on, may be stored; on a node of our own that answers in
\* time the slot holds one upload at most, and none when it is free.
SlotInv ==
  /\ OwnNode => nodeUploads = {} \/ (uploading /\ \E c : nodeUploads = {c})
  /\ \A c \in held \cup nodeUploads : MayStore(c)

\* Who can be worked on and who can wait.
OwnerTypes ==
  /\ autoQueue \in Seq(Item)
  /\ iaItem \in IaItem \cup {Nobody}
  /\ reseedReplies \subseteq CidItem

AnyUseInv == SlotInv /\ OwnerTypes

-----------------------------------------------------------------------------
(* The slot.                                                                *)

\* Contents that may be stored come, any contents go, the slot stays as it is.
LEMMA SlotKept ==
  ASSUME SlotInv, UNCHANGED slotVars, \A c \in held' : c \in held \/ MayStore(c)
  PROVE  SlotInv'
BY DEF SlotInv, MayStore, slotVars

\* A free slot takes bytes that may be stored; the node takes them without it only
\* when its answer comes too late.
LEMMA SlotTaken ==
  ASSUME SlotInv, NEW c, UploadAccepted(c) \/ (SlowCalls /\ UploadTimedOut(c)), MayStore(c),
         UNCHANGED held
  PROVE  SlotInv'
BY DEF SlotInv, MayStore, UploadAccepted, UploadTimedOut, OwnNode

\* An upload that fails leaves the slot and the node alone, or has timed out.
LEMMA FailedUpload ==
  ASSUME NEW c, UploadFails(c)
  PROVE  UNCHANGED slotVars \/ (SlowCalls /\ UploadTimedOut(c))
BY DEF UploadFails, UploadRefused, UploadBusy, UploadRejected

\* What the node has stored leaves the slot empty.
LEMMA SlotEmptied ==
  ASSUME SlotInv, NEW c \in nodeUploads, nodeUploads' = nodeUploads \ {c},
         held' \in {held, held \cup {c}}
  PROVE  SlotInv'
BY DEF SlotInv, MayStore

-----------------------------------------------------------------------------
(* The handlers.                                                            *)

\* Queueing the item worked on.
LEMMA PendingTypes ==
  ASSUME OwnerTypes, iaItem # Nobody
  PROVE  AppendNew(autoQueue, iaItem) \in Seq(Item)
BY AppendNewProps, Kinds DEF OwnerTypes

\* An archive.org reply: only a file that does not mismatch is handed over.
LEMMA TransferAnyUse ==
  ASSUME AnyUseInv, TransferEnds
  PROVE  AnyUseInv'
<1>1. PICK r \in InFlight :
        \/ FileFailed(r)
        \/ \E ok \in BOOLEAN : ManifestReply(r, ok) \/ FileDownloaded(r, ok)
  BY DEF TransferEnds
<1>2. OwnerTypes'
  <2>1. iaItem' \in {iaItem, Nobody} /\ reseedReplies' = reseedReplies
    BY <1>1 DEF FileFailed, ManifestReply, FileDownloaded, ReplyDropped, IaFail, IaPending,
                IaStop, IaNextFile, reseedVars
  <2>2. \/ autoQueue' = autoQueue
        \/ iaItem # Nobody /\ autoQueue' = AppendNew(autoQueue, iaItem)
    BY <1>1 DEF FileFailed, ManifestReply, FileDownloaded, ReplyDropped, IaFail, IaPending
  <2> QED
    BY <2>1, <2>2, PendingTypes DEF AnyUseInv, OwnerTypes
<1>3. SlotInv'
  <2>1. held' = held
    BY <1>1 DEF FileFailed, ManifestReply, FileDownloaded
  <2>2. CASE UNCHANGED slotVars
    BY <2>1, <2>2, SlotKept DEF AnyUseInv
  <2>3. ASSUME NEW good \in BOOLEAN, ~Mismatch(r, good),
               \/ UploadAccepted(Cid(r.man, r.file, good))
               \/ SlowCalls /\ UploadTimedOut(Cid(r.man, r.file, good))
        PROVE  SlotInv'
    <3>1. MayStore(Cid(r.man, r.file, good))
      BY <2>3 DEF MayStore, Mismatch, Cid
    <3> QED
      BY <2>1, <2>3, <3>1, SlotTaken DEF AnyUseInv
  <2>4. \/ UNCHANGED slotVars
        \/ \E good \in BOOLEAN : /\ ~Mismatch(r, good)
                                 /\ \/ UploadAccepted(Cid(r.man, r.file, good))
                                    \/ SlowCalls /\ UploadTimedOut(Cid(r.man, r.file, good))
    BY <1>1, FailedUpload DEF FileFailed, ManifestReply, FileDownloaded, storageVars, slotVars
  <2> QED
    BY <2>2, <2>3, <2>4
<1> QED
  BY <1>2, <1>3 DEF AnyUseInv

\* A reseed download: no checksum is published for the file of a CID row.
LEMMA ReseedAnyUse ==
  ASSUME AnyUseInv, NEW i \in reseedReplies,
         ReseedFailed(i) \/ ReseedProgress(i)
           \/ \E good \in BOOLEAN : ReseedDownloaded(i, good)
  PROVE  AnyUseInv'
<1>1. OwnerTypes'
  <2>1. reseedReplies' \subseteq reseedReplies
    BY DEF ReseedFailed, ReseedProgress, ReseedDownloaded, reseedVars
  <2>2. iaItem' \in {iaItem, Nobody}
    BY DEF ReseedFailed, ReseedProgress, ReseedDownloaded, UploadFinished, IaPending,
           IaStop, iaVars
  <2>3. \/ autoQueue' = autoQueue
        \/ iaItem # Nobody /\ autoQueue' = AppendNew(autoQueue, iaItem)
    BY DEF ReseedFailed, ReseedProgress, ReseedDownloaded, UploadFinished, IaPending,
           queueVars
  <2> QED
    BY <2>1, <2>2, <2>3, PendingTypes DEF AnyUseInv, OwnerTypes
<1>2. SlotInv'
  <2>1. held' = held
    BY DEF ReseedFailed, ReseedProgress, ReseedDownloaded
  <2>2. \/ UNCHANGED slotVars
        \/ \E good \in BOOLEAN : \/ UploadAccepted(Cid(i, 0, good))
                                 \/ SlowCalls /\ UploadTimedOut(Cid(i, 0, good))
    BY FailedUpload DEF ReseedFailed, ReseedProgress, ReseedDownloaded, storageVars, slotVars
  <2>3. ASSUME NEW good \in BOOLEAN PROVE MayStore(Cid(i, 0, good))
    BY PreserveAssumption DEF PreserveAssumption, MayStore, Cid
  <2> QED
    BY <2>1, <2>2, <2>3, SlotKept, SlotTaken DEF AnyUseInv
<1> QED
  BY <1>1, <1>2 DEF AnyUseInv

\* The node ends an upload, and the event comes or is lost.
LEMMA UploadAnyUse ==
  ASSUME AnyUseInv, NEW c \in nodeUploads,
         UploadDoneLost(c) \/ \E ok \in BOOLEAN : UploadDone(c, ok)
  PROVE  AnyUseInv'
<1>1. OwnerTypes'
  <2>1. iaItem' \in {iaItem, Nobody} /\ reseedReplies' = reseedReplies
    BY DEF UploadDoneLost, UploadDone, UploadFinished, IaNextFile, IaPending, IaStop,
           iaVars, reseedVars
  <2>2. \/ autoQueue' = autoQueue
        \/ iaItem # Nobody /\ autoQueue' = AppendNew(autoQueue, iaItem)
    BY DEF UploadDoneLost, UploadDone, UploadFinished, IaPending, queueVars
  <2> QED
    BY <2>1, <2>2, PendingTypes DEF AnyUseInv, OwnerTypes
<1>2. SlotInv'
  BY SlotEmptied DEF AnyUseInv, UploadDoneLost, UploadDone, UploadDoneEvent
<1> QED
  BY <1>1, <1>2 DEF AnyUseInv

\* Another consumer's event moves the machine that waits, and the node not at all.
LEMMA ForeignAnyUse ==
  ASSUME AnyUseInv, NEW ok \in BOOLEAN, ForeignDone(ok)
  PROVE  AnyUseInv'
<1>1. OwnerTypes'
  <2>1. iaItem' \in {iaItem, Nobody} /\ reseedReplies' = reseedReplies
    BY DEF ForeignDone, UploadFinished, IaNextFile, IaPending, IaStop, iaVars, reseedVars
  <2>2. \/ autoQueue' = autoQueue
        \/ iaItem # Nobody /\ autoQueue' = AppendNew(autoQueue, iaItem)
    BY DEF ForeignDone, UploadFinished, IaPending
  <2> QED
    BY <2>1, <2>2, PendingTypes DEF AnyUseInv, OwnerTypes
<1>2. SlotInv'
  <2>1. ~OwnNode /\ nodeUploads' = nodeUploads /\ held' = held
    BY DEF ForeignDone, ForeignUploadDone, OwnNode
  <2> QED
    BY <2>1 DEF AnyUseInv, SlotInv, MayStore, OwnNode
<1> QED
  BY <1>1, <1>2 DEF AnyUseInv

\* mirrorItem takes bytes from the network only under the inscribed CID.
LEMMA MirrorAnyUse ==
  ASSUME AnyUseInv, NEW i \in Item, NEW rows, NEW file, MirrorItem(i, rows, file),
         UNCHANGED slotVars, autoQueue' \in Seq(Item)
  PROVE  AnyUseInv'
<1>1. OwnerTypes'
  BY Kinds DEF AnyUseInv, OwnerTypes, MirrorItem, StartIaPreserve, MirrorCidRow, StartReseed,
               iaVars, reseedVars
<1>2. MayStore(InscribedCid(i))
  BY DEF MayStore, InscribedCid, Cid
<1>3. held' = held \/ held' = held \cup {InscribedCid(i)}
  BY DEF MirrorItem, StartIaPreserve, MirrorCidRow
<1> QED
  BY <1>1, <1>2, <1>3, SlotKept DEF AnyUseInv

\* drainAutoQueue takes one row, or none.
LEMMA DrainAnyUse ==
  ASSUME AnyUseInv, NEW q \in Seq(Item), NEW rows, NEW file, NEW health,
         DrainAutoQueue(q, rows, file, health), UNCHANGED slotVars
  PROVE  AnyUseInv'
<1> DEFINE ready == {k \in DOMAIN q : Startable(q[k], rows)}
           first == CHOOSE k \in ready : \A j \in ready : k <= j
<1>1. CASE Idle /\ health = "ready" /\ ready # {}
  <2>1. /\ MirrorItem(q[first], rows, file)
        /\ autoQueue' = SubSeq(q, first + 1, Len(q))
    BY <1>1 DEF DrainAutoQueue
  <2>2. first \in ready
    BY <1>1, FirstPosition
  <2>3. first \in DOMAIN q /\ q[first] \in Item
    BY <2>2 DEF Startable
  <2> HIDE DEF first, ready
  <2>4. autoQueue' \in Seq(Item)
    BY <2>1, <2>3, RestType
  <2> QED
    BY <2>1, <2>3, <2>4, MirrorAnyUse
<1>2. CASE ~(Idle /\ health = "ready" /\ ready # {})
  <2>1. /\ autoQueue' \in {<<>>, q}
        /\ UNCHANGED <<iaItem, reseedReplies, held>>
    BY <1>2 DEF DrainAutoQueue, iaVars, reseedVars
  <2> HIDE DEF first, ready
  <2>2. autoQueue' \in Seq(Item)
    BY <2>1, EmptySeq
  <2> QED
    BY <2>1, <2>2, SlotKept DEF AnyUseInv, OwnerTypes
<1> QED
  BY <1>1, <1>2

\* What touches neither the node nor the machines, or only empties them.
LEMMA ElsewhereAnyUse ==
  ASSUME AnyUseInv, UNCHANGED slotVars, held' \subseteq held,
         autoQueue' \in Seq(Item), iaItem' \in {iaItem, Nobody},
         reseedReplies' = reseedReplies
  PROVE  AnyUseInv'
BY SlotKept DEF AnyUseInv, OwnerTypes

\* The user.
LEMMA UserAnyUse ==
  ASSUME AnyUseInv, UserCall
  PROVE  AnyUseInv'
<1>0. autoQueue \in Seq(Item) /\ <<>> \in Seq(Item)
  BY EmptySeq DEF AnyUseInv, OwnerTypes
<1>1. ASSUME NEW i \in Item, Mirror(i) PROVE AnyUseInv'
  BY <1>0, <1>1, MirrorAnyUse DEF Mirror, storageVars, slotVars, queueVars
<1>2. ASSUME NEW i \in Item, Abort(i) PROVE AnyUseInv'
  <2>1. autoQueue' \in Seq(Item)
    BY <1>0, <1>2, WithoutType DEF Abort
  <2>2. /\ UNCHANGED slotVars /\ held' = held /\ iaItem' \in {iaItem, Nobody}
        /\ reseedReplies' = reseedReplies
    BY <1>2 DEF Abort, storageVars, slotVars, reseedVars
  <2> QED
    BY <2>1, <2>2, ElsewhereAnyUse
<1>3. ASSUME (\E i \in Item : Unmirror(i) \/ Remove(i)) \/ UnfollowChannel \/ RemoveAllItems
      PROVE  AnyUseInv'
  <2>1. /\ UNCHANGED <<slotVars, iaItem, reseedReplies>>
        /\ autoQueue' \in {autoQueue, <<>>} /\ held' \subseteq held
    BY <1>3 DEF Unmirror, Remove, UnfollowChannel, RemoveAllItems, ForgetChannel,
                storageVars, slotVars, queueVars, iaVars, reseedVars
  <2> QED
    BY <1>0, <2>1, ElsewhereAnyUse
<1>4. ASSUME NEW on \in BOOLEAN, SetAutoPreserve(on) PROVE AnyUseInv'
  <2> DEFINE wanted == {i \in Item \ (Oversize \cup Elems(autoQueue)) :
                          st[i] \in {"available", "error"}}
  <2>1. UNCHANGED slotVars
    BY <1>4 DEF SetAutoPreserve, storageVars, slotVars
  <2>2. CASE on
    <3>1. PICK new \in Orders(wanted) : DrainAutoQueue(autoQueue \o new, st, st, storageState)
      BY <1>4, <2>2 DEF SetAutoPreserve
    <3>2. wanted \in SUBSET Item
      OBVIOUS
    <3>3. autoQueue \o new \in Seq(Item)
      BY <1>0, <3>2, OrdersType, PreserveAssumption, ConcatProperties
    <3> HIDE DEF wanted
    <3> QED
      BY <2>1, <3>1, <3>3, DrainAnyUse
  <2>3. CASE ~on
    <3>1. UNCHANGED <<autoQueue, iaItem, reseedReplies, held>>
      BY <1>4, <2>3 DEF SetAutoPreserve, iaVars, reseedVars
    <3> QED
      BY <1>0, <2>1, <3>1, ElsewhereAnyUse
  <2> QED
    BY <2>2, <2>3
<1> QED
  BY <1>1, <1>2, <1>3, <1>4 DEF UserCall

\* The timers and the host.
LEMMA BackgroundAnyUse ==
  ASSUME AnyUseInv, Background
  PROVE  AnyUseInv'
<1>0. autoQueue \in Seq(Item) /\ <<>> \in Seq(Item)
  BY EmptySeq DEF AnyUseInv, OwnerTypes
<1>1. CASE BringUp \/ ScanSaved
  <2>1. UNCHANGED <<slotVars, autoQueue, iaItem, reseedReplies, held>>
    BY <1>1 DEF BringUp, ScanSaved, ElsewhereUnchanged, storageVars, slotVars, queueVars,
                iaVars, reseedVars
  <2> QED
    BY <1>0, <2>1, ElsewhereAnyUse
<1>2. ASSUME NEW ok \in BOOLEAN, HealthTick(ok) PROVE AnyUseInv'
  BY <1>0, <1>2, DrainAnyUse DEF HealthTick
<1>3. ASSUME NEW S \in SUBSET Item, Discover(S) PROVE AnyUseInv'
  <2> DEFINE wanted == IF auto THEN S \ (Oversize \cup Elems(autoQueue)) ELSE {}
  <2>1. \E new \in Orders(wanted) : \E rows :
          DrainAutoQueue(autoQueue \o new, rows, disk, storageState)
    BY <1>3 DEF Discover
  <2>2. wanted \in SUBSET Item
    OBVIOUS
  <2>3. \A new \in Orders(wanted) : autoQueue \o new \in Seq(Item)
    BY <1>0, <2>2, OrdersType, PreserveAssumption, ConcatProperties
  <2>4. UNCHANGED slotVars
    BY <1>3 DEF Discover, storageVars, slotVars
  <2> HIDE DEF wanted
  <2> QED
    BY <2>1, <2>3, <2>4, DrainAnyUse
<1>4. CASE Restart
  <2>1. OwnerTypes'
    BY <1>0, <1>4 DEF Restart, OwnerTypes
  <2>2. SlotInv'
    BY <1>4 DEF Restart, StorageRestart, AnyUseInv, SlotInv, MayStore
  <2> QED
    BY <2>1, <2>2 DEF AnyUseInv
<1> QED
  BY <1>1, <1>2, <1>3, <1>4 DEF Background

-----------------------------------------------------------------------------
(* The theorem.                                                             *)

\* Every step keeps the invariant, with nothing assumed of the user.
LEMMA AnyUseStep ==
  ASSUME AnyUseInv, [Next]_vars
  PROVE  AnyUseInv'
<1>0. autoQueue \in Seq(Item)
  BY DEF AnyUseInv, OwnerTypes
<1>1. CASE Environment
  <2>1. CASE (\E r \in InFlight : IaProgress(r)) \/ BroughtUp \/ NodeStarted
    <3>1. UNCHANGED <<slotVars, autoQueue, iaItem, reseedReplies, held>>
      BY <2>1 DEF IaProgress, BroughtUp, NodeStarted, ElsewhereUnchanged, storageVars,
                  slotVars, queueVars, iaVars, reseedVars
    <3> QED
      BY <1>0, <3>1, ElsewhereAnyUse
  <2> QED
    BY <1>1, <2>1, TransferAnyUse, ReseedAnyUse, UploadAnyUse, ForeignAnyUse
       DEF Environment, ReseedTransferEnds, UploadEnds
<1>2. CASE UNCHANGED vars
  <2>1. UNCHANGED <<slotVars, autoQueue, iaItem, reseedReplies, held>>
    BY <1>2 DEF vars, storageVars, slotVars, queueVars, iaVars, reseedVars
  <2> QED
    BY <1>0, <2>1, ElsewhereAnyUse
<1> QED
  BY <1>1, <1>2, UserAnyUse, BackgroundAnyUse DEF Next

\* The invariant of any use.
THEOREM AnyUse == Spec => []AnyUseInv
<1>1. Init => AnyUseInv
  BY EmptySeq DEF Init, StorageInit, AnyUseInv, SlotInv, OwnerTypes
<1>2. AnyUseInv /\ [Next]_vars => AnyUseInv'
  BY AnyUseStep
<1> QED
  BY <1>1, <1>2, PTL DEF Spec

\* Whatever the user does, whoever else uploads and whatever comes late or gets lost,
\* nothing that fails its published checksum is handed to the node.
THEOREM OnlyVerified == Spec => []OnlyVerifiedUploads
<1>1. AnyUseInv => OnlyVerifiedUploads
  BY DEF AnyUseInv, SlotInv, MayStore, OnlyVerifiedUploads
<1> QED
  BY <1>1, AnyUse, PTL

\* On a node that nobody else uploads to and that answers in time: one upload of ours
\* at a time and none behind a free slot, whatever the user does and whatever is lost.
THEOREM SlotIsEnough == OwnNode /\ Spec => []OneUploadAtATime
<1> SUFFICES ASSUME OwnNode PROVE Spec => []OneUploadAtATime
  OBVIOUS
<1>1. ASSUME AnyUseInv PROVE OneUploadAtATime
  <2>1. nodeUploads = {} \/ (uploading /\ \E c : nodeUploads = {c})
    BY <1>1 DEF AnyUseInv, SlotInv
  <2>2. Cardinality({}) = 0 /\ \A c : Cardinality({c}) = 1
    BY FS_EmptySet, FS_Singleton
  <2>3. Cardinality(nodeUploads) \in {0, 1}
    BY <2>1, <2>2
  <2> QED
    BY <2>1, <2>3 DEF OneUploadAtATime
<1>2. AnyUseInv => OneUploadAtATime
  BY <1>1
<1> QED
  BY <1>2, AnyUse, PTL

-----------------------------------------------------------------------------
(* The types, whatever the user does.                                       *)

\* TypeOK after a step, from its parts.
LEMMA TypePartsNext ==
  ASSUME StorageTypeOK(Cids)', RowTypes', QueueTypes', IaTypes', ReseedTypes,
         UNCHANGED reseedVars, held' \in SUBSET Cids
  PROVE  TypeOK'
BY DEF TypeOK, RowTypes, QueueTypes, IaTypes, ReseedTypes, reseedVars

LEMMA SameStorage ==
  ASSUME StorageTypeOK(Cids), UNCHANGED storageVars
  PROVE  StorageTypeOK(Cids)'
BY DEF StorageTypeOK, storageVars

LEMMA SlotTypes ==
  ASSUME StorageTypeOK(Cids), UNCHANGED healthVars, NEW c \in Cids,
         \/ UNCHANGED slotVars \/ UploadAccepted(c) \/ UploadTimedOut(c) \/ UploadDoneEvent(c)
         \/ nodeUploads' = nodeUploads \ {c} /\ uploading' = uploading
  PROVE  StorageTypeOK(Cids)'
BY DEF StorageTypeOK, healthVars, slotVars, UploadAccepted, UploadTimedOut, UploadDoneEvent

\* The row of a running item takes a state.
LEMMA RowTypesKept ==
  ASSUME RowTypes, NEW i \in Item, NEW s \in RowState, SetState(i, s),
         stored' \in [Item -> Seq(Cids)]
  PROVE  RowTypes'
<1>1. st \in [Item -> RowState] /\ disk \in [Item -> RowState]
  BY DEF RowTypes
<1> QED
  BY <1>1, SetStateFacts DEF RowTypes, SetState

\* A request that moves on from another.
LEMMA RequestTypes ==
  ASSUME NEW tracked \in Requests \cup {NoReply}, NEW untracked \in SUBSET Requests,
         NEW r \in Requests, SendRequest(r, tracked, untracked)
  PROVE  iaReply' \in Requests /\ strays' \in SUBSET Requests
BY DEF SendRequest

\* What is in flight, and what is left of it when a reply is there.
LEMMA FlightTypes ==
  ASSUME IaTypes, NEW r \in InFlight
  PROVE  /\ r \in Requests /\ Tracked(r) \in Requests \cup {NoReply}
         /\ Untracked(r) \in SUBSET Requests
BY DEF IaTypes, InFlight, Tracked, Untracked

LEMMA StopTypes ==
  ASSUME RowTypes, IaTypes, iaItem # Nobody, NEW s \in RowState,
         NEW tracked \in Requests \cup {NoReply}, NEW untracked \in SUBSET Requests,
         IaStop(s, tracked, untracked), iaUnverified' \in Nat
  PROVE  RowTypes' /\ IaTypes'
<1>1. iaItem \in Item
  BY Kinds DEF IaTypes
<1>2. RowTypes'
  BY <1>1, RowTypesKept DEF IaStop, RowTypes
<1>3. IaTypes'
  <2>1. <<>> \in Seq(Cids)
    BY EmptySeq
  <2> QED
    BY <2>1 DEF IaStop, IaTypes
<1> QED
  BY <1>2, <1>3

LEMMA NextFileTypes ==
  ASSUME RowTypes, IaTypes, iaItem # Nobody, NEW m \in IaItem \cup {Nobody}, NEW idx \in Nat,
         NEW cids \in Seq(Cids), NEW tmp \in BOOLEAN,
         NEW tracked \in Requests \cup {NoReply}, NEW untracked \in SUBSET Requests,
         IaNextFile(m, idx, cids, tmp, tracked, untracked), iaUnverified' \in Nat
  PROVE  RowTypes' /\ IaTypes'
<1>1. iaItem \in Item /\ iaItem \in IaItem /\ "mirrored" \in RowState
  BY Kinds, RowStates DEF IaTypes
<1>2. CASE idx >= FilesIn(m)
  <2>1. /\ iaIdx' = idx /\ iaItem' = Nobody /\ iaMan' = Nobody /\ iaCids' = <<>> /\ iaTmp' = tmp
        /\ iaReply' = tracked /\ strays' = untracked
        /\ SetStoredCids(iaItem, cids) /\ SetState(iaItem, "mirrored")
    BY <1>2 DEF IaNextFile
  <2>2. stored' \in [Item -> Seq(Cids)]
    BY <1>1, <2>1 DEF SetStoredCids, RowTypes
  <2>3. RowTypes'
    BY <1>1, <2>1, <2>2, RowTypesKept
  <2>4. <<>> \in Seq(Cids)
    BY EmptySeq
  <2>5. IaTypes'
    BY <2>1, <2>4 DEF IaTypes
  <2> QED
    BY <2>3, <2>5
<1>3. CASE ~(idx >= FilesIn(m))
  <2>1. /\ iaIdx' = idx /\ iaMan' = m /\ iaCids' = cids /\ iaTmp' = TRUE
        /\ SendRequest(Request(iaItem, m, idx + 1), tracked, untracked)
        /\ UNCHANGED <<iaItem, st, stored, disk>>
    BY <1>3 DEF IaNextFile
  <2>2. Request(iaItem, m, idx + 1) \in Requests
    BY <1>1 DEF Request, Requests
  <2>3. iaReply' \in Requests /\ strays' \in SUBSET Requests
    BY <2>1, <2>2, RequestTypes
  <2> QED
    BY <2>1, <2>3 DEF IaTypes, RowTypes
<1> QED
  BY <1>2, <1>3

\* Queueing the item that goes back to waiting.
LEMMA PendingQueueTypes ==
  ASSUME QueueTypes, IaTypes, iaItem # Nobody, auto' = auto,
         autoQueue' = autoQueue \/ autoQueue' = AppendNew(autoQueue, iaItem)
  PROVE  QueueTypes'
BY AppendNewProps, Kinds DEF QueueTypes, IaTypes

LEMMA ReplyDroppedTypes ==
  ASSUME RowTypes, QueueTypes, IaTypes, NEW r \in InFlight, ReplyDropped(r), auto' = auto
  PROVE  RowTypes' /\ QueueTypes' /\ IaTypes'
<1>1. Tracked(r) \in Requests \cup {NoReply} /\ Untracked(r) \in SUBSET Requests
  BY FlightTypes
<1> QED
  BY <1>1 DEF ReplyDropped, RowTypes, QueueTypes, IaTypes, rowVars

LEMMA TransferTypes ==
  ASSUME TypeOK, TransferEnds
  PROVE  TypeOK'
<1>0. /\ StorageTypeOK(Cids) /\ RowTypes /\ QueueTypes /\ IaTypes /\ ReseedTypes
      /\ held \in SUBSET Cids
  BY TypeParts
<1>1. PICK r \in InFlight :
        \/ FileFailed(r)
        \/ \E ok \in BOOLEAN : ManifestReply(r, ok) \/ FileDownloaded(r, ok)
  BY DEF TransferEnds
<1>2. /\ r \in Requests /\ Tracked(r) \in Requests \cup {NoReply}
      /\ Untracked(r) \in SUBSET Requests
  BY <1>0, <1>1, FlightTypes
<1>3. iaUnverified \in Nat /\ iaIdx \in Nat /\ iaCids \in Seq(Cids) /\ iaTmp \in BOOLEAN
  BY <1>0 DEF IaTypes
<1>4. ASSUME NEW s \in {"error", "pending"}, iaItem # Nobody,
             IaStop(s, Tracked(r), Untracked(r)), iaUnverified' \in Nat
      PROVE  RowTypes' /\ IaTypes'
  BY <1>0, <1>2, <1>4, StopTypes, RowStates
<1>5. CASE FileFailed(r)
  <2>1. UNCHANGED <<storageVars, auto, reseedVars, held>>
    BY <1>5 DEF FileFailed
  <2>2. RowTypes' /\ QueueTypes' /\ IaTypes'
    <3>1. CASE iaItem = Nobody
      BY <1>0, <1>1, <1>5, <2>1, <3>1, ReplyDroppedTypes DEF FileFailed
    <3>2. CASE iaItem # Nobody
      <4>1. /\ IaStop("error", Tracked(r), Untracked(r)) /\ autoQueue' = autoQueue
            /\ iaUnverified' = iaUnverified
        BY <1>5, <3>2 DEF FileFailed, IaFail
      <4> QED
        BY <1>0, <1>3, <1>4, <2>1, <3>2, <4>1, PendingQueueTypes
    <3> QED
      BY <3>1, <3>2
  <2> QED
    BY <1>0, <2>1, <2>2, SameStorage, TypePartsNext
<1>6. ASSUME NEW ok \in BOOLEAN, ManifestReply(r, ok) PROVE TypeOK'
  <2>1. UNCHANGED <<storageVars, auto, reseedVars, held>>
    BY <1>6 DEF ManifestReply
  <2>2. RowTypes' /\ QueueTypes' /\ IaTypes'
    <3>1. CASE iaItem = Nobody
      BY <1>0, <1>1, <1>6, <2>1, <3>1, ReplyDroppedTypes DEF ManifestReply
    <3>2. CASE iaItem # Nobody /\ ~ok
      <4>1. /\ IaStop("error", Tracked(r), Untracked(r)) /\ autoQueue' = autoQueue
            /\ iaUnverified' = iaUnverified
        BY <1>6, <3>2 DEF ManifestReply, IaFail
      <4> QED
        BY <1>0, <1>3, <1>4, <2>1, <3>2, <4>1, PendingQueueTypes
    <3>3. CASE iaItem # Nobody /\ ok
      <4>1. /\ IaNextFile(r.item, iaIdx, iaCids, iaTmp, Tracked(r), Untracked(r))
            /\ autoQueue' = autoQueue /\ iaUnverified' = iaUnverified
        BY <1>6, <3>3 DEF ManifestReply
      <4>2. r.item \in IaItem \cup {Nobody}
        BY <1>2 DEF Requests
      <4> QED
        BY <1>0, <1>2, <1>3, <2>1, <3>3, <4>1, <4>2, NextFileTypes, PendingQueueTypes
    <3> QED
      BY <3>1, <3>2, <3>3
  <2> QED
    BY <1>0, <2>1, <2>2, SameStorage, TypePartsNext
<1>7. ASSUME NEW good \in BOOLEAN, FileDownloaded(r, good) PROVE TypeOK'
  <2>1. UNCHANGED <<healthVars, auto, reseedVars, held>>
    BY <1>7 DEF FileDownloaded
  <2>2. Cid(r.man, r.file, good) \in Cids
    <3>1. r.man \in IaItem /\ r.file \in Nat
      BY <1>2, <1>7 DEF FileDownloaded, Requests
    <3> QED
      BY <3>1, Kinds DEF Cid, Cids
  <2>3. /\ RowTypes' /\ QueueTypes' /\ IaTypes'
        /\ \/ UNCHANGED slotVars
           \/ UploadAccepted(Cid(r.man, r.file, good))
           \/ UploadTimedOut(Cid(r.man, r.file, good))
    <3>1. CASE iaItem = Nobody
      <4>1. ReplyDropped(r) /\ UNCHANGED slotVars
        BY <1>7, <3>1 DEF FileDownloaded
      <4> QED
        BY <1>0, <1>1, <2>1, <4>1, ReplyDroppedTypes
    <3>2. CASE iaItem # Nobody /\ Mismatch(r, good)
      <4>1. /\ IaStop("error", Tracked(r), Untracked(r)) /\ autoQueue' = autoQueue
            /\ UNCHANGED <<slotVars, iaUnverified>>
        BY <1>7, <3>2 DEF FileDownloaded, IaFail
      <4> QED
        BY <1>0, <1>3, <1>4, <2>1, <3>2, <4>1, PendingQueueTypes
    <3>3. CASE iaItem # Nobody /\ ~Mismatch(r, good)
      <4>1. iaUnverified' = IF Unverified(r) THEN iaUnverified + 1 ELSE iaUnverified
        BY <1>7, <3>3 DEF FileDownloaded
      <4>2. iaUnverified' \in Nat
        BY <1>3, <4>1
      <4>3. \/ /\ UploadAccepted(Cid(r.man, r.file, good))
               /\ iaReply' = Tracked(r)
               /\ strays' = Untracked(r)
               /\ UNCHANGED <<rowVars, autoQueue, iaItem, iaMan, iaIdx, iaCids, iaTmp>>
            \/ /\ UploadFails(Cid(r.man, r.file, good))
               /\ IaStop("pending", Tracked(r), Untracked(r))
               /\ autoQueue' = AppendNew(autoQueue, iaItem)
        BY <1>7, <3>3 DEF FileDownloaded, IaPending
      <4>4. CASE /\ UploadAccepted(Cid(r.man, r.file, good))
                 /\ iaReply' = Tracked(r)
                 /\ strays' = Untracked(r)
                 /\ UNCHANGED <<rowVars, autoQueue, iaItem, iaMan, iaIdx, iaCids, iaTmp>>
        BY <1>0, <1>2, <2>1, <4>2, <4>4 DEF RowTypes, QueueTypes, IaTypes, rowVars
      <4>5. CASE /\ UploadFails(Cid(r.man, r.file, good))
                 /\ IaStop("pending", Tracked(r), Untracked(r))
                 /\ autoQueue' = AppendNew(autoQueue, iaItem)
        <5>1. UNCHANGED slotVars \/ UploadTimedOut(Cid(r.man, r.file, good))
          BY <4>5, FailedUpload
        <5>2. RowTypes' /\ IaTypes'
          BY <1>4, <3>3, <4>2, <4>5
        <5>3. QueueTypes'
          BY <1>0, <2>1, <3>3, <4>5, PendingQueueTypes
        <5> QED
          BY <5>1, <5>2, <5>3
      <4> QED
        BY <4>3, <4>4, <4>5
    <3> QED
      BY <3>1, <3>2, <3>3
  <2> QED
    BY <1>0, <2>1, <2>2, <2>3, SlotTypes, TypePartsNext
<1> QED
  BY <1>1, <1>5, <1>6, <1>7

\* The handler of an upload that ended.
LEMMA FinishedTypes ==
  ASSUME RowTypes, QueueTypes, IaTypes, ReseedTypes, NEW c \in Cids, NEW ok \in BOOLEAN,
         UploadFinished(ok, c), iaUnverified' = iaUnverified, auto' = auto
  PROVE  /\ RowTypes' /\ QueueTypes' /\ IaTypes'
         /\ reseedItem' \in {reseedItem, Nobody} /\ reseedLeft' = reseedLeft
<1>0. /\ iaIdx + 1 \in Nat /\ iaUnverified' \in Nat /\ iaMan \in IaItem \cup {Nobody}
      /\ iaReply \in Requests \cup {NoReply} /\ strays \in SUBSET Requests
      /\ "pending" \in RowState
  BY RowStates DEF IaTypes
<1>1. CASE iaItem # Nobody
  <2>1. UNCHANGED <<reseedItem, reseedLeft>>
    BY <1>1 DEF UploadFinished
  <2>2. CASE ok
    <3>1. /\ IaNextFile(iaMan, iaIdx + 1, Append(iaCids, c), FALSE, iaReply, strays)
          /\ autoQueue' = autoQueue
      BY <1>1, <2>2 DEF UploadFinished
    <3>2. Append(iaCids, c) \in Seq(Cids)
      BY AppendProperties DEF IaTypes
    <3>3. RowTypes' /\ IaTypes'
      BY <1>0, <1>1, <3>1, <3>2, NextFileTypes
    <3> QED
      BY <1>1, <2>1, <3>1, <3>3, PendingQueueTypes
  <2>3. CASE ~ok
    <3>1. IaStop("pending", iaReply, strays) /\ autoQueue' = AppendNew(autoQueue, iaItem)
      BY <1>1, <2>3 DEF UploadFinished, IaPending
    <3>2. RowTypes' /\ IaTypes'
      BY <1>0, <1>1, <3>1, StopTypes
    <3> QED
      BY <1>1, <2>1, <3>1, <3>2, PendingQueueTypes
  <2> QED
    BY <2>2, <2>3
<1>2. CASE iaItem = Nobody
  <2>1. /\ UNCHANGED <<iaItem, iaMan, iaIdx, iaCids, iaTmp, iaReply, strays>>
        /\ UNCHANGED <<stored, autoQueue, reseedLeft>>
        /\ IF reseedItem # Nobody
           THEN /\ reseedItem' = Nobody
                /\ SetState(reseedItem, IF ok THEN "mirrored" ELSE "error")
           ELSE UNCHANGED <<reseedItem, st, disk>>
    BY <1>2 DEF UploadFinished
  <2>2. IaTypes' /\ QueueTypes'
    BY <1>0, <2>1 DEF IaTypes, QueueTypes
  <2>3. RowTypes'
    <3>1. CASE reseedItem # Nobody
      <4>1. reseedItem \in Item /\ (IF ok THEN "mirrored" ELSE "error") \in RowState
        BY <3>1, Kinds, RowStates DEF ReseedTypes
      <4> QED
        BY <2>1, <3>1, <4>1, RowTypesKept DEF RowTypes
    <3>2. CASE reseedItem = Nobody
      BY <2>1, <3>2 DEF RowTypes
    <3> QED
      BY <3>1, <3>2
  <2> QED
    BY <2>1, <2>2, <2>3
<1> QED
  BY <1>1, <1>2

\* TypeOK after a step that touches the reseed machine.
LEMMA TypePartsAll ==
  ASSUME StorageTypeOK(Cids)', RowTypes', QueueTypes', IaTypes', ReseedTypes',
         held' \in SUBSET Cids
  PROVE  TypeOK'
BY DEF TypeOK, RowTypes, QueueTypes, IaTypes, ReseedTypes

LEMMA ReseedAllTypes ==
  ASSUME TypeOK, NEW i \in reseedReplies,
         \/ ReseedFailed(i) \/ ReseedProgress(i)
         \/ \E good \in BOOLEAN : ReseedDownloaded(i, good)
  PROVE  TypeOK'
<1>0. /\ StorageTypeOK(Cids) /\ RowTypes /\ QueueTypes /\ IaTypes /\ ReseedTypes
      /\ held \in SUBSET Cids
  BY TypeParts
<1>1. i \in Item /\ i \in CidItem /\ "error" \in RowState /\ "mirroring" \in RowState
  BY <1>0, Kinds, RowStates DEF ReseedTypes
<1>2. CASE ReseedFailed(i) \/ ReseedProgress(i)
  <2>1. UNCHANGED <<storageVars, stored, queueVars, iaVars, held>>
    BY <1>2 DEF ReseedFailed, ReseedProgress
  <2>2. UNCHANGED <<st, disk>> \/ SetState(i, "error") \/ SetState(i, "mirroring")
    BY <1>2 DEF ReseedFailed, ReseedProgress
  <2>3. RowTypes'
    <3>1. stored' \in [Item -> Seq(Cids)]
      BY <1>0, <2>1 DEF RowTypes
    <3>2. CASE UNCHANGED <<st, disk>>
      BY <1>0, <3>1, <3>2 DEF RowTypes
    <3> QED
      BY <1>0, <1>1, <2>2, <3>1, <3>2, RowTypesKept
  <2>4. ReseedTypes'
    <3>1. CASE ReseedProgress(i)
      BY <1>0, <3>1 DEF ReseedProgress, ReseedTypes, reseedVars
    <3>2. CASE ReseedFailed(i)
      BY <1>0, <3>2 DEF ReseedFailed, ReseedTypes
    <3> QED
      BY <1>2, <3>1, <3>2
  <2>5. QueueTypes' /\ IaTypes' /\ held' = held
    BY <1>0, <2>1 DEF QueueTypes, IaTypes, queueVars, iaVars
  <2>6. StorageTypeOK(Cids)'
    BY <1>0, <2>1, SameStorage
  <2> QED
    BY <1>0, <2>3, <2>4, <2>5, <2>6, TypePartsAll
<1>3. ASSUME NEW good \in BOOLEAN, ReseedDownloaded(i, good) PROVE TypeOK'
  <2> DEFINE c == Cid(i, 0, good)
  <2>1. c \in Cids
    BY <1>1 DEF Cid, Cids
  <2>2. /\ reseedReplies' = reseedReplies \ {i} /\ UNCHANGED <<healthVars, auto, held>>
        /\ \/ /\ UploadAccepted(c)
              /\ UNCHANGED <<rowVars, autoQueue, iaVars, reseedItem, reseedLeft>>
           \/ UploadFails(c) /\ UploadFinished(FALSE, c) /\ iaUnverified' = iaUnverified
    BY <1>3 DEF ReseedDownloaded
  <2> HIDE DEF c
  <2>3. /\ RowTypes' /\ QueueTypes' /\ IaTypes'
        /\ reseedItem' \in {reseedItem, Nobody} /\ reseedLeft' = reseedLeft
    <3>1. CASE UNCHANGED <<rowVars, autoQueue, iaVars, reseedItem, reseedLeft>>
      BY <1>0, <2>2, <3>1 DEF RowTypes, QueueTypes, IaTypes, rowVars, iaVars
    <3>2. CASE UploadFinished(FALSE, c) /\ iaUnverified' = iaUnverified
      BY <1>0, <2>1, <2>2, <3>2, FinishedTypes
    <3> QED
      BY <2>2, <3>1, <3>2
  <2>4. ReseedTypes'
    BY <1>0, <2>2, <2>3 DEF ReseedTypes
  <2>5. StorageTypeOK(Cids)'
    <3>1. UNCHANGED slotVars \/ UploadAccepted(c) \/ UploadTimedOut(c)
      BY <2>2, FailedUpload
    <3> QED
      BY <1>0, <2>1, <2>2, <3>1, SlotTypes
  <2> QED
    BY <1>0, <2>2, <2>3, <2>4, <2>5, TypePartsAll
<1> QED
  BY <1>2, <1>3

LEMMA UploadTypes ==
  ASSUME TypeOK, NEW c \in nodeUploads,
         UploadDoneLost(c) \/ \E ok \in BOOLEAN : UploadDone(c, ok)
  PROVE  TypeOK'
<1>0. /\ StorageTypeOK(Cids) /\ RowTypes /\ QueueTypes /\ IaTypes /\ ReseedTypes
      /\ held \in SUBSET Cids
  BY TypeParts
<1>1. c \in Cids
  BY <1>0 DEF StorageTypeOK
<1>2. CASE UploadDoneLost(c)
  <2>1. /\ nodeUploads' = nodeUploads \ {c} /\ held' = held \cup {c}
        /\ UNCHANGED <<healthVars, uploading, rowVars, queueVars, iaVars, reseedVars>>
    BY <1>2 DEF UploadDoneLost
  <2>2. StorageTypeOK(Cids)'
    BY <1>0, <1>1, <2>1, SlotTypes
  <2>3. RowTypes' /\ QueueTypes' /\ IaTypes'
    BY <1>0, <2>1 DEF RowTypes, QueueTypes, IaTypes, rowVars, queueVars, iaVars
  <2> QED
    BY <1>0, <1>1, <2>1, <2>2, <2>3, TypePartsNext
<1>3. ASSUME NEW ok \in BOOLEAN, UploadDone(c, ok) PROVE TypeOK'
  <2>1. /\ UploadDoneEvent(c) /\ held' = IF ok THEN held \cup {c} ELSE held
        /\ UNCHANGED <<healthVars, auto>>
        /\ \/ UploadFinished(ok, c) /\ UNCHANGED <<iaUnverified, reseedReplies>>
           \/ UNCHANGED <<rowVars, iaVars, reseedVars, autoQueue>>
    BY <1>3 DEF UploadDone
  <2>2. StorageTypeOK(Cids)' /\ held' \in SUBSET Cids
    BY <1>0, <1>1, <2>1, SlotTypes
  <2>3. CASE UNCHANGED <<rowVars, iaVars, reseedVars, autoQueue>>
    <3>1. RowTypes' /\ QueueTypes' /\ IaTypes' /\ UNCHANGED reseedVars
      BY <1>0, <2>1, <2>3 DEF RowTypes, QueueTypes, IaTypes, rowVars, iaVars
    <3> QED
      BY <1>0, <2>2, <3>1, TypePartsNext
  <2>4. CASE UploadFinished(ok, c) /\ UNCHANGED <<iaUnverified, reseedReplies>>
    <3>1. /\ RowTypes' /\ QueueTypes' /\ IaTypes'
          /\ reseedItem' \in {reseedItem, Nobody} /\ reseedLeft' = reseedLeft
      BY <1>0, <1>1, <2>1, <2>4, FinishedTypes
    <3>2. ReseedTypes'
      BY <1>0, <2>4, <3>1 DEF ReseedTypes
    <3> QED
      BY <2>2, <3>1, <3>2, TypePartsAll
  <2> QED
    BY <2>1, <2>3, <2>4
<1> QED
  BY <1>2, <1>3

\* Another consumer's event names a CID, if not one of ours.
LEMMA ForeignTypes ==
  ASSUME TypeOK, NEW ok \in BOOLEAN, ForeignDone(ok)
  PROVE  TypeOK'
<1>0. /\ StorageTypeOK(Cids) /\ RowTypes /\ QueueTypes /\ IaTypes /\ ReseedTypes
      /\ held \in SUBSET Cids
  BY TypeParts
<1>1. ForeignCid \in Cids
  BY DEF ForeignCid, Cid, Cids
<1>2. /\ uploading' = FALSE /\ UNCHANGED <<nodeUploads, healthVars, auto, held>>
      /\ \/ UploadFinished(ok, ForeignCid) /\ UNCHANGED <<iaUnverified, reseedReplies>>
         \/ UNCHANGED <<rowVars, iaVars, reseedVars, autoQueue>>
  BY DEF ForeignDone, ForeignUploadDone
<1>3. StorageTypeOK(Cids)'
  BY <1>0, <1>2 DEF StorageTypeOK, healthVars
<1>4. CASE UNCHANGED <<rowVars, iaVars, reseedVars, autoQueue>>
  <2>1. RowTypes' /\ QueueTypes' /\ IaTypes' /\ UNCHANGED reseedVars
    BY <1>0, <1>2, <1>4 DEF RowTypes, QueueTypes, IaTypes, rowVars, iaVars
  <2> QED
    BY <1>0, <1>2, <1>3, <2>1, TypePartsNext
<1>5. CASE UploadFinished(ok, ForeignCid) /\ UNCHANGED <<iaUnverified, reseedReplies>>
  <2>1. /\ RowTypes' /\ QueueTypes' /\ IaTypes'
        /\ reseedItem' \in {reseedItem, Nobody} /\ reseedLeft' = reseedLeft
    BY <1>0, <1>1, <1>2, <1>5, FinishedTypes
  <2>2. ReseedTypes'
    BY <1>0, <1>5, <2>1 DEF ReseedTypes
  <2> QED
    BY <1>0, <1>2, <1>3, <2>1, <2>2, TypePartsAll
<1> QED
  BY <1>2, <1>4, <1>5

\* mirrorItem on tables of the right kind.
LEMMA MirrorTypes ==
  ASSUME RowTypes, IaTypes, ReseedTypes, held \in SUBSET Cids,
         NEW rows \in [Item -> RowState], NEW file \in [Item -> RowState],
         NEW i \in Item, MirrorItem(i, rows, file)
  PROVE  RowTypes' /\ IaTypes' /\ ReseedTypes' /\ held' \in SUBSET Cids
<1>0. "mirroring" \in RowState /\ "mirrored" \in RowState /\ "error" \in RowState
  BY RowStates
<1>1. CASE i \in IaItem
  <2>1. StartIaPreserve(i, rows, file)
    BY <1>1 DEF MirrorItem
  <2>2. Request(i, Nobody, 0) \in Requests
    BY <1>1 DEF Request, Requests
  <2>3. iaReply' \in Requests /\ strays' \in SUBSET Requests
    BY <2>1, <2>2, RequestTypes DEF StartIaPreserve, IaTypes
  <2>4. <<>> \in Seq(Cids)
    BY EmptySeq
  <2>5. /\ iaItem' = i /\ iaMan' = Nobody /\ iaIdx' = 0 /\ iaUnverified' = 0 /\ iaCids' = <<>>
        /\ UNCHANGED <<iaTmp, stored, reseedVars, held>>
        /\ SetStateIn(rows, file, i, "mirroring")
    BY <2>1 DEF StartIaPreserve
  <2>6. IaTypes'
    BY <1>1, <2>3, <2>4, <2>5 DEF IaTypes
  <2>7. RowTypes'
    BY <1>0, <2>5, SetStateFacts DEF RowTypes
  <2> QED
    BY <2>5, <2>6, <2>7 DEF ReseedTypes, reseedVars
<1>2. CASE i \notin IaItem
  <2>1. MirrorCidRow(i, rows, file) /\ i \in CidItem
    BY <1>2, Kinds DEF MirrorItem
  <2>2. UNCHANGED <<iaVars, stored>>
    BY <2>1 DEF MirrorCidRow
  <2>3. \E s \in {"mirroring", "mirrored", "error"} : SetStateIn(rows, file, i, s)
    BY <2>1 DEF MirrorCidRow, StartReseed
  <2>4. RowTypes'
    BY <1>0, <2>2, <2>3, SetStateFacts DEF RowTypes
  <2>5. held' = held \/ held' = held \cup {InscribedCid(i)}
    BY <2>1 DEF MirrorCidRow
  <2>6. InscribedCid(i) \in Cids
    BY DEF InscribedCid, Cid, Cids
  <2>7. ReseedTypes'
    <3>1. Candidates[i] \in Nat
      BY <2>1, PreserveAssumption DEF PreserveAssumption
    <3>2. \/ UNCHANGED reseedVars
          \/ /\ reseedItem' = i /\ reseedLeft' = Candidates[i] - 1 /\ Candidates[i] # 0
             /\ reseedReplies' = reseedReplies \cup {i}
      BY <2>1 DEF MirrorCidRow, StartReseed
    <3> QED
      BY <2>1, <3>1, <3>2 DEF ReseedTypes, reseedVars
  <2>8. IaTypes'
    BY <2>2 DEF IaTypes, iaVars
  <2> QED
    BY <2>4, <2>5, <2>6, <2>7, <2>8
<1> QED
  BY <1>1, <1>2

LEMMA DrainTypes ==
  ASSUME TypeOK, NEW q \in Seq(Item), NEW rows \in [Item -> RowState],
         NEW file \in [Item -> RowState], NEW health,
         DrainAutoQueue(q, rows, file, health), StorageTypeOK(Cids)', auto' \in BOOLEAN
  PROVE  TypeOK'
<1>0. /\ RowTypes /\ IaTypes /\ ReseedTypes /\ held \in SUBSET Cids
  BY TypeParts
<1> DEFINE ready == {k \in DOMAIN q : Startable(q[k], rows)}
           first == CHOOSE k \in ready : \A j \in ready : k <= j
<1>1. CASE Idle /\ health = "ready" /\ ready # {}
  <2>1. /\ MirrorItem(q[first], rows, file)
        /\ autoQueue' = SubSeq(q, first + 1, Len(q))
    BY <1>1 DEF DrainAutoQueue
  <2>2. first \in ready
    BY <1>1, FirstPosition
  <2>3. first \in DOMAIN q /\ q[first] \in Item
    BY <2>2 DEF Startable
  <2> HIDE DEF first, ready
  <2>4. autoQueue' \in Seq(Item)
    BY <2>1, <2>3, RestType
  <2>5. RowTypes' /\ IaTypes' /\ ReseedTypes' /\ held' \in SUBSET Cids
    BY <1>0, <2>1, <2>3, MirrorTypes
  <2>6. QueueTypes'
    BY <2>4 DEF QueueTypes
  <2> QED
    BY <2>5, <2>6, TypePartsAll
<1>2. CASE ~(Idle /\ health = "ready" /\ ready # {})
  <2>1. /\ autoQueue' \in {<<>>, q} /\ st' = rows /\ disk' = file
        /\ UNCHANGED <<stored, iaVars, reseedVars, held>>
    BY <1>2 DEF DrainAutoQueue
  <2> HIDE DEF first, ready
  <2>2. QueueTypes'
    BY <2>1, EmptySeq DEF QueueTypes
  <2>3. RowTypes' /\ IaTypes' /\ ReseedTypes' /\ held' \in SUBSET Cids
    BY <1>0, <2>1 DEF RowTypes, IaTypes, ReseedTypes, iaVars, reseedVars
  <2> QED
    BY <2>2, <2>3, TypePartsAll
<1> QED
  BY <1>1, <1>2

\* A row's unpreserve or abort: the row, the queue and what is held.
LEMMA UnmirrorTypes ==
  ASSUME TypeOK, NEW i \in Item, Unmirror(i)
  PROVE  TypeOK'
<1>0. /\ StorageTypeOK(Cids) /\ RowTypes /\ QueueTypes /\ IaTypes /\ ReseedTypes
      /\ held \in SUBSET Cids
  BY TypeParts
<1>1. /\ UNCHANGED <<storageVars, queueVars, iaVars, reseedVars>> /\ held' \subseteq held
      /\ \E s \in {"available", "error"}, left \in {<<>>, stored[i]} :
           SetStoredCids(i, left) /\ SetState(i, s)
  BY DEF Unmirror
<1>2. PICK s \in {"available", "error"}, left \in {<<>>, stored[i]} :
        SetStoredCids(i, left) /\ SetState(i, s)
  BY <1>1
<1>3. left \in Seq(Cids)
  BY <1>0, EmptySeq DEF RowTypes
<1>4. stored' \in [Item -> Seq(Cids)]
  BY <1>0, <1>2, <1>3 DEF SetStoredCids, RowTypes
<1>5. RowTypes'
  BY <1>0, <1>2, <1>4, RowTypesKept, RowStates
<1>6. QueueTypes' /\ IaTypes'
  BY <1>0, <1>1 DEF QueueTypes, IaTypes, queueVars, iaVars
<1> QED
  BY <1>0, <1>1, <1>5, <1>6, SameStorage, TypePartsNext

LEMMA AbortTypes ==
  ASSUME TypeOK, NEW i \in Item, Abort(i)
  PROVE  TypeOK'
<1>0. /\ StorageTypeOK(Cids) /\ RowTypes /\ QueueTypes /\ IaTypes /\ ReseedTypes
      /\ held \in SUBSET Cids
  BY TypeParts
<1>1. QueueTypes'
  BY <1>0, WithoutType DEF QueueTypes, Abort
<1>2. IaTypes'
  BY <1>0, EmptySeq DEF IaTypes, Abort
<1>3. stored' \in [Item -> Seq(Cids)] /\ SetState(i, "available")
  BY <1>0 DEF Abort, RowTypes
<1>4. RowTypes'
  BY <1>0, <1>3, RowTypesKept, RowStates
<1> QED
  BY <1>0, <1>1, <1>2, <1>4, SameStorage, TypePartsNext DEF Abort

\* Rows that are forgotten.
LEMMA ForgetTypes ==
  ASSUME TypeOK, (\E i \in Item : Remove(i)) \/ UnfollowChannel \/ RemoveAllItems
  PROVE  TypeOK'
<1>0. /\ StorageTypeOK(Cids) /\ RowTypes /\ QueueTypes /\ IaTypes /\ ReseedTypes
      /\ held \in SUBSET Cids /\ <<>> \in Seq(Item) /\ <<>> \in Seq(Cids) /\ "gone" \in RowState
  BY TypeParts, EmptySeq, RowStates
<1>1. UNCHANGED <<storageVars, iaVars, reseedVars, held>>
  BY DEF Remove, UnfollowChannel, RemoveAllItems, ForgetChannel
<1>2. QueueTypes'
  BY <1>0 DEF Remove, UnfollowChannel, RemoveAllItems, ForgetChannel, QueueTypes, queueVars
<1>3. RowTypes'
  BY <1>0 DEF Remove, UnfollowChannel, RemoveAllItems, ForgetChannel, RowTypes
<1>4. IaTypes'
  BY <1>0, <1>1 DEF IaTypes, iaVars
<1> QED
  BY <1>0, <1>1, <1>2, <1>3, <1>4, SameStorage, TypePartsNext

\* The channel's queue with some of its rows added.
LEMMA LongerQueue ==
  ASSUME TypeOK, NEW S \in SUBSET Item, NEW new \in Orders(S)
  PROVE  autoQueue \o new \in Seq(Item)
BY OrdersType, PreserveAssumption, ConcatProperties DEF TypeOK

LEMMA SetAutoTypes ==
  ASSUME TypeOK, NEW on \in BOOLEAN, SetAutoPreserve(on)
  PROVE  TypeOK'
<1>0. /\ StorageTypeOK(Cids) /\ RowTypes /\ QueueTypes /\ IaTypes /\ ReseedTypes
      /\ held \in SUBSET Cids
  BY TypeParts
<1>1. auto' \in BOOLEAN /\ UNCHANGED storageVars
  BY DEF SetAutoPreserve
<1>2. StorageTypeOK(Cids)'
  BY <1>0, <1>1, SameStorage
<1>3. CASE on
  <2> DEFINE wanted == {i \in Item \ (Oversize \cup Elems(autoQueue)) :
                          st[i] \in {"available", "error"}}
  <2>1. PICK new \in Orders(wanted) : DrainAutoQueue(autoQueue \o new, st, st, storageState)
    BY <1>3 DEF SetAutoPreserve
  <2>2. wanted \in SUBSET Item
    OBVIOUS
  <2> HIDE DEF wanted
  <2>3. autoQueue \o new \in Seq(Item)
    BY <2>2, LongerQueue
  <2>4. st \in [Item -> RowState]
    BY <1>0 DEF RowTypes
  <2> QED
    BY <1>1, <1>2, <2>1, <2>3, <2>4, DrainTypes
<1>4. CASE ~on
  <2>1. disk' = st /\ UNCHANGED <<st, stored, autoQueue, iaVars, reseedVars, held>>
    BY <1>4 DEF SetAutoPreserve
  <2>2. RowTypes' /\ QueueTypes' /\ IaTypes'
    BY <1>0, <1>1, <2>1 DEF RowTypes, QueueTypes, IaTypes, iaVars
  <2> QED
    BY <1>0, <1>2, <2>1, <2>2, TypePartsNext
<1> QED
  BY <1>3, <1>4

LEMMA UserTypes ==
  ASSUME TypeOK, UserCall
  PROVE  TypeOK'
<1>0. /\ StorageTypeOK(Cids) /\ RowTypes /\ QueueTypes /\ IaTypes /\ ReseedTypes
      /\ held \in SUBSET Cids
  BY TypeParts
<1>1. ASSUME NEW i \in Item, Mirror(i) PROVE TypeOK'
  <2>1. MirrorItem(i, st, disk) /\ UNCHANGED <<storageVars, queueVars>>
    BY <1>1 DEF Mirror
  <2>2. st \in [Item -> RowState] /\ disk \in [Item -> RowState]
    BY <1>0 DEF RowTypes
  <2>3. RowTypes' /\ IaTypes' /\ ReseedTypes' /\ held' \in SUBSET Cids
    BY <1>0, <2>1, <2>2, MirrorTypes
  <2>4. StorageTypeOK(Cids)' /\ QueueTypes'
    BY <1>0, <2>1, SameStorage DEF QueueTypes, queueVars
  <2> QED
    BY <2>3, <2>4, TypePartsAll
<1> QED
  BY <1>1, UnmirrorTypes, AbortTypes, ForgetTypes, SetAutoTypes DEF UserCall

LEMMA BackgroundTypes ==
  ASSUME TypeOK, Background \/ BroughtUp \/ NodeStarted
  PROVE  TypeOK'
<1>0. /\ StorageTypeOK(Cids) /\ RowTypes /\ QueueTypes /\ IaTypes /\ ReseedTypes
      /\ held \in SUBSET Cids /\ st \in [Item -> RowState] /\ disk \in [Item -> RowState]
      /\ auto \in BOOLEAN /\ autoQueue \in Seq(Item)
  BY TypeParts DEF TypeOK
<1>1. CASE BringUp \/ BroughtUp \/ NodeStarted
  <2>1. StorageTypeOK(Cids)' /\ ElsewhereUnchanged
    BY <1>0, <1>1 DEF BringUp, BroughtUp, NodeStarted, ElsewhereUnchanged, slotVars,
       StorageTypeOK, InitStorage, InitReply, StorageStart, InitInFlight, InitAnswer, StorageState
  <2>2. RowTypes' /\ QueueTypes' /\ IaTypes'
    BY <1>0, <2>1 DEF ElsewhereUnchanged, RowTypes, QueueTypes, IaTypes, rowVars, queueVars,
                      iaVars
  <2> QED
    BY <1>0, <2>1, <2>2, TypePartsNext DEF ElsewhereUnchanged
<1>2. ASSUME NEW ok \in BOOLEAN, HealthTick(ok) PROVE TypeOK'
  <2>1. DrainAutoQueue(autoQueue, st, disk, storageState') /\ auto' = auto
    BY <1>2 DEF HealthTick
  <2>2. StorageTypeOK(Cids)'
    BY <1>0, <1>2 DEF HealthTick, healthVars, slotVars, PollHealth, Pinged, StorageTypeOK,
                      StorageState
  <2> QED
    BY <1>0, <2>1, <2>2, DrainTypes
<1>3. ASSUME NEW S \in SUBSET Item, Discover(S) PROVE TypeOK'
  <2> DEFINE rows == [i \in Item |-> IF i \in S THEN "available" ELSE st[i]]
             wanted == IF auto THEN S \ (Oversize \cup Elems(autoQueue)) ELSE {}
  <2>1. /\ UNCHANGED <<storageVars, auto>>
        /\ \E new \in Orders(wanted) : DrainAutoQueue(autoQueue \o new, rows, disk, storageState)
    BY <1>3 DEF Discover
  <2>2. rows \in [Item -> RowState] /\ wanted \in SUBSET Item
    BY <1>0, RowStates
  <2> HIDE DEF rows, wanted
  <2>3. PICK new \in Orders(wanted) : DrainAutoQueue(autoQueue \o new, rows, disk, storageState)
    BY <2>1
  <2>4. autoQueue \o new \in Seq(Item)
    BY <2>2, LongerQueue
  <2>5. StorageTypeOK(Cids)'
    BY <1>0, <2>1, SameStorage
  <2> QED
    BY <1>0, <2>1, <2>2, <2>3, <2>4, <2>5, DrainTypes
<1>4. CASE ScanSaved
  <2>1. RowTypes' /\ QueueTypes' /\ IaTypes'
    BY <1>0, <1>4 DEF ScanSaved, RowTypes, QueueTypes, IaTypes, queueVars, iaVars
  <2> QED
    BY <1>0, <1>4, <2>1, SameStorage, TypePartsNext DEF ScanSaved
<1>5. CASE Restart
  <2>1. <<>> \in Seq(Item) /\ <<>> \in Seq(Cids)
    BY EmptySeq
  <2>2. StorageTypeOK(Cids)' /\ QueueTypes'
    BY <1>0, <1>5, <2>1 DEF Restart, StorageRestart, StorageTypeOK, StorageState, QueueTypes
  <2>3. IaTypes' /\ ReseedTypes'
    BY <1>5, <2>1 DEF Restart, IaTypes, ReseedTypes
  <2>4. RowTypes' /\ held' \in SUBSET Cids
    <3>1. \A s \in RowState : Loaded(s) \in RowState
      BY RowStates DEF Loaded
    <3> QED
      BY <1>0, <1>5, <3>1 DEF Restart, RowTypes
  <2> QED
    BY <2>2, <2>3, <2>4, TypePartsAll
<1> QED
  BY <1>1, <1>2, <1>3, <1>4, <1>5 DEF Background

LEMMA ProgressTypes ==
  ASSUME TypeOK, NEW r \in InFlight, IaProgress(r)
  PROVE  TypeOK'
<1>0. /\ StorageTypeOK(Cids) /\ RowTypes /\ QueueTypes /\ IaTypes /\ ReseedTypes
      /\ held \in SUBSET Cids
  BY TypeParts
<1>1. /\ iaItem = r.item /\ SetState(iaItem, "mirroring")
      /\ UNCHANGED <<storageVars, stored, queueVars, iaVars, reseedVars, held>>
  BY DEF IaProgress
<1>2. iaItem \in Item
  BY <1>0, <1>1, FlightTypes, Kinds DEF Requests
<1>3. RowTypes'
  BY <1>0, <1>1, <1>2, RowTypesKept, RowStates DEF RowTypes
<1>4. QueueTypes' /\ IaTypes'
  BY <1>0, <1>1 DEF QueueTypes, IaTypes, queueVars, iaVars
<1> QED
  BY <1>0, <1>1, <1>3, <1>4, SameStorage, TypePartsNext

\* Every step keeps the types, with nothing assumed of the user.
LEMMA AnyUseTypeStep ==
  ASSUME TypeOK, [Next]_vars
  PROVE  TypeOK'
<1>1. CASE UNCHANGED vars
  BY <1>1 DEF vars, storageVars, rowVars, queueVars, iaVars, reseedVars, TypeOK, StorageTypeOK
<1> QED
  BY <1>1, TransferTypes, ReseedAllTypes, UploadTypes, ForeignTypes, ProgressTypes,
     BackgroundTypes, UserTypes
     DEF Next, Environment, Background, ReseedTransferEnds, UploadEnds

LEMMA InitTypes ==
  ASSUME Init
  PROVE  TypeOK
<1>1. <<>> \in Seq(Item) /\ <<>> \in Seq(Cids)
  BY EmptySeq
<1>2. StorageTypeOK(Cids) /\ QueueTypes
  BY <1>1 DEF Init, StorageInit, StorageTypeOK, StorageState, QueueTypes
<1>3. RowTypes
  BY <1>1, RowStates DEF Init, RowTypes
<1>4. IaTypes /\ ReseedTypes /\ held \in SUBSET Cids
  BY <1>1 DEF Init, IaTypes, ReseedTypes
<1> QED
  BY <1>2, <1>3, <1>4, TypeParts

\* Whatever the user does and whatever gets lost, the state keeps its shape: no CID,
\* request or queue entry names what is not there.
THEOREM AnyUseTypes == Spec => []TypeOK
<1>1. Init => TypeOK
  BY InitTypes
<1>2. TypeOK /\ [Next]_vars => TypeOK'
  BY AnyUseTypeStep
<1> QED
  BY <1>1, <1>2, PTL DEF Spec

-----------------------------------------------------------------------------
(* The queue, without restarts.                                             *)

\* The rows that wait for a retry are queued.
Awaited(rows, q) == \A i \in Item : rows[i] = "pending" => i \in Elems(q)

\* The rows and the queue: what keeps a pending row from being forgotten.
QueueInv == st \in [Item -> RowState] /\ PendingIsQueued

\* A call for a row reaches no other, and one that is gone stays gone.
LEMMA RowSet ==
  ASSUME NEW rows \in [Item -> RowState], NEW file, NEW i \in Item, NEW s \in RowState,
         SetStateIn(rows, file, i, s)
  PROVE  /\ st' \in [Item -> RowState]
         /\ \A j \in Item : st'[j] = IF j = i /\ rows[j] # "gone" THEN s ELSE rows[j]
BY DEF SetStateIn

\* A row that waits is queued, and nothing leaves the queue.
LEMMA QueueGrows ==
  ASSUME QueueInv, st' \in [Item -> RowState],
         \A j \in Elems(autoQueue) : j \in Elems(autoQueue'),
         \A j \in Item : st'[j] = "pending" => st[j] = "pending" \/ j \in Elems(autoQueue')
  PROVE  QueueInv'
<1>1. \A j \in Item : st'[j] = "pending" => j \in Elems(autoQueue')
  BY DEF QueueInv, PendingIsQueued
<1>2. PendingIsQueued'
  BY <1>1 DEF PendingIsQueued, Elems
<1> QED
  BY <1>2 DEF QueueInv

\* A step that leaves the rows and the queue.
LEMMA QueueSame ==
  ASSUME QueueInv, UNCHANGED <<st, autoQueue>>
  PROVE  QueueInv'
BY DEF QueueInv, PendingIsQueued

\* A step that gives one row another state, and queues it when it is to wait.
LEMMA QueueOneRow ==
  ASSUME QueueInv, OwnerTypes, NEW i \in Item, NEW s \in RowState, SetState(i, s),
         \/ s # "pending" /\ autoQueue' = autoQueue
         \/ autoQueue' = AppendNew(autoQueue, i)
  PROVE  QueueInv'
<1>1. /\ st' \in [Item -> RowState]
      /\ \A j \in Item : st'[j] = "pending" => st[j] = "pending" \/ (j = i /\ s = "pending")
  BY RowSet DEF SetState, QueueInv
<1>2. Elems(AppendNew(autoQueue, i)) = Elems(autoQueue) \cup {i}
  BY AppendNewProps DEF OwnerTypes
<1>3. \/ s # "pending" /\ Elems(autoQueue') = Elems(autoQueue)
      \/ Elems(autoQueue') = Elems(autoQueue) \cup {i}
  BY <1>2
<1> QED
  BY <1>1, <1>3, QueueGrows

\* mirrorItem takes its row out of the states that wait or can be started.
LEMMA MirrorTakes ==
  ASSUME NEW rows \in [Item -> RowState], NEW file, NEW i \in Item, MirrorItem(i, rows, file)
  PROVE  /\ st' \in [Item -> RowState] /\ st'[i] \notin {"available", "pending"}
         /\ \A j \in Item : j # i => st'[j] = rows[j]
<1>1. rows[i] # "gone" /\ \E s \in {"mirroring", "mirrored", "error"} : SetStateIn(rows, file, i, s)
  BY DEF MirrorItem, StartIaPreserve, MirrorCidRow, StartReseed
<1>2. PICK s \in {"mirroring", "mirrored", "error"} : SetStateIn(rows, file, i, s)
  BY <1>1
<1>3. s \in RowState
  BY DEF RowState
<1> QED
  BY <1>1, <1>2, <1>3, RowSet

\* What stands behind a place of the queue.
LEMMA RestElems ==
  ASSUME NEW q \in Seq(Item), NEW f \in DOMAIN q, NEW k \in DOMAIN q, f < k
  PROVE  q[k] \in Elems(SubSeq(q, f + 1, Len(q)))
<1>1. Len(q) \in Nat /\ DOMAIN q = 1..Len(q)
  BY LenProperties
<1>2. PICK m \in Nat : m = k - f
  BY <1>1
<1>3. SubSeq(q, f + 1, Len(q)) = [n \in 1..Len(q) - f |-> q[n + f]]
  BY <1>1
<1>4. m \in 1..Len(q) - f /\ m + f = k
  BY <1>1, <1>2
<1> QED
  BY <1>3, <1>4 DEF Elems

LEMMA ConcatElems ==
  ASSUME NEW q \in Seq(Item), NEW r \in Seq(Item)
  PROVE  q \o r \in Seq(Item) /\ Elems(q \o r) = Elems(q) \cup Elems(r)
<1>1. /\ q \o r \in Seq(Item) /\ Len(q \o r) = Len(q) + Len(r)
      /\ \A k \in 1..Len(q) + Len(r) : (q \o r)[k] = IF k <= Len(q) THEN q[k] ELSE r[k - Len(q)]
  BY ConcatProperties
<1>2. /\ Len(q) \in Nat /\ Len(r) \in Nat /\ DOMAIN q = 1..Len(q) /\ DOMAIN r = 1..Len(r)
      /\ DOMAIN (q \o r) = 1..Len(q) + Len(r)
  BY <1>1, LenProperties
<1>3. PICK t : t = q \o r
  OBVIOUS
<1>4. \A k \in DOMAIN q : k \in DOMAIN t /\ t[k] = q[k]
  BY <1>1, <1>2, <1>3
<1>5. \A k \in DOMAIN r : Len(q) + k \in DOMAIN t /\ t[Len(q) + k] = r[k]
  BY <1>1, <1>2, <1>3
<1>6. \A k \in DOMAIN t : k \in DOMAIN q \/ (k - Len(q) \in DOMAIN r /\ t[k] = r[k - Len(q)])
  BY <1>1, <1>2, <1>3
<1>7. Elems(t) = Elems(q) \cup Elems(r)
  BY <1>4, <1>5, <1>6 DEF Elems
<1> QED
  BY <1>1, <1>3, <1>7

\* Dropping a row keeps the others queued.
LEMMA WithoutElems ==
  ASSUME NEW q \in Seq(Item), NEW i \in Item, NEW j \in Elems(q), j # i
  PROVE  j \in Elems(Without(q, i))
<1>1. CASE i \notin Elems(q)
  BY <1>1 DEF Without
<1>2. CASE i \in Elems(q)
  <2> DEFINE k == CHOOSE n \in DOMAIN q : q[n] = i
  <2>1. k \in DOMAIN q /\ q[k] = i /\ Len(q) \in Nat /\ DOMAIN q = 1..Len(q)
    BY <1>2, LenProperties DEF Elems
  <2>2. Without(q, i) = SubSeq(q, 1, k - 1) \o SubSeq(q, k + 1, Len(q))
    BY <1>2 DEF Without
  <2> HIDE DEF k
  <2>3. PICK a, b : a = SubSeq(q, 1, k - 1) /\ b = SubSeq(q, k + 1, Len(q))
    OBVIOUS
  <2>7. a \in Seq(Item) /\ b \in Seq(Item)
    BY <2>1, <2>3, PartType
  <2>0. Elems(Without(q, i)) = Elems(a) \cup Elems(b)
    BY <2>2, <2>3, <2>7, ConcatElems
  <2>4. PICK n \in DOMAIN q : q[n] = j
    BY DEF Elems
  <2>5. CASE k < n
    <3>1. j \in Elems(SubSeq(q, k + 1, Len(q)))
      BY <2>1, <2>4, <2>5, RestElems
    <3> QED
      BY <2>0, <2>3, <3>1
  <2>6. CASE n < k
    <3>1. SubSeq(q, 1, k - 1) = [m \in 1..k - 1 |-> q[m]]
      BY <2>1
    <3>2. n \in 1..k - 1
      BY <2>1, <2>6
    <3>3. j \in Elems(SubSeq(q, 1, k - 1))
      BY <2>4, <3>1, <3>2 DEF Elems
    <3> QED
      BY <2>0, <2>3, <3>3
  <2> QED
    BY <2>1, <2>4, <2>5, <2>6
<1> QED
  BY <1>1, <1>2

\* drainAutoQueue: every row of the queue that can be started is started, or is still
\* queued, and the other rows stay as they are.
LEMMA DrainTakes ==
  ASSUME NEW q \in Seq(Item), NEW rows \in [Item -> RowState], NEW file, NEW health,
         DrainAutoQueue(q, rows, file, health)
  PROVE  /\ st' \in [Item -> RowState]
         /\ \A i \in Item : st'[i] = rows[i] \/ st'[i] \notin {"available", "pending"}
         /\ \A i \in Elems(q) : Startable(i, rows) =>
              st'[i] \notin {"available", "pending"} \/ i \in Elems(autoQueue')
<1> DEFINE ready == {k \in DOMAIN q : Startable(q[k], rows)}
           first == CHOOSE k \in ready : \A j \in ready : k <= j
<1>1. CASE Idle /\ health = "ready" /\ ready # {}
  <2>1. /\ MirrorItem(q[first], rows, file)
        /\ autoQueue' = SubSeq(q, first + 1, Len(q))
    BY <1>1 DEF DrainAutoQueue
  <2>2. first \in ready /\ \A j \in ready : first <= j
    BY <1>1, FirstPosition
  <2>3. first \in DOMAIN q /\ q[first] \in Item
    BY <2>2 DEF Startable
  <2>4. ready \subseteq DOMAIN q
    OBVIOUS
  <2> HIDE DEF first
  <2>5. /\ st' \in [Item -> RowState] /\ st'[q[first]] \notin {"available", "pending"}
        /\ \A j \in Item : j # q[first] => st'[j] = rows[j]
    BY <2>1, <2>3, MirrorTakes
  <2>6. ASSUME NEW i \in Elems(q), Startable(i, rows), i # q[first]
        PROVE  i \in Elems(autoQueue')
    <3>1. PICK k \in DOMAIN q : q[k] = i
      BY DEF Elems
    <3>2. k \in ready /\ first # k
      BY <2>6, <3>1
    <3>3. DOMAIN q \subseteq Nat
      BY LenProperties
    <3>4. first < k
      <4> HIDE DEF ready
      <4> QED
        BY <2>2, <2>3, <3>1, <3>2, <3>3
    <3>5. q[k] \in Elems(SubSeq(q, first + 1, Len(q)))
      BY <2>3, <3>4, RestElems
    <3> QED
      BY <2>1, <3>1, <3>5
  <2> QED
    BY <2>3, <2>5, <2>6
<1>2. CASE ~(Idle /\ health = "ready" /\ ready # {})
  <2>1. /\ autoQueue' = IF Idle /\ health = "ready" THEN <<>> ELSE q
        /\ st' = rows
    BY <1>2 DEF DrainAutoQueue
  <2>2. \A i \in Elems(q) : Startable(i, rows) => i \in Elems(autoQueue')
    <3>1. ASSUME NEW i \in Elems(q), Startable(i, rows) PROVE ready # {}
      BY <3>1 DEF Elems
    <3> QED
      BY <1>2, <2>1, <3>1
  <2> QED
    BY <2>1, <2>2
<1> QED
  BY <1>1, <1>2

\* ... so a pending row is started or queued.
LEMMA DrainQueued ==
  ASSUME NEW q \in Seq(Item), NEW rows \in [Item -> RowState], NEW file, NEW health,
         DrainAutoQueue(q, rows, file, health), Awaited(rows, q)
  PROVE  QueueInv'
<1>1. /\ st' \in [Item -> RowState]
      /\ \A i \in Item : st'[i] = rows[i] \/ st'[i] \notin {"available", "pending"}
      /\ \A i \in Elems(q) : Startable(i, rows) =>
           st'[i] \notin {"available", "pending"} \/ i \in Elems(autoQueue')
  BY DrainTakes
<1>2. ASSUME NEW i \in Item, st'[i] = "pending" PROVE i \in Elems(autoQueue')
  <2>1. rows[i] = "pending"
    BY <1>1, <1>2
  <2>2. i \in Elems(q) /\ Startable(i, rows)
    BY <2>1 DEF Awaited, Startable
  <2> QED
    BY <1>1, <1>2, <2>2
<1>3. PendingIsQueued'
  BY <1>2 DEF PendingIsQueued, Elems
<1> QED
  BY <1>1, <1>3 DEF QueueInv

\* A reply, an event or a tick: at most one row changes, and when it is to wait it is
\* queued.
LEMMA QueueEnvironment ==
  ASSUME QueueInv, TypeOK, Environment
  PROVE  QueueInv'
<1>a. /\ OwnerTypes
      /\ reseedItem # Nobody => reseedItem \in Item
      /\ \A r \in InFlight : r.item \in Item
  BY TypeParts, Kinds, FlightTypes DEF TypeOK, OwnerTypes, Requests
<1>0. /\ "error" \in RowState /\ "mirrored" \in RowState /\ "mirroring" \in RowState
      /\ "pending" \in RowState
  BY RowStates
<1>1. ASSUME iaItem # Nobody, NEW s \in RowState, SetState(iaItem, s),
             \/ s # "pending" /\ autoQueue' = autoQueue
             \/ autoQueue' = AppendNew(autoQueue, iaItem)
      PROVE  QueueInv'
  <2>1. iaItem \in Item
    BY <1>1, <1>a, Kinds DEF OwnerTypes
  <2> QED
    BY <1>1, <1>a, <2>1, QueueOneRow
<1>2. CASE TransferEnds
  <2>1. PICK r \in InFlight :
          \/ FileFailed(r)
          \/ \E ok \in BOOLEAN : ManifestReply(r, ok) \/ FileDownloaded(r, ok)
    BY <1>2 DEF TransferEnds
  <2>2. \/ UNCHANGED <<st, autoQueue>>
        \/ /\ iaItem # Nobody /\ autoQueue' = autoQueue
           /\ SetState(iaItem, "error") \/ SetState(iaItem, "mirrored")
        \/ /\ iaItem # Nobody /\ autoQueue' = AppendNew(autoQueue, iaItem)
           /\ SetState(iaItem, "pending")
    <3>1. CASE FileFailed(r)
      BY <3>1 DEF FileFailed, ReplyDropped, IaFail, IaStop, rowVars
    <3>2. ASSUME NEW ok \in BOOLEAN, ManifestReply(r, ok)
          PROVE  \/ UNCHANGED <<st, autoQueue>>
                 \/ /\ iaItem # Nobody /\ autoQueue' = autoQueue
                    /\ SetState(iaItem, "error") \/ SetState(iaItem, "mirrored")
      BY <3>2 DEF ManifestReply, ReplyDropped, IaFail, IaStop, IaNextFile, rowVars
    <3>3. ASSUME NEW ok \in BOOLEAN, FileDownloaded(r, ok)
          PROVE  \/ UNCHANGED <<st, autoQueue>>
                 \/ /\ iaItem # Nobody /\ autoQueue' = autoQueue /\ SetState(iaItem, "error")
                 \/ /\ iaItem # Nobody /\ autoQueue' = AppendNew(autoQueue, iaItem)
                    /\ SetState(iaItem, "pending")
      BY <3>3 DEF FileDownloaded, ReplyDropped, IaFail, IaPending, IaStop, rowVars
    <3> QED
      BY <2>1, <3>1, <3>2, <3>3
  <2> QED
    BY <1>0, <1>1, <2>2, QueueSame
<1>3. ASSUME NEW i \in reseedReplies,
             \/ ReseedFailed(i) \/ ReseedProgress(i)
             \/ \E good \in BOOLEAN : ReseedDownloaded(i, good)
      PROVE  QueueInv'
  <2>1. i \in Item
    BY <1>a, Kinds DEF OwnerTypes
  <2>2. CASE ReseedFailed(i) \/ ReseedProgress(i)
    <3>1. \/ UNCHANGED <<st, autoQueue>>
          \/ autoQueue' = autoQueue /\ (SetState(i, "error") \/ SetState(i, "mirroring"))
      BY <2>2 DEF ReseedFailed, ReseedProgress, queueVars
    <3> QED
      BY <1>0, <1>a, <2>1, <3>1, QueueOneRow, QueueSame
  <2>3. ASSUME NEW good \in BOOLEAN, ReseedDownloaded(i, good) PROVE QueueInv'
    <3>1. \/ UNCHANGED <<st, autoQueue>>
          \/ UploadFinished(FALSE, Cid(i, 0, good))
      BY <2>3 DEF ReseedDownloaded, rowVars
    <3>2. CASE UploadFinished(FALSE, Cid(i, 0, good))
      <4>1. \/ UNCHANGED <<st, autoQueue>>
            \/ /\ iaItem # Nobody /\ autoQueue' = AppendNew(autoQueue, iaItem)
               /\ SetState(iaItem, "pending")
            \/ reseedItem # Nobody /\ autoQueue' = autoQueue /\ SetState(reseedItem, "error")
        BY <3>2 DEF UploadFinished, IaPending, IaStop
      <4> QED
        BY <1>0, <1>a, <1>1, <4>1, QueueOneRow, QueueSame
    <3> QED
      BY <3>1, <3>2, QueueSame
  <2> QED
    BY <1>3, <2>2, <2>3
<1>4. ASSUME NEW c, NEW ok \in BOOLEAN, UploadDone(c, ok) \/ (c = ForeignCid /\ ForeignDone(ok))
      PROVE  QueueInv'
  <2>2. UNCHANGED <<st, autoQueue>> \/ UploadFinished(ok, c)
    BY <1>4 DEF UploadDone, ForeignDone, rowVars
  <2>3. CASE UploadFinished(ok, c)
    <3>1. \/ UNCHANGED <<st, autoQueue>>
          \/ iaItem # Nobody /\ autoQueue' = autoQueue /\ SetState(iaItem, "mirrored")
          \/ /\ iaItem # Nobody /\ autoQueue' = AppendNew(autoQueue, iaItem)
             /\ SetState(iaItem, "pending")
          \/ /\ reseedItem # Nobody /\ autoQueue' = autoQueue
             /\ SetState(reseedItem, "error") \/ SetState(reseedItem, "mirrored")
      BY <2>3 DEF UploadFinished, IaPending, IaStop, IaNextFile
    <3> QED
      BY <1>0, <1>a, <1>1, <3>1, QueueOneRow, QueueSame
  <2> QED
    BY <2>2, <2>3, QueueSame
<1>5. ASSUME NEW c, UploadDoneLost(c) PROVE QueueInv'
  BY <1>5, QueueSame DEF UploadDoneLost, rowVars, queueVars
<1>6. ASSUME NEW r \in InFlight, IaProgress(r) PROVE QueueInv'
  <2>1. iaItem # Nobody /\ autoQueue' = autoQueue /\ SetState(iaItem, "mirroring")
    BY <1>6, <1>a, Kinds DEF IaProgress, queueVars
  <2> QED
    BY <1>0, <1>1, <2>1
<1>7. CASE BroughtUp \/ NodeStarted
  BY <1>7, QueueSame DEF BroughtUp, NodeStarted, ElsewhereUnchanged, rowVars, queueVars
<1> QED
  BY <1>2, <1>3, <1>4, <1>5, <1>6, <1>7 DEF Environment, ReseedTransferEnds, UploadEnds

\* Rows that wait in the queue wait in a longer one, too.
LEMMA LongerAwaited ==
  ASSUME QueueInv, TypeOK, NEW S \in SUBSET Item, NEW new \in Orders(S)
  PROVE  Awaited(st, autoQueue \o new)
<1>1. new \in Seq(Item) /\ autoQueue \in Seq(Item)
  BY OrdersType, PreserveAssumption DEF TypeOK
<1>2. Elems(autoQueue \o new) = Elems(autoQueue) \cup Elems(new)
  BY <1>1, ConcatElems
<1> QED
  BY <1>2 DEF QueueInv, PendingIsQueued, Awaited

\* The user: an abort takes the row out of the queue and out of waiting.
LEMMA QueueCalls ==
  ASSUME QueueInv, TypeOK, UserCall
  PROVE  QueueInv'
<1>0. /\ autoQueue \in Seq(Item) /\ OwnerTypes /\ st \in [Item -> RowState]
      /\ "available" \in RowState /\ "error" \in RowState /\ "gone" \in RowState
  BY RowStates DEF TypeOK, OwnerTypes
<1>1. ASSUME NEW i \in Item, Mirror(i) PROVE QueueInv'
  <2>1. MirrorItem(i, st, disk) /\ autoQueue' = autoQueue
    BY <1>1 DEF Mirror, queueVars
  <2>2. /\ st' \in [Item -> RowState] /\ st'[i] \notin {"available", "pending"}
        /\ \A j \in Item : j # i => st'[j] = st[j]
    BY <1>0, <2>1, MirrorTakes
  <2> QED
    BY <2>1, <2>2, QueueGrows
<1>2. ASSUME NEW i \in Item, Abort(i) PROVE QueueInv'
  <2>1. autoQueue' = Without(autoQueue, i) /\ SetState(i, "available")
    BY <1>2 DEF Abort
  <2>2. /\ st' \in [Item -> RowState]
        /\ \A j \in Item : st'[j] = IF j = i /\ st[j] # "gone" THEN "available" ELSE st[j]
    BY <1>0, <2>1, RowSet DEF SetState
  <2>3. ASSUME NEW j \in Item, st'[j] = "pending" PROVE j \in Elems(autoQueue')
    <3>1. j # i /\ st[j] = "pending"
      BY <2>2, <2>3
    <3>2. j \in Elems(autoQueue)
      BY <3>1 DEF QueueInv, PendingIsQueued
    <3> QED
      BY <1>0, <2>1, <3>1, <3>2, WithoutElems
  <2>4. PendingIsQueued'
    BY <2>3 DEF PendingIsQueued, Elems
  <2> QED
    BY <2>2, <2>4 DEF QueueInv
<1>3. ASSUME NEW i \in Item, Unmirror(i) PROVE QueueInv'
  <2>1. autoQueue' = autoQueue /\ (SetState(i, "available") \/ SetState(i, "error"))
    BY <1>3 DEF Unmirror, queueVars
  <2> QED
    BY <1>0, <2>1, QueueOneRow
<1>4. ASSUME NEW i \in Item, Remove(i) PROVE QueueInv'
  <2>1. st' = [st EXCEPT ![i] = "gone"] /\ autoQueue' = autoQueue
    BY <1>4 DEF Remove, queueVars
  <2>2. st' \in [Item -> RowState] /\ \A j \in Item : st'[j] = st[j] \/ st'[j] = "gone"
    BY <1>0, <2>1
  <2> QED
    BY <2>1, <2>2, QueueGrows
<1>5. CASE UnfollowChannel \/ RemoveAllItems
  <2>1. st' = [i \in Item |-> "gone"]
    BY <1>5 DEF UnfollowChannel, RemoveAllItems, ForgetChannel
  <2>2. st' \in [Item -> RowState] /\ \A i \in Item : st'[i] # "pending"
    BY <1>0, <2>1
  <2> QED
    BY <2>2 DEF QueueInv, PendingIsQueued
<1>6. ASSUME NEW on \in BOOLEAN, SetAutoPreserve(on) PROVE QueueInv'
  <2> DEFINE wanted == {i \in Item \ (Oversize \cup Elems(autoQueue)) :
                          st[i] \in {"available", "error"}}
  <2>1. \/ UNCHANGED <<st, autoQueue>>
        \/ \E new \in Orders(wanted) : DrainAutoQueue(autoQueue \o new, st, st, storageState)
    BY <1>6 DEF SetAutoPreserve
  <2>2. wanted \in SUBSET Item
    OBVIOUS
  <2> HIDE DEF wanted
  <2>3. ASSUME NEW new \in Orders(wanted),
               DrainAutoQueue(autoQueue \o new, st, st, storageState)
        PROVE  QueueInv'
    <3>1. Awaited(st, autoQueue \o new) /\ autoQueue \o new \in Seq(Item)
      BY <2>2, LongerAwaited, LongerQueue
    <3> QED
      BY <1>0, <2>3, <3>1, DrainQueued
  <2> QED
    BY <2>1, <2>3, QueueSame
<1> QED
  BY <1>1, <1>2, <1>3, <1>4, <1>5, <1>6 DEF UserCall

\* Timers and discoveries: what the queue gives up is started or no longer waits.
LEMMA QueueBackground ==
  ASSUME ~Restarts, QueueInv, TypeOK, Background
  PROVE  QueueInv'
<1>0. autoQueue \in Seq(Item) /\ st \in [Item -> RowState]
  BY DEF TypeOK
<1>1. CASE BringUp \/ ScanSaved
  BY <1>1, QueueSame DEF BringUp, ScanSaved, ElsewhereUnchanged, rowVars, queueVars
<1>2. ASSUME NEW ok \in BOOLEAN, HealthTick(ok) PROVE QueueInv'
  <2>1. Awaited(st, autoQueue)
    BY DEF Awaited, QueueInv, PendingIsQueued
  <2>2. DrainAutoQueue(autoQueue, st, disk, storageState')
    BY <1>2 DEF HealthTick
  <2> QED
    BY <1>0, <2>1, <2>2, DrainQueued
<1>3. ASSUME NEW S \in SUBSET Item, Discover(S) PROVE QueueInv'
  <2> DEFINE rows == [i \in Item |-> IF i \in S THEN "available" ELSE st[i]]
             wanted == IF auto THEN S \ (Oversize \cup Elems(autoQueue)) ELSE {}
  <2>1. \E new \in Orders(wanted) : DrainAutoQueue(autoQueue \o new, rows, disk, storageState)
    BY <1>3 DEF Discover
  <2>2. /\ rows \in [Item -> RowState] /\ wanted \in SUBSET Item
        /\ \A i \in Item : rows[i] = "pending" => st[i] = "pending"
    BY <1>0, RowStates
  <2> HIDE DEF rows, wanted
  <2>3. PICK new \in Orders(wanted) : DrainAutoQueue(autoQueue \o new, rows, disk, storageState)
    BY <2>1
  <2>4. Awaited(st, autoQueue \o new) /\ autoQueue \o new \in Seq(Item)
    BY <2>2, LongerAwaited, LongerQueue
  <2>5. Awaited(rows, autoQueue \o new)
    BY <2>2, <2>4 DEF Awaited
  <2> QED
    BY <2>2, <2>3, <2>4, <2>5, DrainQueued
<1>4. CASE Restart
  BY <1>4 DEF Restart
<1> QED
  BY <1>1, <1>2, <1>3, <1>4 DEF Background

\* Until the host stops, a pending row is in the queue that retries it: every way into
\* the state queues the row and every way out of the queue starts it or changes its
\* state.  A restart alone parts the two.
THEOREM RetryIsQueued == ~Restarts /\ Spec => []PendingIsQueued
<1> SUFFICES ASSUME ~Restarts PROVE Spec => []PendingIsQueued
  OBVIOUS
<1>1. ASSUME Init PROVE QueueInv
  <2>1. st \in [Item -> RowState] /\ \A i \in Item : st[i] # "pending"
    BY <1>1, RowStates DEF Init
  <2> QED
    BY <2>1 DEF QueueInv, PendingIsQueued
<1>2. ASSUME TypeOK, QueueInv, [Next]_vars PROVE QueueInv'
  <2>1. CASE UNCHANGED vars
    BY <1>2, <2>1, QueueSame DEF vars, rowVars, queueVars
  <2> QED
    BY <1>2, <2>1, QueueEnvironment, QueueCalls, QueueBackground DEF Next
<1>3. /\ Init => QueueInv
      /\ TypeOK /\ QueueInv /\ [Next]_vars => QueueInv'
      /\ QueueInv => PendingIsQueued
  BY <1>1, <1>2 DEF QueueInv
<1> QED
  BY <1>3, AnyUseTypes, PTL DEF Spec

\* An order of a set of rows has the rows of the set.
LEMMA OrdersElems ==
  ASSUME NEW S \in SUBSET Item, NEW new \in Orders(S)
  PROVE  Elems(new) = S
BY DEF Orders

\* Turning auto on takes every row that is available, at once or by way of the queue,
\* whatever else is running and whatever the queue held before.
LEMMA AutoStep ==
  ASSUME TypeOK, [Next]_vars
  PROVE  AutoOnTakes("available")
<1>1. SUFFICES ASSUME ~auto /\ auto', NEW i \in Item \ Oversize, st[i] = "available"
               PROVE  st'[i] # st[i] \/ i \in Elems(autoQueue')
  BY DEF AutoOnTakes
<1>2. SetAutoPreserve(TRUE)
  <2>1. ASSUME NEW on \in BOOLEAN, SetAutoPreserve(on) PROVE SetAutoPreserve(TRUE)
    BY <1>1, <2>1 DEF SetAutoPreserve
  <2>2. CASE Environment
    <3>1. auto' = auto
      BY <2>2 DEF Environment, TransferEnds, FileFailed, ManifestReply, FileDownloaded,
         ReseedTransferEnds, ReseedFailed, ReseedDownloaded, ReseedProgress, IaProgress,
         UploadEnds, UploadDone, UploadDoneLost, ForeignDone, BroughtUp, NodeStarted, ElsewhereUnchanged,
         queueVars
    <3> QED
      BY <1>1, <3>1
  <2>3. CASE Background
    <3>1. auto' = auto
      BY <2>3 DEF Background, BringUp, HealthTick, Discover, ScanSaved, Restart,
         ElsewhereUnchanged, queueVars
    <3> QED
      BY <1>1, <3>1
  <2>4. CASE (\E j \in Item : Mirror(j) \/ Abort(j) \/ Unmirror(j) \/ Remove(j))
               \/ UnfollowChannel \/ RemoveAllItems
    <3>1. auto' = auto \/ auto' = FALSE
      BY <2>4 DEF Mirror, Abort, Unmirror, Remove, UnfollowChannel, RemoveAllItems,
                  ForgetChannel, queueVars
    <3> QED
      BY <1>1, <3>1
  <2>5. CASE UNCHANGED vars
    BY <1>1, <2>5 DEF vars, queueVars
  <2> QED
    BY <2>1, <2>2, <2>3, <2>4, <2>5 DEF Next, UserCall
<1> DEFINE wanted == {j \in Item \ (Oversize \cup Elems(autoQueue)) :
                        st[j] \in {"available", "error"}}
<1>3. PICK new \in Orders(wanted) : DrainAutoQueue(autoQueue \o new, st, st, storageState)
  BY <1>2 DEF SetAutoPreserve
<1>4. wanted \in SUBSET Item /\ (i \in Elems(autoQueue) \/ i \in wanted)
  BY <1>1
<1> HIDE DEF wanted
<1>5. autoQueue \in Seq(Item) /\ new \in Seq(Item) /\ st \in [Item -> RowState]
  BY <1>4, OrdersType, PreserveAssumption DEF TypeOK
<1>6. autoQueue \o new \in Seq(Item) /\ i \in Elems(autoQueue \o new)
  BY <1>4, <1>5, ConcatElems, OrdersElems
<1>7. Startable(i, st)
  BY <1>1 DEF Startable
<1>8. st'[i] \notin {"available", "pending"} \/ i \in Elems(autoQueue')
  BY <1>3, <1>5, <1>6, <1>7, DrainTakes
<1> QED
  BY <1>1, <1>8

\* Nothing that is there to be preserved is missed when auto-preserve is turned on.
THEOREM AutoTakesAll == Spec => AutoOnTakesAvailable
<1>1. TypeOK /\ [Next]_vars => AutoOnTakes("available")
  BY AutoStep
<1>2. TypeOK /\ [Next]_vars => [AutoOnTakes("available")]_vars
  BY <1>1
<1> QED
  BY <1>2, AnyUseTypes, PTL DEF Spec, AutoOnTakesAvailable

-----------------------------------------------------------------------------
(* What an abort ends.                                                      *)

\* Rows are not taken from under a running preserve: none is removed, and none is
\* unpreserved from a view that shows the row in an old state.
RowsStay ==
  /\ UserOps \cap {"remove", "unfollow", "removeAll"} = {}
  /\ StaleView => "unmirror" \notin UserOps

\* The row of a running IA preserve breathes.
IaBreathes == iaItem # Nobody => st[iaItem] = "mirroring"

\* It does after the step too, and no other IA row has begun to.
BreathesOn ==
  /\ IaBreathes'
  /\ \A i \in IaItem : st'[i] = "mirroring" => st[i] = "mirroring" \/ iaItem' = i

LEMMA BreathesSame ==
  ASSUME IaBreathes, UNCHANGED <<st, iaItem>>
  PROVE  BreathesOn
BY DEF IaBreathes, BreathesOn

\* One row takes a state.
LEMMA BreathesOneRow ==
  ASSUME TypeOK, IaBreathes, NEW i \in Item, NEW s \in RowState, SetState(i, s),
         \/ iaItem' = Nobody /\ s # "mirroring"
         \/ iaItem' = iaItem /\ i # iaItem /\ (s # "mirroring" \/ i \in CidItem)
         \/ iaItem' = iaItem /\ i = iaItem /\ s = "mirroring"
  PROVE  BreathesOn
<1>1. \A j \in Item : st'[j] = IF j = i /\ st[j] # "gone" THEN s ELSE st[j]
  BY RowSet DEF TypeOK, SetState
<1>2. iaItem' # Nobody => iaItem' \in Item
  BY Kinds DEF TypeOK
<1> QED
  BY <1>1, <1>2, Kinds DEF IaBreathes, BreathesOn

\* A preserve that starts, over rows of which none has begun to breathe.
LEMMA BreathesMirror ==
  ASSUME TypeOK, IaBreathes, NEW rows \in [Item -> RowState], NEW file, NEW i \in Item,
         \A j \in IaItem : rows[j] = "mirroring" <=> st[j] = "mirroring",
         MirrorItem(i, rows, file)
  PROVE  BreathesOn
<1>0. iaItem \in IaItem \cup {Nobody} /\ "mirroring" \in RowState
  BY RowStates DEF TypeOK
<1>1. CASE i \in IaItem
  <2>1. iaItem' = i /\ SetStateIn(rows, file, i, "mirroring") /\ rows[i] # "gone"
    BY <1>1 DEF MirrorItem, StartIaPreserve
  <2>2. \A j \in Item : st'[j] = IF j = i THEN "mirroring" ELSE rows[j]
    BY <1>0, <2>1, RowSet
  <2> QED
    BY <2>1, <2>2, Kinds DEF IaBreathes, BreathesOn
<1>2. CASE i \notin IaItem
  <2>1. iaItem' = iaItem
    BY <1>2 DEF MirrorItem, MirrorCidRow, iaVars
  <2>2. \A j \in Item : j # i => st'[j] = rows[j]
    BY MirrorTakes
  <2>3. \A j \in IaItem : st'[j] = rows[j]
    BY <1>2, <2>2, Kinds
  <2> QED
    BY <1>0, <2>1, <2>3 DEF IaBreathes, BreathesOn
<1> QED
  BY <1>1, <1>2

LEMMA BreathesDrain ==
  ASSUME TypeOK, IaBreathes, NEW q \in Seq(Item), NEW rows \in [Item -> RowState], NEW file,
         NEW health, \A j \in IaItem : rows[j] = "mirroring" <=> st[j] = "mirroring",
         DrainAutoQueue(q, rows, file, health)
  PROVE  BreathesOn
<1> DEFINE ready == {k \in DOMAIN q : Startable(q[k], rows)}
           first == CHOOSE k \in ready : \A j \in ready : k <= j
<1>1. CASE Idle /\ health = "ready" /\ ready # {}
  <2>1. MirrorItem(q[first], rows, file)
    BY <1>1 DEF DrainAutoQueue
  <2>2. first \in ready
    BY <1>1, FirstPosition
  <2>3. q[first] \in Item
    BY <2>2 DEF Startable
  <2> HIDE DEF first, ready
  <2> QED
    BY <2>1, <2>3, BreathesMirror
<1>2. CASE ~(Idle /\ health = "ready" /\ ready # {})
  <2>1. st' = rows /\ iaItem' = iaItem
    BY <1>2 DEF DrainAutoQueue, iaVars
  <2>2. iaItem \in IaItem \cup {Nobody}
    BY DEF TypeOK
  <2> QED
    BY <2>1, <2>2 DEF IaBreathes, BreathesOn
<1> QED
  BY <1>1, <1>2

\* Replies and events.
LEMMA BreathesEnvironment ==
  ASSUME TypeOK, IaBreathes, Environment
  PROVE  BreathesOn
<1>0. /\ iaItem # Nobody => iaItem \in Item
      /\ reseedItem # Nobody => reseedItem \in Item /\ reseedItem \in CidItem /\ reseedItem # iaItem
      /\ \A i \in reseedReplies : i \in Item /\ i \in CidItem /\ i # iaItem
      /\ "error" \in RowState /\ "mirrored" \in RowState /\ "mirroring" \in RowState
      /\ "pending" \in RowState
  BY Kinds, RowStates DEF TypeOK
<1>1. ASSUME iaItem # Nobody, iaItem' = Nobody,
             \E s \in {"error", "pending", "mirrored"} : SetState(iaItem, s)
      PROVE  BreathesOn
  BY <1>0, <1>1, BreathesOneRow
<1>2. CASE TransferEnds
  <2>1. PICK r \in InFlight :
          \/ FileFailed(r)
          \/ \E ok \in BOOLEAN : ManifestReply(r, ok) \/ FileDownloaded(r, ok)
    BY <1>2 DEF TransferEnds
  <2>2. \/ UNCHANGED <<st, iaItem>>
        \/ /\ iaItem # Nobody /\ iaItem' = Nobody
           /\ \E s \in {"error", "pending", "mirrored"} : SetState(iaItem, s)
    <3>1. CASE FileFailed(r)
      BY <3>1 DEF FileFailed, ReplyDropped, IaFail, IaStop, rowVars
    <3>2. ASSUME NEW ok \in BOOLEAN, ManifestReply(r, ok)
          PROVE  \/ UNCHANGED <<st, iaItem>>
                 \/ /\ iaItem # Nobody /\ iaItem' = Nobody
                    /\ SetState(iaItem, "error") \/ SetState(iaItem, "mirrored")
      BY <3>2 DEF ManifestReply, ReplyDropped, IaFail, IaStop, IaNextFile, rowVars
    <3>3. ASSUME NEW ok \in BOOLEAN, FileDownloaded(r, ok)
          PROVE  \/ UNCHANGED <<st, iaItem>>
                 \/ /\ iaItem # Nobody /\ iaItem' = Nobody
                    /\ SetState(iaItem, "error") \/ SetState(iaItem, "pending")
      BY <3>3 DEF FileDownloaded, ReplyDropped, IaFail, IaPending, IaStop, rowVars
    <3> QED
      BY <2>1, <3>1, <3>2, <3>3
  <2> QED
    BY <1>1, <2>2, BreathesSame
<1>3. ASSUME NEW ok \in BOOLEAN, NEW c, UploadFinished(ok, c)
      PROVE  BreathesOn
  <2>1. \/ UNCHANGED <<st, iaItem>>
        \/ /\ iaItem # Nobody /\ iaItem' = Nobody
           /\ SetState(iaItem, "mirrored") \/ SetState(iaItem, "pending")
        \/ /\ reseedItem # Nobody /\ iaItem' = iaItem
           /\ SetState(reseedItem, "mirrored") \/ SetState(reseedItem, "error")
    BY <1>3 DEF UploadFinished, IaPending, IaStop, IaNextFile
  <2> QED
    BY <1>0, <1>1, <2>1, BreathesOneRow, BreathesSame
<1>4. ASSUME NEW i \in reseedReplies,
             \/ ReseedFailed(i) \/ ReseedProgress(i)
             \/ \E good \in BOOLEAN : ReseedDownloaded(i, good)
      PROVE  BreathesOn
  <2>1. \/ UNCHANGED <<st, iaItem>>
        \/ iaItem' = iaItem /\ (SetState(i, "error") \/ SetState(i, "mirroring"))
        \/ \E good \in BOOLEAN : UploadFinished(FALSE, Cid(i, 0, good))
    BY <1>4 DEF ReseedFailed, ReseedProgress, ReseedDownloaded, rowVars, iaVars
  <2> QED
    BY <1>0, <1>3, <2>1, BreathesOneRow, BreathesSame
<1>5. ASSUME NEW c, NEW ok \in BOOLEAN, UploadDone(c, ok) \/ (c = ForeignCid /\ ForeignDone(ok))
      PROVE  BreathesOn
  <2>1. UNCHANGED <<st, iaItem>> \/ UploadFinished(ok, c)
    BY <1>5 DEF UploadDone, ForeignDone, rowVars, iaVars
  <2> QED
    BY <1>3, <2>1, BreathesSame
<1>6. ASSUME NEW r \in InFlight, IaProgress(r) PROVE BreathesOn
  <2>1. iaItem # Nobody /\ iaItem' = iaItem /\ SetState(iaItem, "mirroring")
    BY <1>6, FlightTypes, TypeParts, Kinds DEF IaProgress, iaVars, Requests
  <2> QED
    BY <1>0, <2>1, BreathesOneRow
<1>7. ASSUME BroughtUp \/ NodeStarted \/ \E c : UploadDoneLost(c) PROVE BreathesOn
  BY <1>7, BreathesSame DEF BroughtUp, NodeStarted, UploadDoneLost, ElsewhereUnchanged, rowVars,
                            iaVars
<1> QED
  BY <1>2, <1>4, <1>5, <1>6, <1>7 DEF Environment, ReseedTransferEnds, UploadEnds

\* Calls, timers and the host.
LEMMA BreathesCalls ==
  ASSUME RowsStay, TypeOK, IaBreathes, UserCall \/ Background
  PROVE  BreathesOn
<1>0. /\ autoQueue \in Seq(Item) /\ st \in [Item -> RowState] /\ disk \in [Item -> RowState]
      /\ "available" \in RowState /\ "error" \in RowState
  BY RowStates DEF TypeOK
<1>1. ASSUME NEW i \in Item, Mirror(i) PROVE BreathesOn
  BY <1>0, <1>1, BreathesMirror DEF Mirror
<1>2. ASSUME NEW i \in Item, Abort(i) PROVE BreathesOn
  <2>1. SetState(i, "available") /\ iaItem' = IF iaItem = i THEN Nobody ELSE iaItem
    BY <1>2 DEF Abort
  <2> QED
    BY <1>0, <2>1, BreathesOneRow
<1>3. ASSUME NEW i \in Item, Unmirror(i) PROVE BreathesOn
  <2>1. /\ st[i] = "mirrored" /\ iaItem' = iaItem
        /\ SetState(i, "available") \/ SetState(i, "error")
    BY <1>3 DEF Unmirror, RowsStay, Sees, iaVars
  <2>2. i # iaItem
    BY <2>1, Kinds DEF IaBreathes
  <2> QED
    BY <1>0, <2>1, <2>2, BreathesOneRow
<1>4. ~(\E i \in Item : Remove(i)) /\ ~UnfollowChannel /\ ~RemoveAllItems
  BY DEF Remove, UnfollowChannel, RemoveAllItems, RowsStay
<1>5. ASSUME NEW on \in BOOLEAN, SetAutoPreserve(on) PROVE BreathesOn
  <2> DEFINE wanted == {i \in Item \ (Oversize \cup Elems(autoQueue)) :
                          st[i] \in {"available", "error"}}
  <2>1. \/ UNCHANGED <<st, iaItem>>
        \/ \E new \in Orders(wanted) : DrainAutoQueue(autoQueue \o new, st, st, storageState)
    BY <1>5 DEF SetAutoPreserve, iaVars
  <2>2. wanted \in SUBSET Item
    OBVIOUS
  <2> HIDE DEF wanted
  <2>3. \A new \in Orders(wanted) : autoQueue \o new \in Seq(Item)
    BY <2>2, LongerQueue
  <2> QED
    BY <1>0, <2>1, <2>3, BreathesDrain, BreathesSame
<1>6. CASE BringUp \/ ScanSaved
  BY <1>6, BreathesSame DEF BringUp, ScanSaved, ElsewhereUnchanged, rowVars, iaVars
<1>7. ASSUME NEW ok \in BOOLEAN, HealthTick(ok) PROVE BreathesOn
  BY <1>0, <1>7, BreathesDrain DEF HealthTick
<1>8. ASSUME NEW S \in SUBSET Item, Discover(S) PROVE BreathesOn
  <2> DEFINE rows == [i \in Item |-> IF i \in S THEN "available" ELSE st[i]]
             wanted == IF auto THEN S \ (Oversize \cup Elems(autoQueue)) ELSE {}
  <2>1. /\ \A i \in S : st[i] = "gone"
        /\ \E new \in Orders(wanted) : DrainAutoQueue(autoQueue \o new, rows, disk, storageState)
    BY <1>8 DEF Discover
  <2>2. /\ rows \in [Item -> RowState] /\ wanted \in SUBSET Item
        /\ \A i \in IaItem : rows[i] = "mirroring" <=> st[i] = "mirroring"
    BY <1>0, <2>1, Kinds
  <2> HIDE DEF rows, wanted
  <2>3. \A new \in Orders(wanted) : autoQueue \o new \in Seq(Item)
    BY <2>2, LongerQueue
  <2> QED
    BY <2>1, <2>2, <2>3, BreathesDrain
<1>9. CASE Restart
  <2>1. iaItem' = Nobody /\ \A i \in Item : st'[i] # "mirroring"
    BY <1>9 DEF Restart, Loaded
  <2> QED
    BY <2>1, Kinds DEF IaBreathes, BreathesOn
<1> QED
  BY <1>1, <1>2, <1>3, <1>4, <1>5, <1>6, <1>7, <1>8, <1>9 DEF UserCall, Background

\* An abort ends the preserve of an IA row for good: the row breathes again only when
\* it is started again.  This holds at any phase, from any view, with overlaps, lost
\* events, another consumer's events and restarts, as long as no row is taken from under
\* its preserve.
THEOREM AbortIsFinal == RowsStay /\ Spec => AbortCancelsIa
<1> SUFFICES ASSUME RowsStay PROVE Spec => AbortCancelsIa
  OBVIOUS
<1>1. Init => IaBreathes
  BY DEF Init, IaBreathes
<1>2. ASSUME TypeOK, IaBreathes, [Next]_vars PROVE BreathesOn
  <2>1. CASE UNCHANGED vars
    BY <1>2, <2>1, BreathesSame DEF vars, rowVars, iaVars
  <2> QED
    BY <1>2, <2>1, BreathesEnvironment, BreathesCalls DEF Next
<1>3. ASSUME TypeOK, IaBreathes, [Next]_vars PROVE [CancelledFor(IaItem)]_vars
  <2>1. ASSUME NEW i \in IaItem, st[i] = "available", st'[i] = "mirroring"
        PROVE  i \notin {iaItem, reseedItem} /\ i \in {iaItem', reseedItem'}
    <3>1. iaItem' = i
      BY <1>2, <1>3, <2>1 DEF BreathesOn
    <3>2. iaItem # i /\ reseedItem # i
      BY <1>3, <2>1, Kinds DEF IaBreathes, TypeOK
    <3> QED
      BY <3>1, <3>2
  <2> QED
    BY <2>1 DEF CancelledFor
<1>4. /\ TypeOK /\ IaBreathes /\ [Next]_vars => IaBreathes'
      /\ TypeOK /\ IaBreathes /\ [Next]_vars => [CancelledFor(IaItem)]_vars
  BY <1>2, <1>3 DEF BreathesOn
<1> QED
  BY <1>1, <1>4, AnyUseTypes, PTL DEF Spec, AbortCancelsIa
==============================================================================

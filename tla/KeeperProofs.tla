----------------------------- MODULE KeeperProofs -----------------------------
(***************************************************************************)
(* Preserve implements Keeper, for every value of the constants: under     *)
(* clean use each handler of the plugin is a step of the keeper, or one    *)
(* nobody sees.                                                            *)
(***************************************************************************)
EXTENDS PreserveProofs

\* The item the keeper sees as being worked on.
Current == IF iaItem # Nobody THEN iaItem ELSE reseedItem

\* state.json says preserved of every row that is, and has no row that is gone.
SavedAs(rows, file) ==
  \A i \in Item :
    /\ rows[i] = "mirrored" => file[i] = "mirrored"
    /\ rows[i] = "gone" => file[i] = "gone"
SavedInTime == SavedAs(st, disk)

\* A step of the keeper, or one it does not notice.
Keeps == Promise!Next \/ UNCHANGED Promise!vars

-----------------------------------------------------------------------------
(* What is kept.                                                            *)

\* One more content kept is at most one more item kept.
LEMMA KeptGrows ==
  ASSUME NEW c, held' = held \cup {c}
  PROVE  Kept' \in {Kept, Kept \cup {c.item}}
<1>1. Kept \subseteq Kept'
  BY DEF Kept, FileCids
<1>2. ASSUME NEW i \in Kept', i # c.item
      PROVE  i \in Kept
  <2>1. CASE i \in IaItem /\ \A k \in 1..FileCount[i] : FileCids(i, k) \cap held' # {}
    <3>1. ASSUME NEW k \in 1..FileCount[i]
          PROVE  FileCids(i, k) \cap held # {}
      <4>1. c \notin FileCids(i, k)
        BY <1>2, FileCidItem
      <4> QED
        BY <2>1, <4>1
    <3> QED
      BY <2>1, <3>1 DEF Kept
  <2>2. CASE i \in CidItem /\ \E g \in BOOLEAN : Cid(i, 0, g) \in held'
    BY <1>2, <2>2 DEF Kept, Cid
  <2> QED
    BY <1>2, <2>1, <2>2 DEF Kept, FileCids
<1> QED
  BY <1>1, <1>2

\* What is dropped of one item makes no other item incomplete.
LEMMA KeptShrinks ==
  ASSUME NEW i, held' \subseteq held, \A c \in held : c \in held' \/ c.item = i
  PROVE  Kept' \in {Kept, Kept \ {i}}
<1>1. Kept' \subseteq Kept
  BY DEF Kept, FileCids
<1>2. ASSUME NEW j \in Kept, j # i
      PROVE  j \in Kept'
  <2>1. CASE j \in IaItem /\ \A k \in 1..FileCount[j] : FileCids(j, k) \cap held # {}
    <3>1. ASSUME NEW k \in 1..FileCount[j]
          PROVE  FileCids(j, k) \cap held' # {}
      <4>1. PICK c \in FileCids(j, k) : c \in held
        BY <2>1
      <4>2. c.item = j
        BY FileCidItem
      <4> QED
        BY <1>2, <4>1, <4>2
    <3> QED
      BY <2>1, <3>1 DEF Kept, FileCids
  <2>2. CASE j \in CidItem /\ \E g \in BOOLEAN : Cid(j, 0, g) \in held
    BY <1>2, <2>2 DEF Kept, Cid
  <2> QED
    BY <1>2, <2>1, <2>2 DEF Kept
<1> QED
  BY <1>1, <1>2

\* Nothing stored or dropped, nothing more or less kept.
LEMMA KeptSame == held' = held => Kept' = Kept
BY DEF Kept, FileCids

-----------------------------------------------------------------------------
(* Rows.                                                                    *)

\* setItemState is the keeper's Show, and saves in time.
LEMMA ShowFacts ==
  ASSUME NEW rows \in [Item -> RowState], NEW file \in [Item -> RowState],
         NEW i \in Item, NEW s, SetStateIn(rows, file, i, s), SavedAs(rows, file)
  PROVE  st' = Promise!Show(rows, i, s) /\ SavedInTime'
<1>1. st' = Promise!Show(rows, i, s)
  BY DEF SetStateIn, Promise!Show
<1>2. SavedInTime'
  BY DEF SetStateIn, SavedInTime, SavedAs
<1> QED
  BY <1>1, <1>2

\* The end of a preserve that failed.
LEMMA FailKeeps ==
  ASSUME IInv, SavedInTime, Current # Nobody, Current \in Item, Current' = Nobody,
         UNCHANGED held, NEW s \in {"error", "pending"}, SetState(Current, s)
  PROVE  Keeps /\ SavedInTime'
<1>1. st' = Promise!Show(st, Current, s) /\ SavedInTime'
  BY ShowFacts, InvFacts DEF SetState, SavedInTime
<1>2. Promise!Fail
  BY <1>1, KeptSame DEF Promise!Fail, Current
<1> QED
  BY <1>1, <1>2 DEF Keeps, Promise!Next

\* A step that leaves the rows, the item worked on and the node's contents alone.
LEMMA NothingShown ==
  ASSUME UNCHANGED <<st, iaItem, reseedItem, held>>
  PROVE  Keeps
BY KeptSame DEF Keeps, Promise!vars

-----------------------------------------------------------------------------
(* Replies, progress and events.                                            *)

\* A manifest that arrives shows nothing, one that cannot be had is a failure.
LEMMA ManifestReplyKeeps ==
  ASSUME IInv, SavedInTime, NEW r \in InFlight, NEW ok \in BOOLEAN, ManifestReply(r, ok)
  PROVE  Keeps /\ SavedInTime'
<1>1. /\ iaItem \in IaItem /\ iaItem \in Item /\ iaItem # Nobody /\ reseedItem = Nobody
      /\ r.item = iaItem /\ iaIdx = 0
  BY IaOwner DEF ManifestReply
<1>2. UNCHANGED <<reseedItem, held>>
  BY DEF ManifestReply, reseedVars
<1>3. CASE ok
  <2>1. FileCount[iaItem] \in Nat \ {0}
    BY <1>1, PreserveAssumption DEF PreserveAssumption
  <2>2. ~(0 >= FilesIn(iaItem))
    BY <1>1, <2>1 DEF FilesIn
  <2>3. UNCHANGED <<iaItem, st, disk>>
    BY <1>1, <1>3, <2>2 DEF ManifestReply, IaNextFile
  <2> QED
    BY <1>2, <2>3, NothingShown DEF SavedInTime, SavedAs
<1>4. CASE ~ok
  <2>1. SetState(iaItem, "error") /\ iaItem' = Nobody
    BY <1>1, <1>4 DEF ManifestReply, IaFail, IaStop
  <2> QED
    BY <1>1, <1>2, <2>1, FailKeeps DEF Current
<1> QED
  BY <1>3, <1>4

\* A file that cannot be had, or does not match, is a failure; one that is handed
\* to storage shows nothing, one that storage refuses waits.
LEMMA FileReplyKeeps ==
  ASSUME IInv, SavedInTime, NEW r \in InFlight,
         FileFailed(r) \/ \E good \in BOOLEAN : FileDownloaded(r, good)
  PROVE  Keeps /\ SavedInTime'
<1>1. iaItem \in Item /\ iaItem # Nobody /\ reseedItem = Nobody
  BY IaOwner
<1>2. UNCHANGED <<reseedItem, held>>
  BY DEF FileFailed, FileDownloaded, reseedVars
<1>3. \/ UNCHANGED <<iaItem, st, disk>>
      \/ iaItem' = Nobody /\ \E s \in {"error", "pending"} : SetState(iaItem, s)
  BY <1>1 DEF FileFailed, FileDownloaded, IaFail, IaPending, IaStop, rowVars
<1>4. CASE UNCHANGED <<iaItem, st, disk>>
  BY <1>2, <1>4, NothingShown DEF SavedInTime, SavedAs
<1>5. CASE iaItem' = Nobody /\ \E s \in {"error", "pending"} : SetState(iaItem, s)
  BY <1>1, <1>2, <1>5, FailKeeps DEF Current
<1> QED
  BY <1>3, <1>4, <1>5

\* A progress tick makes the row of the work breathe.
LEMMA ProgressKeeps ==
  ASSUME IInv, SavedInTime, Current \in Item, Current # Nobody, SetState(Current, "mirroring"),
         UNCHANGED <<iaItem, reseedItem, held>>
  PROVE  Keeps /\ SavedInTime'
<1>1. st' = Promise!Show(st, Current, "mirroring") /\ SavedInTime'
  BY ShowFacts, InvFacts DEF SetState, SavedInTime
<1>2. Promise!Work
  BY <1>1, KeptSame DEF Promise!Work, Current
<1> QED
  BY <1>1, <1>2 DEF Keeps, Promise!Next

\* A reseed download: the next candidate shows nothing, the last one is a failure;
\* so is a file that storage refuses.
LEMMA ReseedReplyKeeps ==
  ASSUME IInv, SavedInTime, NEW i \in reseedReplies,
         ReseedFailed(i) \/ \E good \in BOOLEAN : ReseedDownloaded(i, good)
  PROVE  Keeps /\ SavedInTime'
<1>1. i = reseedItem /\ i \in Item /\ i # Nobody /\ iaItem = Nobody
  BY ReseedOwner, Kinds
<1>2. UNCHANGED <<iaItem, held>>
  BY <1>1 DEF ReseedFailed, ReseedDownloaded, UploadFinished, iaVars
<1>3. \/ UNCHANGED <<reseedItem, st, disk>>
      \/ reseedItem' = Nobody /\ SetState(i, "error")
  BY <1>1 DEF ReseedFailed, ReseedDownloaded, UploadFinished, rowVars
<1>4. CASE UNCHANGED <<reseedItem, st, disk>>
  BY <1>2, <1>4, NothingShown DEF SavedInTime, SavedAs
<1>5. CASE reseedItem' = Nobody /\ SetState(i, "error")
  BY <1>1, <1>2, <1>5, FailKeeps DEF Current
<1> QED
  BY <1>3, <1>4, <1>5

\* The event of an upload that failed is a failure, that of the last file of an item,
\* or of a reseeded row, completes it, and any other is a part of the work.
LEMMA UploadDoneKeeps ==
  ASSUME IInv, SavedInTime, NEW c \in nodeUploads, NEW ok \in BOOLEAN, UploadDone(c, ok)
  PROVE  Keeps /\ SavedInTime'
<1>1. /\ UploadFinished(ok, c)
      /\ held' = IF ok THEN held \cup {c} ELSE held
  BY UploadOwner DEF UploadDone
<1>2. st \in [Item -> RowState] /\ disk \in [Item -> RowState]
  BY InvFacts
<1>3. CASE iaItem # Nobody
  <2>1. /\ iaItem \in IaItem /\ iaItem \in Item /\ reseedItem = Nobody /\ iaMan = iaItem
        /\ StoredFiles(iaItem, iaIdx, iaCids) /\ iaIdx < FileCount[iaItem]
        /\ c \in FileCids(iaItem, iaIdx + 1) /\ c \in Cids /\ c.item = iaItem
        /\ iaIdx \in Nat /\ iaCids \in Seq(Cids) /\ FileCount[iaItem] \in Nat
    BY <1>3, UploadOwner, FileCidItem, Kinds, PreserveAssumption
       DEF IInv, TypeOK, StorageTypeOK, PreserveAssumption
  <2>2. reseedItem' = reseedItem /\ Current = iaItem
    BY <1>1, <1>3 DEF UploadFinished, Current
  <2>3. CASE ~ok
    <3>1. iaItem' = Nobody /\ SetState(iaItem, "pending")
      BY <1>1, <1>3, <2>3 DEF UploadFinished, IaPending, IaStop
    <3> QED
      BY <1>1, <1>3, <2>1, <2>2, <2>3, <3>1, FailKeeps DEF Current
  <2>4. CASE ok /\ iaIdx + 1 < FileCount[iaItem]
    <3>1. UNCHANGED <<iaItem, st, disk>>
      BY <1>1, <1>3, <2>1, <2>4 DEF UploadFinished, IaNextFile, FilesIn
    <3>2. Kept' \in {Kept, Kept \cup {iaItem}}
      BY <1>1, <2>1, <2>4, KeptGrows
    <3>3. Promise!Work
      BY <1>3, <2>2, <3>1, <3>2 DEF Promise!Work, Current
    <3> QED
      BY <3>1, <3>3 DEF Keeps, Promise!Next, SavedInTime, SavedAs
  <2>5. CASE ok /\ ~(iaIdx + 1 < FileCount[iaItem])
    <3>1. iaIdx + 1 = FileCount[iaItem]
      BY <2>1, <2>5
    <3>2. iaItem' = Nobody /\ SetState(iaItem, "mirrored")
      BY <1>1, <1>3, <2>1, <2>5 DEF UploadFinished, IaNextFile, FilesIn
    <3>3. Kept' \in {Kept, Kept \cup {iaItem}}
      BY <1>1, <2>1, <2>5, KeptGrows
    <3>4. PICK new \in Seq(Cids) :
            \A k \in 1..iaIdx + 1 : new[k] \in FileCids(iaItem, k) /\ new[k] \in held'
      BY <1>1, <2>1, <2>5, StoredNext
    <3>5. iaItem \in Kept'
      BY <2>1, <3>1, <3>4 DEF Kept, FileCids
    <3>6. Kept' = Kept \cup {iaItem}
      BY <3>3, <3>5
    <3>7. st' = Promise!Show(st, iaItem, "mirrored") /\ SavedInTime'
      BY <1>2, <2>1, <3>2, ShowFacts DEF SetState, SavedInTime
    <3>8. Promise!Complete
      BY <1>3, <2>1, <2>2, <3>2, <3>6, <3>7 DEF Promise!Complete, Current
    <3> QED
      BY <3>7, <3>8 DEF Keeps, Promise!Next
  <2> QED
    BY <2>3, <2>4, <2>5
<1>4. CASE iaItem = Nobody
  <2>1. /\ reseedItem \in CidItem /\ reseedItem \in Item /\ reseedItem # Nobody
        /\ \E g \in BOOLEAN : c = Cid(reseedItem, 0, g)
    BY <1>4, UploadOwner, Kinds
  <2>2. /\ iaItem' = iaItem /\ reseedItem' = Nobody
        /\ SetState(reseedItem, IF ok THEN "mirrored" ELSE "error")
    BY <1>1, <1>4, <2>1 DEF UploadFinished
  <2>3. CASE ~ok
    BY <1>1, <1>4, <2>1, <2>2, <2>3, FailKeeps DEF Current
  <2>4. CASE ok
    <3>1. Kept' \in {Kept, Kept \cup {reseedItem}}
      BY <1>1, <2>1, <2>4, KeptGrows DEF Cid
    <3>2. reseedItem \in Kept'
      BY <1>1, <2>1, <2>4 DEF Kept, Cid
    <3>3. Kept' = Kept \cup {reseedItem}
      BY <3>1, <3>2
    <3>4. st' = Promise!Show(st, reseedItem, "mirrored") /\ SavedInTime'
      BY <1>2, <2>1, <2>2, <2>4, ShowFacts DEF SetState, SavedInTime
    <3>5. Promise!Complete
      BY <1>4, <2>1, <2>2, <3>3, <3>4 DEF Promise!Complete
    <3> QED
      BY <3>4, <3>5 DEF Keeps, Promise!Next
  <2> QED
    BY <2>3, <2>4
<1> QED
  BY <1>3, <1>4

-----------------------------------------------------------------------------
(* Starting a preserve.                                                     *)

\* mirrorItem takes a row: the work begins, or it is kept at once, or it fails.
LEMMA MirrorItemTakes ==
  ASSUME IInv, Idle, NEW i \in Item,
         NEW rows \in [Item -> RowState], NEW file \in [Item -> RowState],
         SavedAs(rows, file), MirrorItem(i, rows, file)
  PROVE  Promise!Take(rows, i) /\ Current = Nobody /\ SavedInTime'
<1>1. /\ iaItem = Nobody /\ reseedItem = Nobody /\ Current = Nobody
      /\ rows[i] # "gone" /\ i # Nobody
  BY Kinds DEF Idle, Current, MirrorItem
<1>2. CASE i \in IaItem
  <2>1. /\ iaItem' = i /\ SetStateIn(rows, file, i, "mirroring")
        /\ UNCHANGED <<reseedItem, held>>
    BY <1>2 DEF MirrorItem, StartIaPreserve, reseedVars
  <2>2. st' = Promise!Show(rows, i, "mirroring") /\ SavedInTime'
    BY <2>1, ShowFacts
  <2> QED
    BY <1>1, <2>1, <2>2, KeptSame DEF Promise!Take, Promise!Show
<1>3. CASE i \notin IaItem
  <2>1. MirrorCidRow(i, rows, file) /\ iaItem' = iaItem /\ i \in CidItem
    BY <1>3, Kinds DEF MirrorItem, MirrorCidRow, iaVars
  <2>2. PICK s \in {"mirrored", "mirroring", "error"} :
          /\ SetStateIn(rows, file, i, s)
          /\ reseedItem' = IF s = "mirroring" THEN i ELSE reseedItem
          /\ held' = IF s = "mirrored" THEN held \cup {InscribedCid(i)} ELSE held
    <3>1. CASE /\ held' = held \cup {InscribedCid(i)}
               /\ SetStateIn(rows, file, i, "mirrored")
               /\ UNCHANGED reseedVars
      BY <3>1 DEF reseedVars
    <3>2. CASE StartReseed(i, rows, file) /\ UNCHANGED held
      BY <3>2 DEF StartReseed, reseedVars
    <3> QED
      BY <2>1, <3>1, <3>2 DEF MirrorCidRow
  <2>3. st' = Promise!Show(rows, i, s) /\ SavedInTime'
    BY <2>2, ShowFacts
  <2>4. st' = [rows EXCEPT ![i] = s]
    BY <1>1, <2>3 DEF Promise!Show
  <2>5. CASE s = "mirrored"
    <3>0. InscribedCid(i).item = i /\ held' = held \cup {InscribedCid(i)}
      BY <2>2, <2>5 DEF InscribedCid, Cid
    <3>1. Kept' \in {Kept, Kept \cup {i}}
      BY <3>0, KeptGrows
    <3>2. i \in Kept'
      BY <2>1, <2>2, <2>5 DEF Kept, InscribedCid
    <3>3. Kept' = Kept \cup {i}
      BY <3>1, <3>2
    <3> QED
      BY <1>1, <2>1, <2>2, <2>3, <2>4, <2>5, <3>3 DEF Promise!Take
  <2>6. CASE s # "mirrored"
    BY <1>1, <2>1, <2>2, <2>3, <2>4, <2>6, KeptSame DEF Promise!Take
  <2> QED
    BY <2>5, <2>6
<1> QED
  BY <1>2, <1>3

\* drainAutoQueue, after the rows of S were discovered: a row is taken, or none is.
LEMMA DrainKeeps ==
  ASSUME IInv, NEW S \in SUBSET Item, \A i \in S : st[i] = "gone",
         NEW file \in [Item -> RowState], NEW q \in Seq(Item), NEW health,
         NEW rows, rows = [i \in Item |-> IF i \in S THEN "available" ELSE st[i]],
         SavedAs(rows, file), DrainAutoQueue(q, rows, file, health)
  PROVE  Keeps /\ SavedInTime'
<1> DEFINE ready == {k \in DOMAIN q : Startable(q[k], rows)}
           first == CHOOSE k \in ready : \A j \in ready : k <= j
<1>0. rows \in [Item -> RowState]
  BY InvFacts, RowStates
<1>1. CASE Idle /\ health = "ready" /\ ready # {}
  <2>1. MirrorItem(q[first], rows, file)
    BY <1>1 DEF DrainAutoQueue
  <2>2. first \in ready
    BY <1>1, FirstPosition
  <2>3. q[first] \in Item
    BY <2>2 DEF Startable
  <2> HIDE DEF first, ready
  <2>4. Promise!Take(rows, q[first]) /\ Current = Nobody /\ SavedInTime'
    BY <1>0, <1>1, <2>1, <2>3, MirrorItemTakes
  <2>5. Promise!Discover(S)
    BY <2>3, <2>4 DEF Promise!Discover, Current
  <2> QED
    BY <2>4, <2>5 DEF Keeps, Promise!Next
<1>2. CASE ~(Idle /\ health = "ready" /\ ready # {})
  <2>1. st' = rows /\ disk' = file /\ UNCHANGED <<iaItem, reseedItem, held>>
    BY <1>2 DEF DrainAutoQueue, iaVars, reseedVars
  <2> HIDE DEF first, ready
  <2>2. Promise!Discover(S)
    BY <2>1, KeptSame DEF Promise!Discover
  <2> QED
    BY <2>1, <2>2 DEF Keeps, Promise!Next, SavedInTime, SavedAs
<1> QED
  BY <1>1, <1>2

\* The same when nothing was discovered.
LEMMA DrainAloneKeeps ==
  ASSUME IInv, NEW file \in [Item -> RowState], NEW q \in Seq(Item), NEW health,
         SavedAs(st, file), DrainAutoQueue(q, st, file, health)
  PROVE  Keeps /\ SavedInTime'
<1>1. PICK S \in SUBSET Item : S = {}
  OBVIOUS
<1>2. st = [i \in Item |-> IF i \in S THEN "available" ELSE st[i]]
  BY <1>1, InvFacts
<1>3. \A i \in S : st[i] = "gone"
  BY <1>1
<1> QED
  BY <1>2, <1>3, DrainKeeps

-----------------------------------------------------------------------------
(* User calls, timers and the host.                                         *)

\* The user's preserve takes the row; a clean user waits until nothing else runs.
LEMMA MirrorKeeps ==
  ASSUME CleanUse, IInv, SavedInTime, NEW i \in Item, Mirror(i)
  PROVE  Keeps /\ SavedInTime'
<1>1. Idle /\ MirrorItem(i, st, disk)
  BY Kinds DEF Mirror, MirrorItem, CleanUse
<1>2. Promise!Take(st, i) /\ Current = Nobody /\ SavedInTime'
  BY <1>1, InvFacts, MirrorItemTakes DEF SavedInTime
<1>3. st = [j \in Item |-> IF j \in {} THEN "available" ELSE st[j]]
  BY InvFacts
<1>4. Promise!Discover({})
  BY <1>2, <1>3 DEF Promise!Discover, Current
<1> QED
  BY <1>2, <1>4 DEF Keeps, Promise!Next

\* An abort gives up the work on its row.
LEMMA AbortKeeps ==
  ASSUME CleanUse, IInv, SavedInTime, NEW i \in Item, Abort(i)
  PROVE  Keeps /\ SavedInTime'
<1>1. /\ st[i] \in {"mirroring", "pending"} /\ i # Nobody
      /\ SetState(i, "available") /\ UNCHANGED <<reseedItem, held>>
      /\ iaItem' = IF iaItem = i THEN Nobody ELSE iaItem
  BY Kinds DEF Abort, Sees, CleanUse, reseedVars
<1>2. st' = Promise!Show(st, i, "available") /\ SavedInTime'
  BY <1>1, ShowFacts, InvFacts DEF SetState, SavedInTime
<1>3. Current' \in {Current, IF Current = i THEN Nobody ELSE Current}
  BY <1>1, InvFacts DEF Current
<1>4. Promise!Abort(i)
  BY <1>1, <1>2, <1>3, KeptSame DEF Promise!Abort, Promise!Show, Current
<1> QED
  BY <1>2, <1>4 DEF Keeps, Promise!Next

\* An unpreserve releases its row and nothing but its row.
LEMMA UnmirrorKeeps ==
  ASSUME CleanUse, IInv, SavedInTime, NEW i \in Item, Unmirror(i)
  PROVE  Keeps /\ SavedInTime'
<1>1. st[i] = "mirrored"
  BY UnmirrorFacts
<1>2. PICK s \in {"available", "error"} : SetState(i, s)
  BY UnmirrorFacts
<1>3. st' = Promise!Show(st, i, s) /\ SavedInTime'
  BY <1>2, ShowFacts, InvFacts DEF SetState, SavedInTime
<1>4. Kept' \in {Kept, Kept \ {i}}
  BY UnmirrorFacts, KeptShrinks
<1>5. UNCHANGED <<iaItem, reseedItem>>
  BY DEF Unmirror, iaVars, reseedVars
<1>6. Promise!Release(i)
  BY <1>1, <1>3, <1>4, <1>5 DEF Promise!Release, Promise!Show
<1> QED
  BY <1>3, <1>6 DEF Keeps, Promise!Next

\* Removing rows forgets them and keeps what is kept.
LEMMA ForgetKeeps ==
  ASSUME IInv, SavedInTime,
         (\E i \in Item : Remove(i)) \/ UnfollowChannel \/ RemoveAllItems
  PROVE  Keeps /\ SavedInTime'
<1>1. PICK S \in SUBSET Item : st' = [i \in Item |-> IF i \in S THEN "gone" ELSE st[i]]
  <2>1. ASSUME NEW i \in Item, Remove(i)
        PROVE  st' = [j \in Item |-> IF j \in {i} THEN "gone" ELSE st[j]]
    BY <2>1, InvFacts DEF Remove
  <2>2. CASE UnfollowChannel \/ RemoveAllItems
    <3>1. st' = [i \in Item |-> IF i \in Item THEN "gone" ELSE st[i]]
      BY <2>2 DEF UnfollowChannel, RemoveAllItems, ForgetChannel
    <3> QED
      BY <3>1
  <2> QED
    BY <2>1, <2>2
<1>2. disk' = st' /\ UNCHANGED <<iaItem, reseedItem, held>>
  BY DEF Remove, UnfollowChannel, RemoveAllItems, ForgetChannel, iaVars, reseedVars
<1>3. Promise!Forget(S)
  BY <1>1, <1>2, KeptSame DEF Promise!Forget
<1> QED
  BY <1>2, <1>3 DEF Keeps, Promise!Next, SavedInTime, SavedAs

\* Turning auto on, a tick of the health timer and a discovery drain the queue.
LEMMA QueueKeeps ==
  ASSUME IInv, SavedInTime,
         \/ \E on \in BOOLEAN : SetAutoPreserve(on)
         \/ \E ok \in BOOLEAN : HealthTick(ok)
         \/ \E S \in SUBSET Item : Discover(S)
  PROVE  Keeps /\ SavedInTime'
<1>0. /\ st \in [Item -> RowState] /\ disk \in [Item -> RowState]
      /\ autoQueue \in Seq(Item)
  BY InvFacts DEF TypeOK
<1>1. ASSUME NEW on \in BOOLEAN, SetAutoPreserve(on) PROVE Keeps /\ SavedInTime'
  <2>1. CASE on
    <3> DEFINE wanted == {i \in Item \ (Oversize \cup Elems(autoQueue)) :
                            st[i] \in {"available", "error"}}
    <3>1. PICK new \in Orders(wanted) : DrainAutoQueue(autoQueue \o new, st, st, storageState)
      BY <1>1, <2>1 DEF SetAutoPreserve
    <3>2. wanted \in SUBSET Item
      OBVIOUS
    <3>3. autoQueue \o new \in Seq(Item)
      BY <1>0, <3>2, OrdersType, PreserveAssumption, ConcatProperties
    <3>4. SavedAs(st, st)
      BY DEF SavedAs
    <3> HIDE DEF wanted
    <3> QED
      BY <1>0, <3>1, <3>3, <3>4, DrainAloneKeeps
  <2>2. CASE ~on
    <3>1. disk' = st /\ UNCHANGED <<st, iaItem, reseedItem, held>>
      BY <1>1, <2>2 DEF SetAutoPreserve, iaVars, reseedVars
    <3> QED
      BY <3>1, NothingShown DEF SavedInTime, SavedAs
  <2> QED
    BY <2>1, <2>2
<1>2. ASSUME NEW ok \in BOOLEAN, HealthTick(ok) PROVE Keeps /\ SavedInTime'
  BY <1>0, <1>2, DrainAloneKeeps DEF HealthTick, SavedInTime
<1>3. ASSUME NEW S \in SUBSET Item, Discover(S) PROVE Keeps /\ SavedInTime'
  <2> DEFINE rows == [i \in Item |-> IF i \in S THEN "available" ELSE st[i]]
             wanted == IF auto THEN S \ (Oversize \cup Elems(autoQueue)) ELSE {}
  <2>1. PICK new \in Orders(wanted) :
          DrainAutoQueue(autoQueue \o new, rows, disk, storageState)
    BY <1>3 DEF Discover
  <2>2. \A i \in S : st[i] = "gone"
    BY <1>3 DEF Discover
  <2>3. wanted \in SUBSET Item
    OBVIOUS
  <2>4. autoQueue \o new \in Seq(Item)
    BY <1>0, <2>3, OrdersType, PreserveAssumption, ConcatProperties
  <2>5. SavedAs(rows, disk)
    BY DEF SavedInTime, SavedAs
  <2> HIDE DEF wanted
  <2> QED
    BY <1>0, <2>1, <2>2, <2>4, <2>5, DrainKeeps
<1> QED
  BY <1>1, <1>2, <1>3

\* What comes back after a restart is what was preserved, and nothing that was gone.
LEMMA RestartKeeps ==
  ASSUME IInv, SavedInTime, Restart
  PROVE  Keeps /\ SavedInTime'
<1>1. /\ st' = [i \in Item |-> Loaded(disk[i])] /\ disk' = disk /\ Current' = Nobody
      /\ UNCHANGED held
  BY DEF Restart, Current
<1>2. ASSUME NEW i \in Item
      PROVE  /\ st'[i] \in {"gone", "available", "mirrored", "pending"}
             /\ st'[i] = "mirrored" <=> st[i] = "mirrored"
             /\ st[i] = "gone" => st'[i] = "gone"
             /\ st'[i] = "mirrored" => disk'[i] = "mirrored"
             /\ st'[i] = "gone" => disk'[i] = "gone"
  <2>1. /\ disk[i] \in RowState /\ st'[i] = Loaded(disk[i])
        /\ disk[i] = "mirrored" <=> st[i] = "mirrored"
        /\ st[i] = "gone" => disk[i] = "gone"
    BY <1>1, InvFacts DEF SavedInTime, SavedAs
  <2> QED
    BY <1>1, <2>1 DEF Loaded, RowState
<1>3. st' \in [Item -> {"gone", "available", "mirrored", "pending"}]
  BY <1>1, <1>2
<1>4. Promise!Restart
  BY <1>1, <1>2, <1>3, KeptSame DEF Promise!Restart, Current
<1> QED
  BY <1>2, <1>4 DEF Keeps, Promise!Next, SavedInTime, SavedAs

-----------------------------------------------------------------------------
(* The theorem.                                                             *)

\* Nothing is shown, worked on or kept at the start.
LEMMA InitKeeps == Init => Promise!Init /\ SavedInTime
<1> SUFFICES ASSUME Init PROVE Promise!Init /\ SavedInTime
  OBVIOUS
<1>1. Kept = {}
  <2>1. ASSUME NEW i \in IaItem
        PROVE  ~(\A k \in 1..FileCount[i] : FileCids(i, k) \cap held # {})
    <3>1. 1 \in 1..FileCount[i]
      BY PreserveAssumption DEF PreserveAssumption
    <3> QED
      BY <3>1 DEF Init
  <2> QED
    BY <2>1 DEF Kept, Init
<1> QED
  BY <1>1 DEF Init, Promise!Init, SavedInTime, SavedAs

\* Every step of the plugin under clean use is a step of the keeper.
LEMMA StepKeeps ==
  ASSUME CleanUse, IInv, SavedInTime, [Next]_vars
  PROVE  Keeps /\ SavedInTime'
<1>1. ASSUME UNCHANGED <<st, disk, iaItem, reseedItem, held>>
      PROVE  Keeps /\ SavedInTime'
  BY <1>1, NothingShown DEF SavedInTime, SavedAs
<1>2. CASE Environment
  <2>1. ASSUME NEW r \in InFlight, IaProgress(r) PROVE Keeps /\ SavedInTime'
    <3>1. /\ Current = iaItem /\ iaItem \in Item /\ iaItem # Nobody
          /\ SetState(iaItem, "mirroring") /\ UNCHANGED <<iaItem, reseedItem, held>>
      BY <2>1, IaOwner DEF IaProgress, Current, iaVars, reseedVars
    <3> QED
      BY <1>2, <3>1, ProgressKeeps
  <2>2. ASSUME NEW i \in reseedReplies, ReseedProgress(i) PROVE Keeps /\ SavedInTime'
    <3>1. /\ Current = i /\ i \in Item /\ i # Nobody
          /\ SetState(i, "mirroring") /\ UNCHANGED <<iaItem, reseedItem, held>>
      BY <2>2, ReseedOwner, Kinds DEF ReseedProgress, Current, iaVars, reseedVars
    <3> QED
      BY <3>1, ProgressKeeps
  <2>3. CASE BroughtUp \/ NodeStarted
    BY <1>1, <2>3
       DEF BroughtUp, NodeStarted, ElsewhereUnchanged, rowVars, iaVars, reseedVars
  <2>4. ~(\E c \in nodeUploads : UploadDoneLost(c))
    BY DEF UploadDoneLost, CleanUse
  <2>5. CASE TransferEnds
    BY <2>5, ManifestReplyKeeps, FileReplyKeeps DEF TransferEnds
  <2>6. CASE ReseedTransferEnds
    BY <2>6, ReseedReplyKeeps DEF ReseedTransferEnds
  <2>7. CASE UploadEnds
    BY <2>7, UploadDoneKeeps DEF UploadEnds
  <2> QED
    BY <1>2, <2>1, <2>2, <2>3, <2>4, <2>5, <2>6, <2>7, CleanUploads DEF Environment
<1>3. CASE UserCall
  BY <1>3, MirrorKeeps, AbortKeeps, UnmirrorKeeps, ForgetKeeps, QueueKeeps DEF UserCall
<1>4. CASE Background
  <2>1. CASE BringUp
    BY <1>1, <2>1 DEF BringUp, ElsewhereUnchanged, rowVars, iaVars, reseedVars
  <2>2. CASE ScanSaved
    <3>1. disk' = st /\ UNCHANGED <<st, iaItem, reseedItem, held>>
      BY <2>2 DEF ScanSaved, iaVars, reseedVars
    <3> QED
      BY <3>1, NothingShown DEF SavedInTime, SavedAs
  <2> QED
    BY <1>4, <2>1, <2>2, QueueKeeps, RestartKeeps DEF Background
<1>5. CASE UNCHANGED vars
  BY <1>1, <1>5 DEF vars, rowVars, iaVars, reseedVars
<1> QED
  BY <1>2, <1>3, <1>4, <1>5 DEF Next

\* Under clean use the preserve machinery is a keeper: a row is marked only when all
\* of its content is stored, only its own release gives that up, one item is worked
\* on at a time, and a restart brings back what was preserved and nothing else.
THEOREM PreserveKeeps == CleanUse /\ Spec => KeepsItems
<1> SUFFICES ASSUME CleanUse PROVE Spec => KeepsItems
  OBVIOUS
<1>1. IInv /\ SavedInTime /\ [Next]_vars => [Promise!Next]_Promise!vars /\ SavedInTime'
  BY StepKeeps DEF Keeps
<1> QED
  BY <1>1, InitKeeps, Invariance, PTL DEF Spec, KeepsItems, Promise!Spec
==============================================================================

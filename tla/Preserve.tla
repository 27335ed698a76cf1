------------------------------- MODULE Preserve -------------------------------
(***************************************************************************)
(* The preserve side of ArchivePlugin: one followed channel's item rows,   *)
(* the Internet Archive (ia_item) preserve machine, the reseed fallback of *)
(* CID rows, the auto-preserve queue, unpreserve, abort, removal, and the  *)
(* state file they leave for the next start, over the StorageClient.       *)
(*                                                                         *)
(* The plugin is one Qt event loop: a handler runs to its end, and what    *)
(* interleaves is the order in which user calls, HTTP replies, the         *)
(* storageUploadDone event and the health timer get their turn.            *)
(***************************************************************************)
EXTENDS StorageClient, FiniteSets, Integers, Sequences

CONSTANTS
  IaItem,               \* rows preserved from the Internet Archive
  Collections,          \* the ones among them whose row has a CID field, "ia:<id>"
  CidItem,              \* rows that carry a Logos Storage CID
  FileCount,            \* [IaItem -> files the item's manifest lists]
  Published,            \* {<<i, k>>: the manifest has a checksum for file k of i}
  Candidates,           \* [CidItem -> IA sources derivable from the inscription]
  Oversize,             \* rows above kAutoPreserveMaxBytes
  Nobody,               \* "no item"
  \* Bounds on what the user and the environment do:
  UserOps,              \* the operations the user calls
  AbortPhases,          \* where a preserve may be when its abort is called
  StaleView,            \* may a call come for a row the view shows in an old state?
  Overlap,              \* may a CID row be preserved while another preserve runs?
  Restarts,             \* may the host stop and start again between two handlers?
  LostEvents,           \* may a storageUploadDone event be lost?
  SharedNode,           \* may another consumer upload to the same storage_module?
  SlowCalls             \* may an upload call time out after the node took the file?

Item == IaItem \cup CidItem

UserOp == {"mirror", "abort", "unmirror", "remove", "unfollow", "removeAll", "auto"}

\* Where the preserve of a row may be: elsewhere (queued, a CID row), waiting for
\* the manifest, downloading a file, or uploading it.
Phases == {"none", "manifest", "download", "upload"}

ASSUME PreserveAssumption ==
  /\ IaItem \cap CidItem = {}
  /\ Nobody \notin Item
  /\ IsFiniteSet(Item)
  /\ Collections \subseteq IaItem
  /\ FileCount \in [IaItem -> Nat \ {0}]
  /\ Published \subseteq IaItem \X (Nat \ {0})
  /\ Candidates \in [CidItem -> Nat]
  /\ UserOps \subseteq UserOp
  /\ AbortPhases \subseteq Phases
  /\ StaleView \in BOOLEAN
  /\ Overlap \in BOOLEAN
  /\ Restarts \in BOOLEAN
  /\ LostEvents \in BOOLEAN
  /\ SharedNode \in BOOLEAN
  /\ SlowCalls \in BOOLEAN

VARIABLES
  st, stored,           \* item rows: state and storedCids
  disk,                 \* item states in state.json (storedCids are written through)
  auto,                 \* the channel's autoPreserve flag
  autoQueue,            \* m_autoQueue
  iaItem,               \* m_iaItemId
  iaMan,                \* whose manifest m_iaFiles holds, Nobody when empty
  iaIdx,                \* m_iaIdx: files done
  iaUnverified,         \* m_iaUnverified
  iaCids,               \* m_iaStoredCids
  iaTmp,                \* is m_iaTmpPath set?
  iaReply,              \* the request m_iaReply tracks, NoReply when null
  strays,               \* requests still in flight that m_iaReply no longer tracks
  reseedItem,           \* m_reseedItemId
  reseedLeft,           \* number of m_reseedCandidates untried
  reseedReplies,        \* rows with a reseed download in flight
  held                  \* (node) contents Logos Storage holds for us

rowVars == <<st, stored, disk>>
queueVars == <<auto, autoQueue>>
iaVars == <<iaItem, iaMan, iaIdx, iaUnverified, iaCids, iaTmp, iaReply, strays>>
reseedVars == <<reseedItem, reseedLeft, reseedReplies>>
vars == <<storageVars, rowVars, queueVars, iaVars, reseedVars, held>>

RowState == {"gone", "available", "mirroring", "mirrored", "pending", "error"}

(***************************************************************************)
(* A CID names content: file k of an IA item, or the file behind a CID row *)
(* (k = 0).  good: the bytes match what was published -- IA's checksum, or *)
(* the inscribed CID.  A collection row's CID field names no content.      *)
(***************************************************************************)
Cid(i, k, g) == [item |-> i, file |-> k, good |-> g]
Cids == [item : Item \cup {Nobody}, file : Nat, good : BOOLEAN]
InscribedCid(i) == Cid(i, 0, TRUE)

\* What another consumer of the node has uploaded.
ForeignCid == Cid(Nobody, 0, FALSE)

\* An archive.org request: the manifest of an item (file 0) or one of its files.
\* man: whose manifest named the file, item: under whose IA id it is asked for.
Request(i, m, k) == [item |-> i, man |-> m, file |-> k]
Requests == [item : IaItem, man : IaItem \cup {Nobody}, file : Nat]
NoReply == [item |-> Nobody, man |-> Nobody, file |-> 0]
IsManifest(r) == r.file = 0

Elems(q) == {q[k] : k \in DOMAIN q}
AppendNew(q, i) == IF i \in Elems(q) THEN q ELSE Append(q, i)

\* removeAll(i) on a queue that holds i at most once.
Without(q, i) ==
  IF i \notin Elems(q) THEN q
  ELSE LET k == CHOOSE k \in DOMAIN q : q[k] = i
       IN SubSeq(q, 1, k - 1) \o SubSeq(q, k + 1, Len(q))

\* The members of S in some order.
Orders(S) == {q \in [1..Cardinality(S) -> S] : Elems(q) = S}

FilesIn(m) == IF m = Nobody THEN 0 ELSE FileCount[m]

\* The type invariant of the rows, the queue, both machines and the slot.
TypeOK ==
  /\ StorageTypeOK(Cids)
  /\ st \in [Item -> RowState]
  /\ stored \in [Item -> Seq(Cids)]
  /\ disk \in [Item -> RowState]
  /\ auto \in BOOLEAN
  /\ autoQueue \in Seq(Item)
  /\ iaItem \in IaItem \cup {Nobody}
  /\ iaMan \in IaItem \cup {Nobody}
  /\ iaIdx \in Nat
  /\ iaUnverified \in Nat
  /\ iaCids \in Seq(Cids)
  /\ iaTmp \in BOOLEAN
  /\ iaReply \in Requests \cup {NoReply}
  /\ strays \in SUBSET Requests
  /\ reseedItem \in CidItem \cup {Nobody}
  /\ reseedLeft \in Nat
  /\ reseedReplies \in SUBSET CidItem
  /\ held \in SUBSET Cids

Init ==
  /\ StorageInit
  /\ st = [i \in Item |-> "gone"]
  /\ stored = [i \in Item |-> <<>>]
  /\ disk = st
  /\ auto = FALSE
  /\ autoQueue = <<>>
  /\ iaItem = Nobody
  /\ iaMan = Nobody
  /\ iaIdx = 0
  /\ iaUnverified = 0
  /\ iaCids = <<>>
  /\ iaTmp = FALSE
  /\ iaReply = NoReply
  /\ strays = {}
  /\ reseedItem = Nobody
  /\ reseedLeft = 0
  /\ reseedReplies = {}
  /\ held = {}

-----------------------------------------------------------------------------
(***************************************************************************)
(* Item rows (LezClient).  Every state but "mirroring" is saved, and a     *)
(* save writes all rows.  A call for a row that is gone changes nothing.   *)
(* rows, file: the item states and state.json at this point of a handler.  *)
(***************************************************************************)
\* Faulty variant: only a preserved row is saved.
SetStateInKeepsOld(rows, file, i, s) ==
  IF rows[i] = "gone"
  THEN st' = rows /\ disk' = file
  ELSE /\ st' = [rows EXCEPT ![i] = s]
       /\ disk' = IF s = "mirrored" THEN [rows EXCEPT ![i] = s] ELSE file

SetStateIn(rows, file, i, s) ==
  IF rows[i] = "gone"
  THEN st' = rows /\ disk' = file
  ELSE /\ st' = [rows EXCEPT ![i] = s]
       /\ disk' = IF s = "mirroring" THEN file ELSE [rows EXCEPT ![i] = s]

SetState(i, s) == SetStateIn(st, disk, i, s)

SetStoredCids(i, cids) ==
  stored' = IF st[i] = "gone" THEN stored ELSE [stored EXCEPT ![i] = cids]

\* Faulty variant: rows come back as they were saved.
LoadedVerbatim(s) == s

\* loadState: no preserve survives a restart, and errors are retryable.
Loaded(s) == IF s \in {"mirroring", "error"} THEN "available" ELSE s

-----------------------------------------------------------------------------
(***************************************************************************)
(* The ia_item machine.  tracked/untracked: the requests in flight at this *)
(* point of the handler, m_iaReply's and the others.                       *)
(***************************************************************************)
Idle == iaItem = Nobody /\ reseedItem = Nobody

\* m_iaReply = nam->get(...): the pointer moves on, the old request stays in flight.
SendRequest(r, tracked, untracked) ==
  /\ iaReply' = r
  /\ strays' = IF tracked = NoReply THEN untracked ELSE untracked \cup {tracked}

\* Faulty variant: the count of the run before is carried on.
StartIaPreserveCarries(i, rows, file) ==
  /\ iaItem' = i
  /\ iaMan' = Nobody
  /\ iaIdx' = 0
  /\ iaCids' = <<>>
  /\ SetStateIn(rows, file, i, "mirroring")
  /\ SendRequest(Request(i, Nobody, 0), iaReply, strays)
  /\ UNCHANGED <<iaUnverified, iaTmp, stored, reseedVars, held>>

StartIaPreserve(i, rows, file) ==
  /\ iaItem' = i
  /\ iaMan' = Nobody
  /\ iaIdx' = 0
  /\ iaUnverified' = 0
  /\ iaCids' = <<>>
  /\ SetStateIn(rows, file, i, "mirroring")
  /\ SendRequest(Request(i, Nobody, 0), iaReply, strays)
  /\ UNCHANGED <<iaTmp, stored, reseedVars, held>>

\* Faulty variant: the machine goes idle and leaves the row breathing.
IaStopSilently(s, tracked, untracked) ==
  /\ iaItem' = Nobody
  /\ iaMan' = Nobody
  /\ iaCids' = <<>>
  /\ iaTmp' = FALSE
  /\ iaReply' = tracked
  /\ strays' = untracked
  /\ UNCHANGED <<iaIdx, stored, st, disk>>

\* iaFail ("error") and iaPending ("pending"): the machine goes idle, what was
\* uploaded so far is forgotten.
IaStop(s, tracked, untracked) ==
  /\ iaItem' = Nobody
  /\ iaMan' = Nobody
  /\ iaCids' = <<>>
  /\ iaTmp' = FALSE
  /\ iaReply' = tracked
  /\ strays' = untracked
  /\ SetState(iaItem, s)
  /\ UNCHANGED <<iaIdx, stored>>

IaFail(tracked, untracked) ==
  /\ IaStop("error", tracked, untracked)
  /\ UNCHANGED autoQueue

\* Faulty variants: not queued; queued under the id that was just cleared.
IaPendingUnqueued(tracked, untracked) ==
  IaStop("pending", tracked, untracked) /\ UNCHANGED autoQueue

IaPendingCleared(tracked, untracked) ==
  /\ IaStop("pending", tracked, untracked)
  /\ autoQueue' = AppendNew(autoQueue, iaItem')

IaPending(tracked, untracked) ==
  /\ IaStop("pending", tracked, untracked)
  /\ autoQueue' = AppendNew(autoQueue, iaItem)

\* Faulty variant: the item completes one file early.
IaNextFileEarly(m, idx, cids, tmp, tracked, untracked) ==
  /\ iaIdx' = idx
  /\ IF idx + 1 >= FilesIn(m)
     THEN /\ iaItem' = Nobody
          /\ iaMan' = Nobody
          /\ iaCids' = <<>>
          /\ iaTmp' = tmp
          /\ iaReply' = tracked
          /\ strays' = untracked
          /\ SetStoredCids(iaItem, cids)
          /\ SetState(iaItem, "mirrored")
     ELSE /\ iaMan' = m
          /\ iaCids' = cids
          /\ iaTmp' = TRUE
          /\ SendRequest(Request(iaItem, m, idx + 1), tracked, untracked)
          /\ UNCHANGED <<iaItem, st, stored, disk>>

\* iaNextFile with m_iaFiles = files of m, m_iaIdx = idx, m_iaStoredCids = cids:
\* complete the item or ask for the next file.
IaNextFile(m, idx, cids, tmp, tracked, untracked) ==
  /\ iaIdx' = idx
  /\ IF idx >= FilesIn(m)
     THEN /\ iaItem' = Nobody
          /\ iaMan' = Nobody
          /\ iaCids' = <<>>
          /\ iaTmp' = tmp
          /\ iaReply' = tracked
          /\ strays' = untracked
          /\ SetStoredCids(iaItem, cids)
          /\ SetState(iaItem, "mirrored")
     ELSE /\ iaMan' = m
          /\ iaCids' = cids
          /\ iaTmp' = TRUE
          /\ SendRequest(Request(iaItem, m, idx + 1), tracked, untracked)
          /\ UNCHANGED <<iaItem, st, stored, disk>>

-----------------------------------------------------------------------------
(***************************************************************************)
(* CID rows: pin what the network provides; when nobody does, download the *)
(* file from the Internet Archive and upload it (reseed).                  *)
(***************************************************************************)
StartReseed(i, rows, file) ==
  IF Candidates[i] = 0 \/ reseedItem # Nobody
  THEN /\ SetStateIn(rows, file, i, "error")
       /\ UNCHANGED reseedVars
  ELSE /\ reseedItem' = i
       /\ reseedLeft' = Candidates[i] - 1
       /\ reseedReplies' = reseedReplies \cup {i}
       /\ SetStateIn(rows, file, i, "mirroring")

MirrorCidRow(i, rows, file) ==
  /\ \/ /\ held' = held \cup {InscribedCid(i)}
        /\ SetStateIn(rows, file, i, "mirrored")
        /\ UNCHANGED reseedVars
     \/ /\ StartReseed(i, rows, file)
        /\ UNCHANGED held
  /\ UNCHANGED <<iaVars, stored>>

\* Faulty variant: a second preserve starts while one is in flight.
MirrorItemUnguarded(i, rows, file) ==
  /\ rows[i] # "gone"
  /\ IF i \in IaItem THEN StartIaPreserve(i, rows, file) ELSE MirrorCidRow(i, rows, file)

\* mirrorItem once storage is ready.
MirrorItem(i, rows, file) ==
  /\ rows[i] # "gone"
  /\ IF i \in IaItem
     THEN Idle /\ StartIaPreserve(i, rows, file)
     ELSE MirrorCidRow(i, rows, file)

(***************************************************************************)
(* drainAutoQueue over queue q and rows: start the first item that is      *)
(* still startable and drop the ones before it.                            *)
(***************************************************************************)
\* An id that names no row has no state.
Startable(i, rows) == i \in Item /\ rows[i] \in {"available", "pending"}

DrainAutoQueue(q, rows, file, health) ==
  LET ready == {k \in DOMAIN q : Startable(q[k], rows)}
      first == CHOOSE k \in ready : \A j \in ready : k <= j
  IN IF Idle /\ health = "ready" /\ ready # {}
     THEN /\ autoQueue' = SubSeq(q, first + 1, Len(q))
          /\ MirrorItem(q[first], rows, file)
     ELSE /\ autoQueue' = IF Idle /\ health = "ready" THEN <<>> ELSE q
          /\ st' = rows
          /\ disk' = file
          /\ UNCHANGED <<stored, iaVars, reseedVars, held>>

-----------------------------------------------------------------------------
(* The plugin's uploadFinished handler, and the replies and events.        *)

UploadFinished(ok, c) ==
  IF iaItem # Nobody
  THEN /\ IF ok
          THEN /\ IaNextFile(iaMan, iaIdx + 1, Append(iaCids, c), FALSE, iaReply, strays)
               /\ UNCHANGED autoQueue
          ELSE IaPending(iaReply, strays)
       /\ UNCHANGED <<reseedItem, reseedLeft>>
  ELSE /\ UNCHANGED <<iaItem, iaMan, iaIdx, iaCids, iaTmp, iaReply, strays>>
       /\ UNCHANGED <<stored, autoQueue, reseedLeft>>
       /\ IF reseedItem # Nobody
          THEN /\ reseedItem' = Nobody
               /\ SetState(reseedItem, IF ok THEN "mirrored" ELSE "error")
          ELSE UNCHANGED <<reseedItem, st, disk>>

UploadDone(c, ok) ==
  /\ UploadDoneEvent(c)
  /\ held' = IF ok THEN held \cup {c} ELSE held
  /\ IF uploading
     THEN UploadFinished(ok, c) /\ UNCHANGED <<iaUnverified, reseedReplies>>
     ELSE UNCHANGED <<rowVars, iaVars, reseedVars, autoQueue>>
  /\ UNCHANGED <<healthVars, auto>>

\* The node finishes, but nobody hears of it.
UploadDoneLost(c) ==
  /\ LostEvents
  /\ c \in nodeUploads
  /\ nodeUploads' = nodeUploads \ {c}
  /\ held' = held \cup {c}
  /\ UNCHANGED <<healthVars, uploading, rowVars, queueVars, iaVars, reseedVars>>

\* storage_module is shared and its event has no owner: the end of another consumer's
\* upload is taken for ours while we wait for one, and credits its CID.
ForeignDone(ok) ==
  /\ SharedNode
  /\ ForeignUploadDone
  /\ IF uploading
     THEN UploadFinished(ok, ForeignCid) /\ UNCHANGED <<iaUnverified, reseedReplies>>
     ELSE UNCHANGED <<rowVars, iaVars, reseedVars, autoQueue>>
  /\ UNCHANGED <<healthVars, auto, held>>

\* upload() fails: refused, or for the caller only.
UploadFails(c) == UploadRefused \/ (SlowCalls /\ UploadTimedOut(c))

InFlight == strays \cup ({iaReply} \ {NoReply})
Tracked(r) == IF r = iaReply THEN NoReply ELSE iaReply
Untracked(r) == IF r = iaReply THEN strays ELSE strays \ {r}

ReplyDropped(r) ==
  /\ iaReply' = Tracked(r)
  /\ strays' = Untracked(r)
  /\ UNCHANGED <<rowVars, autoQueue, iaItem, iaMan, iaIdx, iaUnverified, iaCids, iaTmp>>

\* Faulty variant: a manifest that cannot be had is ignored.
ManifestReplyIgnored(r, ok) ==
  /\ r \in InFlight
  /\ IsManifest(r)
  /\ IF iaItem = Nobody \/ ~ok THEN ReplyDropped(r)
     ELSE /\ IaNextFile(r.item, iaIdx, iaCids, iaTmp, Tracked(r), Untracked(r))
          /\ UNCHANGED <<autoQueue, iaUnverified>>
  /\ UNCHANGED <<storageVars, auto, reseedVars, held>>

\* finished() of {id}_files.xml: an item in flight takes it, whichever it is.
ManifestReply(r, ok) ==
  /\ r \in InFlight
  /\ IsManifest(r)
  /\ IF iaItem = Nobody THEN ReplyDropped(r)
     ELSE /\ IF ok
             THEN /\ IaNextFile(r.item, iaIdx, iaCids, iaTmp, Tracked(r), Untracked(r))
                  /\ UNCHANGED autoQueue
             ELSE IaFail(Tracked(r), Untracked(r))
          /\ UNCHANGED iaUnverified
  /\ UNCHANGED <<storageVars, auto, reseedVars, held>>

\* Faulty variant: the checksum is not compared.
MismatchIgnored(r, good) == FALSE

\* verifyIaFile on bytes that are good or not.
Mismatch(r, good) == <<r.man, r.file>> \in Published /\ ~good
Unverified(r) == <<r.man, r.file>> \notin Published

\* finished() of a file download with an error, or with bytes that do not match.
FileFailed(r) ==
  /\ r \in InFlight
  /\ ~IsManifest(r)
  /\ IF iaItem = Nobody THEN ReplyDropped(r)
     ELSE IaFail(Tracked(r), Untracked(r)) /\ UNCHANGED iaUnverified
  /\ UNCHANGED <<storageVars, auto, reseedVars, held>>

\* finished() of a file download: verify, then hand the file to storage.  A file
\* named by another item's manifest does not exist under this item's id.
FileDownloaded(r, good) ==
  /\ r \in InFlight
  /\ ~IsManifest(r)
  /\ r.man = r.item
  /\ IF iaItem = Nobody THEN ReplyDropped(r) /\ UNCHANGED slotVars
     ELSE IF Mismatch(r, good)
     THEN IaFail(Tracked(r), Untracked(r)) /\ UNCHANGED <<slotVars, iaUnverified>>
     ELSE /\ iaUnverified' = IF Unverified(r) THEN iaUnverified + 1 ELSE iaUnverified
          /\ \/ /\ UploadAccepted(Cid(r.man, r.file, good))
                /\ iaReply' = Tracked(r)
                /\ strays' = Untracked(r)
                /\ UNCHANGED <<rowVars, autoQueue, iaItem, iaMan, iaIdx, iaCids, iaTmp>>
             \/ /\ UploadFails(Cid(r.man, r.file, good))
                /\ IaPending(Tracked(r), Untracked(r))
  /\ UNCHANGED <<healthVars, auto, reseedVars, held>>

\* downloadProgress ticks: in-memory only, no save.
IaProgress(r) ==
  /\ r \in InFlight
  /\ ~IsManifest(r)
  /\ iaItem = r.item
  /\ iaMan # Nobody
  /\ SetState(iaItem, "mirroring")
  /\ UNCHANGED <<storageVars, stored, queueVars, iaVars, reseedVars, held>>

ReseedProgress(i) ==
  /\ i \in reseedReplies
  /\ SetState(i, "mirroring")
  /\ UNCHANGED <<storageVars, stored, queueVars, iaVars, reseedVars, held>>

\* A reseed candidate that cannot be downloaded: try the next one, or give up.
ReseedFailed(i) ==
  /\ i \in reseedReplies
  /\ IF reseedLeft > 0
     THEN /\ reseedLeft' = reseedLeft - 1
          /\ UNCHANGED <<reseedItem, reseedReplies, st, disk>>
     ELSE /\ reseedReplies' = reseedReplies \ {i}
          /\ reseedItem' = Nobody
          /\ SetState(i, "error")
          /\ UNCHANGED reseedLeft
  /\ UNCHANGED <<storageVars, stored, queueVars, iaVars, held>>

ReseedDownloaded(i, good) ==
  /\ i \in reseedReplies
  /\ reseedReplies' = reseedReplies \ {i}
  /\ \/ /\ UploadAccepted(Cid(i, 0, good))
        /\ UNCHANGED <<rowVars, autoQueue, iaVars, reseedItem, reseedLeft>>
     \/ /\ UploadFails(Cid(i, 0, good))
        /\ UploadFinished(FALSE, Cid(i, 0, good))
        /\ UNCHANGED iaUnverified
  /\ UNCHANGED <<healthVars, auto, held>>

-----------------------------------------------------------------------------
(* User calls.                                                              *)

\* The buttons of a row depend on the state the view last polled.
Sees(i, states) == StaleView \/ st[i] \in states

Phase(i) ==
  IF iaItem # i THEN "none"
  ELSE IF uploading THEN "upload"
  ELSE IF iaMan = Nobody THEN "manifest"
  ELSE "download"

Mirror(i) ==
  /\ "mirror" \in UserOps
  /\ Sees(i, {"available", "error"})
  /\ storageState = "ready"
  /\ i \in CidItem => Overlap \/ Idle
  /\ MirrorItem(i, st, disk)
  /\ UNCHANGED <<storageVars, queueVars>>

\* Faulty variant: the row is reset, the machine goes on.
AbortRowOnly(i) ==
  /\ "abort" \in UserOps
  /\ Sees(i, {"mirroring", "pending"})
  /\ Phase(i) \in AbortPhases
  /\ autoQueue' = Without(autoQueue, i)
  /\ SetState(i, "available")
  /\ UNCHANGED <<storageVars, stored, auto, iaVars, reseedVars, held>>

Abort(i) ==
  /\ "abort" \in UserOps
  /\ Sees(i, {"mirroring", "pending"})
  /\ Phase(i) \in AbortPhases
  /\ autoQueue' = Without(autoQueue, i)
  /\ IF iaItem = i
     THEN /\ iaItem' = Nobody
          /\ iaMan' = Nobody
          /\ iaCids' = <<>>
          /\ iaTmp' = FALSE
          /\ iaReply' = NoReply
     ELSE UNCHANGED <<iaItem, iaMan, iaCids, iaTmp, iaReply>>
  /\ SetState(i, "available")
  /\ UNCHANGED <<storageVars, stored, auto, iaIdx, iaUnverified, strays, reseedVars, held>>

(***************************************************************************)
(* unmirrorItem and the unpinFinished handler it runs for every CID before *)
(* it returns.  done[k]: was the k-th CID removed (or not there)?  A       *)
(* failure marks the row as failed; any later success finds no count left  *)
(* and completes the unpreserve.  A row with a CID field is taken to have  *)
(* that one, a collection row too.                                         *)
(***************************************************************************)
CidsOf(i) == IF i \in CidItem \cup Collections THEN <<InscribedCid(i)>> ELSE stored[i]

Unmirror(i) ==
  /\ "unmirror" \in UserOps
  /\ Sees(i, {"mirrored"})
  /\ storageState = "ready"
  /\ st[i] # "gone"
  /\ CidsOf(i) # <<>>
  /\ \E done \in [DOMAIN CidsOf(i) -> BOOLEAN] :
       LET n == Len(CidsOf(i))
           completes(k) == done[k] /\ (k = n \/ \E j \in 1..k-1 : ~done[j])
       IN /\ held' = held \ {CidsOf(i)[k] : k \in {j \in 1..n : done[j]}}
          /\ SetStoredCids(i, IF \E k \in 1..n : completes(k) THEN <<>> ELSE stored[i])
          /\ SetState(i, IF done[n] THEN "available" ELSE "error")
  /\ UNCHANGED <<storageVars, queueVars, iaVars, reseedVars>>

\* removeItem: forgets the row only.
Remove(i) ==
  /\ "remove" \in UserOps
  /\ st[i] # "gone"
  /\ st' = [st EXCEPT ![i] = "gone"]
  /\ stored' = [stored EXCEPT ![i] = <<>>]
  /\ disk' = [st EXCEPT ![i] = "gone"]
  /\ UNCHANGED <<storageVars, queueVars, iaVars, reseedVars, held>>

ForgetChannel ==
  /\ st' = [i \in Item |-> "gone"]
  /\ stored' = [i \in Item |-> <<>>]
  /\ disk' = [i \in Item |-> "gone"]
  /\ auto' = FALSE
  /\ UNCHANGED <<storageVars, iaVars, reseedVars, held>>

\* unfollowChannel leaves the queue alone, removeAllItems empties it.
UnfollowChannel == "unfollow" \in UserOps /\ ForgetChannel /\ UNCHANGED autoQueue
RemoveAllItems == "removeAll" \in UserOps /\ ForgetChannel /\ autoQueue' = <<>>

\* Faulty variant: only what is discovered from now on is queued.
SetAutoPreserveFromNow(on) ==
  /\ "auto" \in UserOps
  /\ auto' = on
  /\ disk' = st
  /\ UNCHANGED <<storageVars, st, stored, autoQueue, iaVars, reseedVars, held>>

\* setAutoPreserve saves the flag, then queues the rows that are not preserved yet
\* and not queued yet (in table order, which is not kept here).
SetAutoPreserve(on) ==
  /\ "auto" \in UserOps
  /\ auto' = on
  /\ IF on
     THEN \E new \in Orders({i \in Item \ (Oversize \cup Elems(autoQueue)) :
                               st[i] \in {"available", "error"}}) :
            DrainAutoQueue(autoQueue \o new, st, st, storageState)
     ELSE /\ disk' = st
          /\ UNCHANGED <<st, stored, autoQueue, iaVars, reseedVars, held>>
  /\ UNCHANGED storageVars

-----------------------------------------------------------------------------
(* Timers, the scan's discoveries, and the host.                            *)

ElsewhereUnchanged == UNCHANGED <<slotVars, rowVars, queueVars, iaVars, reseedVars, held>>

BringUp == InitStorage /\ ElsewhereUnchanged
BroughtUp == InitReply /\ ElsewhereUnchanged
NodeStarted == (\E ok \in BOOLEAN : StorageStart(ok)) /\ ElsewhereUnchanged

\* Faulty variant: the tick probes and does not drain.
HealthTickNoDrain(ok) ==
  /\ IF Idle THEN PollHealth(ok) ELSE UNCHANGED healthVars
  /\ UNCHANGED <<slotVars, rowVars, queueVars, iaVars, reseedVars, held>>

\* pollGatewayHealth, every 10 s: no probe while a preserve of ours is in flight.
HealthTick(ok) ==
  /\ IF Idle THEN PollHealth(ok) ELSE UNCHANGED healthVars
  /\ DrainAutoQueue(autoQueue, st, disk, storageState')
  /\ UNCHANGED <<slotVars, auto>>

\* A page of the scan brings the rows of S; itemsDiscovered queues them in an
\* auto channel and drains the queue either way.
Discover(S) ==
  LET rows == [i \in Item |-> IF i \in S THEN "available" ELSE st[i]]
      wanted == IF auto THEN S \ (Oversize \cup Elems(autoQueue)) ELSE {}
  IN /\ \A i \in S : st[i] = "gone"
     /\ \E new \in Orders(wanted) :
          DrainAutoQueue(autoQueue \o new, rows, disk, storageState)
     /\ UNCHANGED <<storageVars, auto>>

\* The end of the scan saves what its pages added.
ScanSaved ==
  /\ disk' = st
  /\ UNCHANGED <<storageVars, st, stored, queueVars, iaVars, reseedVars, held>>

\* The host stops between two handlers, and loadState runs.
Restart ==
  /\ Restarts
  /\ StorageRestart
  /\ st' = [i \in Item |-> Loaded(disk[i])]
  /\ autoQueue' = <<>>
  /\ iaItem' = Nobody
  /\ iaMan' = Nobody
  /\ iaIdx' = 0
  /\ iaUnverified' = 0
  /\ iaCids' = <<>>
  /\ iaTmp' = FALSE
  /\ iaReply' = NoReply
  /\ strays' = {}
  /\ reseedItem' = Nobody
  /\ reseedLeft' = 0
  /\ reseedReplies' = {}
  /\ UNCHANGED <<stored, disk, auto, held>>

TransferEnds ==
  \E r \in InFlight :
    \/ FileFailed(r)
    \/ \E ok \in BOOLEAN : ManifestReply(r, ok) \/ FileDownloaded(r, ok)

ReseedTransferEnds ==
  \E i \in reseedReplies :
    \/ ReseedFailed(i)
    \/ \E good \in BOOLEAN : ReseedDownloaded(i, good)

UploadEnds == \E c \in nodeUploads, ok \in BOOLEAN : UploadDone(c, ok)

Environment ==
  \/ TransferEnds
  \/ ReseedTransferEnds
  \/ UploadEnds
  \/ \E c \in nodeUploads : UploadDoneLost(c)
  \/ \E ok \in BOOLEAN : ForeignDone(ok)
  \/ \E r \in InFlight : IaProgress(r)
  \/ \E i \in reseedReplies : ReseedProgress(i)
  \/ BroughtUp
  \/ NodeStarted

UserCall ==
  \/ \E i \in Item : Mirror(i) \/ Abort(i) \/ Unmirror(i) \/ Remove(i)
  \/ UnfollowChannel
  \/ RemoveAllItems
  \/ \E on \in BOOLEAN : SetAutoPreserve(on)

Background ==
  \/ BringUp
  \/ \E ok \in BOOLEAN : HealthTick(ok)
  \/ \E S \in SUBSET Item \ {{}} : Discover(S)
  \/ ScanSaved
  \/ Restart

Next == Environment \/ UserCall \/ Background

Spec == Init /\ [][Next]_vars

(***************************************************************************)
(* Every archive.org transfer ends (30 s inactivity cap), an accepted      *)
(* upload is answered (nothing in the plugin bounds it: an assumption on   *)
(* the node), init returns, and the 10 s timer keeps ticking with a node   *)
(* that answers pings again and again.                                     *)
(***************************************************************************)
Fairness ==
  /\ WF_vars(TransferEnds)
  /\ WF_vars(ReseedTransferEnds)
  /\ WF_vars(UploadEnds)
  /\ WF_vars(BroughtUp)
  /\ SF_vars(HealthTick(TRUE))

FairSpec == Spec /\ Fairness

-----------------------------------------------------------------------------
(***************************************************************************)
(* Correctness.  Most of these hold for a user who keeps to one preserve   *)
(* at a time and does not abort an upload the node has accepted, on a node *)
(* that nobody else uploads to, that answers calls in time and loses no    *)
(* event (CleanUse); the README lists what breaks outside it.              *)
(***************************************************************************)
OwnNode == ~SharedNode /\ ~SlowCalls

CleanUse ==
  /\ ~Overlap /\ ~StaleView /\ "upload" \notin AbortPhases
  /\ OwnNode /\ ~LostEvents

\* What may be stored for file k of IA item i: bytes that match the published
\* checksum, or any bytes when none is published.
FileCids(i, k) == {Cid(i, k, g) : g \in IF <<i, k>> \in Published THEN {TRUE} ELSE BOOLEAN}

\* cids is, file by file, what a preserve of i has stored up to file n.
StoredFiles(i, n, cids) ==
  /\ Len(cids) = n
  /\ \A k \in 1..n : cids[k] \in FileCids(i, k) \cap held

\* "Preserved" means preserved: a row shown as mirrored has every file of its
\* manifest in Logos Storage, verified where a checksum is published, and its
\* storedCids name exactly those; a CID row's content is held (startIaPreserve
\* to iaNextFile's completion, and the uploadFinished credit between them).
MirroredIsStored ==
  /\ \A i \in IaItem : st[i] = "mirrored" => StoredFiles(i, FileCount[i], stored[i])
  /\ \A i \in CidItem : st[i] = "mirrored" => \E g \in BOOLEAN : Cid(i, 0, g) \in held

\* A restart loads a row as preserved only if it is: state.json never says so
\* ahead of the row, nor between two handlers after an unpreserve of it (a stop
\* inside the unpreserve is Shelf's).
SavedMirroredIsStored ==
  \A i \in IaItem : disk[i] = "mirrored" => StoredFiles(i, FileCount[i], stored[i])

\* A storageUploadDone that is still to come belongs to the file the plugin is
\* waiting for, so the handler credits it to the right item (the comment on
\* abortPreserve: storage "isn't left busy, so the next preserve can start cleanly").
\* What is said of the event is said of a node that nobody else uploads to.
UploadIsOwn ==
  uploading =>
    \/ /\ iaItem # Nobody
       /\ iaMan = iaItem
       /\ iaTmp
       /\ \E c \in FileCids(iaItem, iaIdx + 1) : nodeUploads = {c}
    \/ /\ reseedItem # Nobody
       /\ \E g \in BOOLEAN : nodeUploads = {Cid(reseedItem, 0, g)}

\* One preserve at a time, one file of it at a time, every request in flight is the
\* current item's own, and an idle machine keeps nothing of the run before: no
\* manifest, no CIDs to credit to the next item, no temp file, no late reply.
OneInFlight ==
  /\ iaItem = Nobody \/ reseedItem = Nobody
  /\ strays = {}
  /\ Cardinality(nodeUploads) + Cardinality(InFlight) + Cardinality(reseedReplies) <= 1
  /\ iaItem = Nobody =>
       /\ iaMan = Nobody /\ iaCids = <<>> /\ ~iaTmp
       /\ iaReply = NoReply
  /\ \A r \in InFlight : r.item = iaItem

\* When nothing is being preserved the slot is free, so the health probe never
\* contends with an upload (the comment in pollGatewayHealth, #23).
IdleSlotIsFree == Idle => ~uploading /\ nodeUploads = {}

\* A row that breathes is being worked on: nothing is left "mirroring" by an
\* abort, a failure or a restart with no one to finish it.
MirroringIsOwned == \A i \in Item : st[i] = "mirroring" => i \in {iaItem, reseedItem}

\* A pending row is queued, so that it is retried when storage is ready (#31).
PendingIsQueued == \A i \in Item : st[i] = "pending" => i \in Elems(autoQueue)

\* The completion notice does not over-claim: the count of unverified files is
\* the number of files stored so far without a published checksum.
UnverifiedIsCounted ==
  iaItem # Nobody =>
    LET files == IF uploading THEN iaIdx + 1 ELSE iaIdx
    IN iaUnverified = Cardinality({k \in 1..files : <<iaItem, k>> \notin Published})

-----------------------------------------------------------------------------
(***************************************************************************)
(* The inductive invariant behind the safety properties above: where each  *)
(* of the two machines is, and what it has done so far.                    *)
(***************************************************************************)
IaPhaseOK ==
  IF iaItem = Nobody
  THEN iaMan = Nobody /\ iaCids = <<>> /\ ~iaTmp /\ iaReply = NoReply
  ELSE /\ reseedItem = Nobody
       /\ st[iaItem] # "mirrored"
       /\ StoredFiles(iaItem, iaIdx, iaCids)
       /\ \/ /\ iaMan = Nobody /\ iaIdx = 0 /\ ~iaTmp /\ ~uploading
             /\ iaReply = Request(iaItem, Nobody, 0)
          \/ /\ iaMan = iaItem /\ iaIdx < FileCount[iaItem] /\ iaTmp
             /\ \/ /\ ~uploading
                   /\ iaReply = Request(iaItem, iaItem, iaIdx + 1)
                \/ /\ uploading
                   /\ iaReply = NoReply
                   /\ \E c \in FileCids(iaItem, iaIdx + 1) : nodeUploads = {c}

ReseedPhaseOK ==
  IF reseedItem = Nobody THEN reseedReplies = {}
  ELSE /\ st[reseedItem] # "mirrored"
       /\ \/ reseedReplies = {reseedItem} /\ ~uploading
          \/ /\ reseedReplies = {} /\ uploading
             /\ \E g \in BOOLEAN : nodeUploads = {Cid(reseedItem, 0, g)}

SlotOK ==
  /\ strays = {}
  /\ ~uploading => nodeUploads = {}
  /\ Idle => ~uploading

\* What the rows say is stored is stored, on disk as in memory.
RowsOK ==
  /\ MirroredIsStored
  /\ \A i \in Item : disk[i] = "mirrored" => st[i] = "mirrored"
  /\ \A i \in IaItem : \A k \in DOMAIN stored[i] : stored[i][k].item = i
  /\ \A i \in Item : stored[i] # <<>> => i \in IaItem
  /\ MirroringIsOwned

\* The inductive invariant of clean use: the phase of each machine, the slot and the
\* rows fit together between any two handlers.
IInv == TypeOK /\ IaPhaseOK /\ ReseedPhaseOK /\ SlotOK /\ RowsOK

-----------------------------------------------------------------------------
\* Whatever the user does, whoever else uploads to the node and whichever of its
\* answers and events come late or not at all: of a file with a published checksum,
\* only bytes that passed it are ever handed to the node (verifyIaFile before upload,
\* the load-bearing step of #14).
OnlyVerifiedUploads ==
  \A c \in held \cup nodeUploads : <<c.item, c.file>> \in Published => c.good

\* On a node of our own that answers in time the slot is enough: with two machines
\* running, aborts, lost events and restarts the node still works on one upload of
\* ours at a time, and never while the slot is free (storage_client.h: "storage
\* contract: one upload in flight").
OneUploadAtATime ==
  /\ Cardinality(nodeUploads) <= 1
  /\ uploading \/ nodeUploads = {}

\* A row that is available starts to breathe only when a preserve of it starts.
CancelledFor(items) ==
  \A i \in items :
    st[i] = "available" /\ st'[i] = "mirroring"
      => i \notin {iaItem, reseedItem} /\ i \in {iaItem', reseedItem'}

\* After an abort an IA row is left alone: it starts again only as a new preserve,
\* never as the aborted one resuming (abortPreserve, "cancel an in-flight
\* (mirroring) or queued (pending) preserve and reset the item to available").
AbortCancelsIa == [][CancelledFor(IaItem)]_vars

\* Turning auto on takes every row of this state, at once or by way of the queue.
AutoOnTakes(state) ==
  ~auto /\ auto' =>
    \A i \in Item \ Oversize :
      st[i] = state => st'[i] # st[i] \/ i \in Elems(autoQueue')

\* Turning auto on takes every row not preserved yet, also while another preserve
\* runs or storage is away ("must preserve everything un-preserved in the channel
\* NOW, not just items discovered after the toggle", #25).
AutoOnTakesAvailable == [][AutoOnTakes("available")]_vars

\* ... and every row that failed before ("error items are previously-failed ones,
\* so this also serves as the manual retry").
AutoOnTakesErrors == [][AutoOnTakes("error")]_vars

\* A row is freed only when all of it is: "available" after an unpreserve means
\* that none of its stored CIDs is held any more (#35, "flip to available only
\* once every file is removed").
AvailableIsFreed ==
  [][\A i \in IaItem :
       st[i] = "mirrored" /\ st'[i] = "available" => Elems(stored[i]) \cap held' = {}]_vars

\* The items whose whole content storage holds, whoever's row it is.
Kept ==
  {i \in IaItem : \A k \in 1..FileCount[i] : FileCids(i, k) \cap held # {}}
    \cup {i \in CidItem : \E g \in BOOLEAN : Cid(i, 0, g) \in held}

\* Seen from outside the whole machinery is a keeper: a row is marked only when all
\* of its content is stored, only its own release gives that up, one item is worked
\* on at a time, and a restart neither invents a preserved row, nor forgets one,
\* nor brings a removed one back (SPEC.md: "mirror", "unmirror").
Promise ==
  INSTANCE Keeper WITH
    shown <- st,
    current <- IF iaItem # Nobody THEN iaItem ELSE reseedItem,
    kept <- Kept
KeepsItems == Promise!Spec

\* Every preserve ends, well or badly, and frees the machine for the next.
PreserveEnds ==
  /\ \A i \in IaItem : iaItem = i ~> iaItem # i
  /\ \A i \in CidItem : reseedItem = i ~> reseedItem # i

\* Nothing waits in the queue for ever: pending retries and auto items are taken
\* in turn once storage has been up.
QueueIsServed == \A i \in Item : everReady /\ i \in Elems(autoQueue) ~> i \notin Elems(autoQueue)
==============================================================================

# A TLA+ model of the Archive module

This directory holds TLA+ models of the core of the Archive module
(`ia-basecamp`): what it promises about scanning inscription channels and about
preserving items in Logos Storage, checked with TLC on small instances; all
of their safety properties are proved with TLAPS for instances of any size, some under
conditions that section 4 names.

Paths such as `lez_client.cpp:432` are relative to the repository's `src/`
directory, `ArchivePlugin.cpp` is `src/plugin/ArchivePlugin.cpp`, `Main.qml` is
`plugins/archive_ui/qml/Main.qml`. `PROJECT.json` names, for every definition that
models code, the lines it models.

## 1. The system

The module is one Qt event loop. Handlers run to completion; what interleaves is
the order in which user calls (blocking calls from the QML process), HTTP
replies, the events of the platform's `storage_module`, and timers get their
turn.

| Component | State | Operations | Talks to |
|---|---|---|---|
| **LezClient, scanner** (`lez_client.cpp`) | gateway list, active position, gateway state, channels (start slot, cursor, synced, rows), one scan context per channel | follow, unfollow, refresh, set gateways, poll health; replies of the explorer, `/cryptarchia/info`, `/cryptarchia/blocks` | nodes and explorer (HTTP), plugin (signals `itemsDiscovered`, `scanFinished`) |
| **LezClient, item rows** | per followed channel, its rows: state, storedCids; `state.json`, perhaps damaged | lookups by bare id, setItemState, setItemStoredCids, removeItem, saveState, loadState | plugin (calls), disk |
| **StorageClient** (`storage_client.cpp`) | health light, `m_everReady`, `m_initInFlight`, `m_uploading` | initStorage, pollHealth, pin, upload, unpin | transport (callbacks), plugin (signals `uploadFinished`, `pinFinished`, `unpinFinished`) |
| **LogosStorageTransport** | none | blocking calls of storage_module, its two events | storage_module |
| **ArchivePlugin, IA preserve machine** | `m_iaItemId`, `m_iaFiles`, `m_iaIdx`, `m_iaStoredCids`, `m_iaTmpPath`, `m_iaReply`, … | mirrorItem, the manifest's and each file's `finished`, `uploadFinished`, abortPreserve | archive.org, StorageClient, rows |
| **ArchivePlugin, CID rows** | `m_reseedItemId`, `m_reseedCandidates`, `m_cidToItem`, `m_unpinRemaining` | pin, reseed by candidate, unmirrorItem | the same |
| **ArchivePlugin, auto queue** | `m_autoQueue`, channel flag `autoPreserve` | setAutoPreserve, itemsDiscovered, drainAutoQueue, the 10 s tick | rows, both machines |
| **ia_files, share_helper, parse and decode helpers** | none | pure functions | — |
| **QML view** | a copy of the rows, up to 2 s old | the buttons of a row | plugin |

What is hard here, and what makes each part correct:

* **Scanner.** Several scans and polls are in flight at once, each failure
  rotates the gateway list, nodes finalise at different heights, a scan may be
  cancelled and its channel followed again, a page cap splits a history, and the
  cursor of a running scan reaches the disk whenever anything else is saved.
  Correct means: behind the cursor nothing is missing, nothing is listed twice,
  no reply of a cancelled scan is applied, every inscription is eventually listed.
* **Preserve.** An upload is accepted by a call and completed by an event that names
  neither request nor owner, from a node that others may use; replies check that
  *some* item is in flight; failures come at any stage; the table is saved on some
  state changes and not on others; the host may stop at any time. Correct means:
  *preserved* is true, in the table and on disk; every event is credited to its own
  file; every preserve ends; nothing queued is forgotten; an abort or unpreserve does
  what it says.
* **Rows and state.json.** Every lookup is by bare id over all channels; a handler
  may block on storage, and the host may stop while it does; the file may be
  damaged, absent or empty. Correct means: a restart neither forgets nor invents a
  preserve, an unpreserve cut off in its removals can be finished, the seed comes once.
* **Readers.** Manifests, channel references, labels and pages of blocks are what
  the network or the user sends. Correct means: each says exactly what its text
  says, and nothing is skipped in silence.
* **StorageClient.** Two events and init's answer in any order; a light that may
  go green only after a bootstrap and must recover from a blip; one slot.

The full list of hazards, with the lines at which they bite and the properties
that would catch each, is in `PROJECT.json`.

## 2. The modules

| Module | Models | Built on |
|---|---|---|
| `StorageClient` | StorageClient and the transport's answers: bring-up, health light, upload slot | — |
| `StorageSession` | one caller that keeps the upload contract; used to check StorageClient alone | `StorageClient` |
| `Preserve` | one channel's rows, both preserve machines, auto queue, state.json, restarts | `StorageClient` (its actions are conjuncts of Preserve's) |
| `PreserveProofs` | theorems about `Preserve` under clean use | `Preserve`, TLAPS |
| `KeeperProofs` | `Preserve` implements `Keeper` | `PreserveProofs` |
| `VerifiedProofs` | what `Preserve` keeps without clean use: types, bytes, queue, aborts; the slot on a node of our own | `PreserveProofs` |
| `LezScan` | the scanner, its timers, its signal handlers, state file, restarts | — |
| `Shelf` | the rows of all channels, lookups by id, state.json, the seed, and storage behind them; blocking calls are steps | — |
| `IaFiles` | `parseIaFilesXml`, one XML element per step | — |
| `ChannelRef` | `parseChannelRef`: its regular expression as an automaton | — |
| `SourceRef` | `deriveIaRef`, `deriveIaCandidates`, the sources `startReseed` tries | — |
| `Inscriptions` | `extractItems` and the page merge, one operation per step | — |
| `UploadService`, `Keeper`, `Feed` | abstract specifications, see below | — |
| `StorageProofs` | theorems about `StorageSession` | `StorageSession`, TLAPS |
| `ScanProofs` | theorems about `LezScan`, for any instance | `LezScan`, TLAPS |
| `FeedProofs` | `LezScan` implements `Feed`, nothing is skipped, notices | `ScanProofs` |
| `ShelfProofs` | theorems about `Shelf` | `Shelf`, TLAPS |
| `ReaderProofs` | theorems about the four readers | `IaFiles`, `ChannelRef`, `SourceRef`, `Inscriptions`, TLAPS |
| `MCParts` | `Shelf` and the four readers side by side in one run: they share no state, the initial state picks the part | the five |
| `MCPreserve`, `MCLezScan` | file counts, checksums, chains and gateway lists of the instances | the module they name |

`LezScan` and `Preserve` meet at two points: `Discover` (rows appear) and the
state file. A channel of `LezScan` is a manual one; what discovery does in an auto
channel is `Discover` in `Preserve`. `Shelf` looks at the rows of all channels at
once, with a preserve reduced to its start and end, where `Preserve` has one
channel with everything in between; `Inscriptions` is the inside of `Extracted`
and `NewRows` of `LezScan`, `ChannelRef` of the reference that `Follow` takes,
`IaFiles` of the manifest whose files `Preserve` counts, and `SourceRef` of the
candidates that its `StartReseed` takes one by one.

**How to read an action.** An action is a whole handler with everything it calls.
Where a handler calls another function that changes state, the action uses an
operator named after that function: `UploadFinished` uses `IaNextFile` or
`IaPending`, `DrainAutoQueue` uses `MirrorItem`, which uses `StartIaPreserve`.
A function called in the middle of a handler takes the state it finds as
parameters (`rows`, `file`, `tracked`, `untracked`).

`Preserve` in terms of the code:

| Variable | Code |
|---|---|
| `st`, `stored` | `Item::state` (`"gone"`: no such row), `Item::storedCids` |
| `disk` | the states in `state.json`; every save writes all rows, `mirroring` is not saved (`lez_client.cpp:751`) |
| `iaItem`, `iaMan`, `iaIdx`, `iaUnverified`, `iaCids`, `iaTmp` | `m_iaItemId`, whose files `m_iaFiles` lists, `m_iaIdx`, `m_iaUnverified`, `m_iaStoredCids`, `m_iaTmpPath` |
| `iaReply`, `strays` | the request `m_iaReply` points to; requests still in flight that it no longer points to |
| `reseedItem`, `reseedLeft`, `reseedReplies` | `m_reseedItemId`, `m_reseedCandidates`, downloads in flight |
| `auto`, `autoQueue` | `Channel::autoPreserve`, `m_autoQueue` |
| `storageState` … `nodeUploads` | StorageClient's members; `nodeUploads` and `held` are the node's |

`LezScan` in terms of the code: `scan[c]` is the request the context object of
`m_scanning[c]` waits for, with what its callbacks captured (gateway position,
`lib_slot`, pages left, range); `chained` are the pending 1200 ms single shots;
`told` is history, read by properties only.

**Abstract specifications.** Three say what a component promises, without how it
does it, and a property of a run states that the detailed module implements them:

| Detailed | Promise | Mapping | What does not show |
|---|---|---|---|
| `StorageSession` | `UploadService` (`ServesUploads`): one request at a time, each answered, truly so unless answers can be crossed | the awaited upload is the request; answers can be crossed on a shared node and on one whose calls time out | slot, light, init, stray events |
| `Preserve` | `Keeper` (`KeepsItems`): a row becomes *mirrored* only with its whole content kept, what is kept goes only by releasing its own row, a restart invents and forgets nothing | `st`; the item or row at work; the rows all of whose files are held and verified (`Kept`) | manifest, files, uploads, sources, queue, state.json |
| `LezScan` | `Feed` (`FeedsTheList`): the list is exactly what was inscribed from the slot asked for up to a position, less what was removed; a crash takes both back together | cursor and rows of each channel, in memory and in the file (`Listing`) | nodes, pages, heights, failures, rotation |

`Keeper` and `Feed` are safety promises; `UploadService` also promises the answer.
Each safety refinement is checked by a run and proved (`SessionServes`,
`PreserveKeeps`, `ScannerFeeds`).

**Faulty variants.** A definition marked *faulty variant* is how its neighbour
would look with a plausible bug (`IaNextFileEarly`, `FailOverPastEnd`, …). No
specification uses one. Put in the neighbour's place, it must break the property
`PROJECT.json` pairs it with; this guards every property against being vacuous.

### Abstractions

* **Content.** A CID names a file of an item and whether its bytes are the
  published ones; equal bytes have equal CIDs. Item ids and CIDs are distinct
  across items. Two identical requests that `m_iaReply` no longer tracks are
  counted once, and so are two uploads of the same file at the node.
* **Other consumers.** `storage_module` is shared, and its `storageUploadDone` has no
  owner (`logos_storage_transport.cpp:118-133`). `ForeignDone` is another consumer's
  event, at any time where `SharedNode` (`shared` in `StorageSession`) holds; all its
  CIDs are one, `ForeignCid`, and what that consumer stores is not in `held`. A call of
  `upload` that hits the 20 s cap after the node took the file (`UploadTimedOut`, where
  `SlowCalls` or `slow` holds) fails for the client, while the node reports its end as
  usual. Both let an event meet an upload that is not its own. Pins and unpins that time
  out are failed ones; that the node may yet have done them is left out.
* **Collection rows** (`Collections`) are IA rows that also have a CID field, `ia:<id>`:
  preserved like the others, unpreserved by that name. `Shelf` leaves them out.
* **Manifest.** An item's manifest lists `FileCount[i]` files and has a checksum
  for those in `Published`. Unparseable and empty manifests are failed ones. A
  file named by another item's manifest does not exist under this item's id, so
  its download fails.
* **pin, unpin, queries** are synchronous in the transport and emit their signal
  before they return: they are part of the caller's action. Bring-up is modelled
  at the interface of `StorageTransport`, whose callback may come later; that
  allows more orders than the present transport, which answers before it returns.
* **Table order** is not kept: `setAutoPreserve` and `itemsDiscovered` may queue
  their rows in any order. `storedCids` are as current on disk as in memory, since
  every write to them is followed by a save in the same handler.
* **Restarts** happen between handlers in `Preserve` and `LezScan`; an unpreserve is one
  step there. In `Shelf` they also come while a handler blocks on storage, with or
  without the effect of the call it waited for. A stop between two saves of the same
  handler is not modelled: of `setItemStoredCids` and `setItemState` in
  `ArchivePlugin.cpp:149-150` it would leave a row that says mirrored and names no CID.
  The calls block, so `m_pinning` and `m_cidToItem` are empty
  whenever a handler starts; `Shelf` leaves them out.
* **Rows of `Shelf`** are found by id in the first channel, in the order of
  `QMap`; within a channel ids are distinct (`OneRowPerId`). A row that was removed
  may be discovered again at any time, which is more than a rescan does.
* **Texts** are sequences of a few kinds of characters or elements: two hex digits
  stand for 64, words for names, an arrow for U+2192. `IaFiles` leaves out the root
  element and sizes; markup in a checksum, or a tag that closes nothing, is `Breaks`.
* **Blocks** are reduced to the inscriptions they hold. A body over the size cap
  is a failed page, which is what the code makes of it. Progress, labels, sync lag
  and scan statistics are left out; `SaveState` stands for the calls whose only
  effect on the scanner is that they write the file.
* **First run.** In `LezScan` the seeded channel is a `Follow`; `Shelf` has the seed.

## 3. The runs

| Run | Question | Bounds | States |
|---|---|---|---|
| `StorageSession` | Is the light honest, does it recover, is the slot used once and given back, is credit due? | 3 files; node alone or shared, with or without upload calls that time out | 28 k |
| `PreserveClean` | Is what is shown, and saved, as preserved really stored? Is the machine's state always its own item's? Is every step the keeper's? | 2-file item (one file without checksum), CID row with 1 source, all operations, restarts | 0.8 M |
| `PreserveLive` | Does every preserve end and every queued row get its turn? | the same rows, with 2 sources; preserve, abort, auto; a node of our own | 44 k |
| `PreserveAnyUse` | What holds whatever the user and the node do? Is an abort final? | 1-file item, oversized CID row with one source; preserve and abort at any phase, with overlaps, lost and foreign events, calls that time out and restarts | 1.9 M |
| `LezScanOne` | Is anything behind the cursor missing, doubled or announced too early? | 1 channel, 3 inscriptions over 5 slots (one repeated), 2 nodes, 2-slot pages, 2 pages per scan, 3 calls, 1 failure | 0.7 M |
| `Parts` | Do manifests, references, labels and pages mean what they say? Do rows, file and storage agree through stops inside handlers? | 6 XML elements; ids of 2 hex digits in texts of 6; labels of 6; 3 operations of 24 kinds on 2 pages; 2 channels with a 2-file item, a 1-file item and a pin | 1.1 M |
| `LezScanTwo` | Do two scans, unfollow and refollow, new gateways and restarts keep apart? | 2 channels, 3 slots, 1 page per scan, 3 calls, 1 failure, bodies that are not JSON | 1.9 M |
| `LezScanLive` | Is every inscription eventually listed? | 1 channel, 2 nodes, follow and unfollow, 1 failure | 65 k |

Why these bounds are enough to be interesting: two files are the least for a
first, a last and a file in between two steps; one of them without a checksum lets
both outcomes of verification occur; the second source of a CID row is tried in
`PreserveLive`. An IA item and a CID row exercise both
machines and their competition for the slot. Pages of two slots over five slots
and two pages per scan give a page cap, a short last page and a scan that ends at
the tip, with a row repeated on a later page; two nodes of independent height are
the least for a failover that matters. One failure together with a height of zero,
which also fails over, gives scans that fail at each of their steps. In `Parts`, six
XML elements hold two files, each with a checksum or mark; six characters hold two
ids and an `@`, or an id, `@` and more digits than a number has; three operations
over two pages are the least for a duplicate on the same and on a later page with a
skip beside it.

Four runs expect a violation; each is a place where the code does not do what a
comment in it, or `docs/TESTING.md`, says. The details are under "findings" in
`PROJECT.json`.

| Run | What happens | What the code says |
|---|---|---|
| `PreserveAbortUpload` | abort during an accepted upload, preserve the next item: the old file's event is credited to it | `ArchivePlugin.cpp:827`: storage "isn't left busy, so the next preserve can start cleanly" |
| `PreserveAutoErrors` | turning auto on queues a failed row, and the drain of the same call drops it | `ArchivePlugin.cpp:406`: "this also serves as the manual retry" |
| `PreserveUnmirror` | one removal of several fails, a later one succeeds: the row is available and its storedCids are gone | `ArchivePlugin.cpp:145`: "flip to available only once every file is removed" |
| `LezScanGateways` | the list is replaced during a scan: its next page comes from another node | `lez_client.cpp:432`: "every page must come from the same finalized view" |

The switches of `Preserve` and the constants of `LezScan` limit the passing runs to
uses in which the properties hold. What is known to fail beyond them:

| Set | Fails | Why |
|---|---|---|
| `AbortPhases` with `"upload"` | `MirroredIsStored`, `UploadIsOwn`, `IdleSlotIsFree` | first finding |
| `Overlap = TRUE` | `OneInFlight`, `UploadIsOwn`, `MirroredIsStored`, `PreserveEnds` | `mirrorItem` checks for a running preserve only for IA rows (`:762`); a CID row's reseed runs beside it, and the event of one may be taken by the other |
| `StaleView = TRUE` | `MirroredIsStored` | the buttons act on the last poll: a preserved row is preserved again and unpreserved while that runs, so it completes with files that were removed |
| `SharedNode = TRUE` | `MirroredIsStored`, `SavedMirroredIsStored`, `UploadIsOwn`, `OneInFlight`, `IdleSlotIsFree`, `OneUploadAtATime`, `KeepsItems` | another consumer's event frees the slot while the node works on our file, and credits its CID as ours: the guard against a "stray event from another consumer" (`storage_client.cpp:26`) only asks whether some upload of ours is in flight |
| `SlowCalls = TRUE` | `MirroredIsStored`, `UploadIsOwn`, `OneInFlight`, `IdleSlotIsFree`, `OneUploadAtATime`, `KeepsItems` | an upload whose call timed out is given up (`storage_client.cpp:93`), but runs on, and its event comes |
| `Collections = {album}` in `PreserveUnmirror` | `AvailableIsFreed`, at the first unpreserve | `unmirrorItem` takes the CID field before the storedCids (`ArchivePlugin.cpp:791`): the row is unpreserved by `ia:<id>`, none of its files is removed, and where storage answers success or "not found" (`storage_client.cpp:105`) the row is available and forgets them, against "unpreserve removes every one from Logos Storage" (`:788`) |
| `LostEvents = TRUE` | `PreserveEnds` | nothing bounds the wait for `storageUploadDone` |
| `Restarts = TRUE` in `PreserveLive` | `PendingIsQueued` | `m_autoQueue` is not saved |
| `Malformed = TRUE` in `LezScanOne` | `NoneSkipped` | a body that is not JSON is an empty page (`lez_client.cpp:558`) |
| the same id in both channels of `MCParts` | `FileKeepsMirrored`, `PreservedIsHeld` | lookups stop at the first match (`lez_client.cpp:700-760`): preserving or unpreserving one row acts on the other |
| the same CID in two rows of `MCParts` | `FreedIsGone`, `PreservedIsHeld` | `unmirrorItem` does not ask whose else a CID is (`ArchivePlugin.cpp:806`) |
| `"remove"`, or `"unmirror"` with `StaleView`, in `PreserveAnyUse` | `AbortCancelsIa` | a row taken from under its preserve, and put back, is not the machine's to abort; the next progress tick shows it preserving again (`ArchivePlugin.cpp:701`) |
| `"unfollow"` in `LezScanOne` | `BackfillIsQuiet` | `m_syncedOnce` is never cleared (`ArchivePlugin.cpp:160`) |

Properties of `Parts` that are stated around what the code does not do:
`UnfollowSticks` starts afresh when state.json is damaged, because the start that
finds it damaged leaves no file, and the next start seeds unless something was saved
in between, against "never re-seed over it" (`lez_client.cpp:859`). `SourcesAgree` is
about titles that are the label: a manifest with a title of its own, or a label cut at
120 characters, gives a reseed other candidates than the source its row names
(`lez_client.cpp:258-262`, `ArchivePlugin.cpp:456`). `FreedIsGone` speaks of
unpreserves of which storage refused no removal; see the finding of
`PreserveUnmirror`.

By reading, not by a run: `FreedIsGone` would fail for a collection row, as
`AvailableIsFreed` does in `Preserve`; two id-less pins of one transaction
share its hash as their id, so the second counts as a duplicate (`lez_client.cpp:257`);
`AbortCancelsIa` is stated for IA rows because the reseed of an aborted CID row goes on
(`ArchivePlugin.cpp:503`); and with a node that fails for ever, beyond the model's
finitely many failures, two failures in flight together rotate a two-entry list back to
where it was (`docs/retro-log.md:44`).

`PreserveLive` has no removals of rows. With `CidItem = {}`, `SharedNode` and `SlowCalls`
set, and the operations preserve, abort, remove, unfollow and remove all, `PreserveEnds`
holds too; with a CID row beside them the instance is too large to be one of the runs.

### Fairness

`PreserveLive` assumes that an archive.org transfer ends (30 s inactivity cap,
`ArchivePlugin.cpp:486`, `:618`, `:679`), that init returns (20 s cap of the SDK's
calls), that an accepted upload is answered — nothing in the plugin bounds that,
so it is an assumption about the node — and that the 10 s timer fires again and
again while the node answers pings again and again (strong fairness of
`HealthTick(TRUE)`: a node may also fail pings in between). Nothing is assumed of
the user, of scans, or of *which* answer comes.

`LezScanLive` assumes that every request is answered or times out
(`kHttpTimeoutMs`), that the timers fire and that the nodes' finality advances.
Failures are finitely many (`MaxFaults`).

`StorageSession` assumes init's answer, the upload's event, and pings that
succeed again and again.

## 4. The proofs

`PreserveProofs` proves, for every finite set of IA items and CID rows, every file count,
every set of published checksums and every number of candidates, under clean use
(`CleanUse`: one preserve at a time, no abort of an accepted upload, a current
view, no lost event, and a node that nobody else uploads to and that answers upload
calls in time; restarts and all other operations included):

| Theorem | Says |
|---|---|
| `Invariance` | `CleanUse /\ Spec => []IInv` |
| `TypeCorrect` | `[]TypeOK` |
| `PreservedIsStored` | `[]MirroredIsStored` |
| `SavedIsStored` | `[]SavedMirroredIsStored` |
| `EventIsOwn` | `[]UploadIsOwn` |
| `BreathingIsOwned` | `[]MirroringIsOwned` |
| `ProbeMeetsNoUpload` | `[]IdleSlotIsFree` |
| `OneAtATime` | `[]OneInFlight` |
| `NoticeIsHonest` | `[]UnverifiedIsCounted` |

They rest on `PreserveAssumption` (the constants are of their kinds, items are
finitely many, and only files of IA items, counted from 1, have published
checksums), which TLC evaluates in each run of `MCPreserve`.

**The invariant.** That a preserved row is stored is not inductive: completion
marks the row after looking only at a counter. `IInv` says what the counter means.
`IaPhaseOK` places the IA machine in one of four phases (idle; waiting for its own
manifest; downloading file `iaIdx + 1`; uploading that file) and says that the
CIDs collected so far are those of files `1..iaIdx`, verified and held.
`ReseedPhaseOK` does the same for the CID row's machine. `SlotOK` excludes
replies nobody tracks and an upload nobody waits for. `RowsOK` adds the rows:
what is marked preserved is held, the disk never says more than the table, a CID
belongs to one row only (so that unpreserving one row cannot take files of
another), a row shown as preserving is in one of the machines.

**The argument.** There is one lemma per operator that several handlers share
(`SetStateIn`, `IaStop`, `IaNextFile`, `MirrorItem`, `DrainAutoQueue`,
`UploadFinished`) and one per action; each shows the conjuncts of `IInv` the action
can disturb. The step that needs the invariant most is `UploadDone`: `IaPhaseOK`
gives that the file whose event arrives is file `iaIdx + 1` of the current item, so
the list grows by the right CID, and that at `iaIdx = FileCount` it is complete.
Under abort of an accepted upload exactly this conjunct fails, which is the first
finding.

`StorageProofs` proves, for any set of files, on a shared node or one of our own, with or
without calls that time out:

| Theorem | Says |
|---|---|
| `SessionInvariance` | `Spec => []IInv` of the session |
| `SessionTypeCorrect` | `[]TypeOK`: an uploadFinished only comes to a caller that waits |
| `GreenIsBootstrapped` | `[]ReadyMeansBootstrapped` |
| `OneInFlightAlways` | `[]OneUploadInFlight`: on a node of our own that answers in time |
| `CreditIsDue` | `[]CreditedIsHeld`: on such a node |
| `SessionServes` | `Spec => Service!Safe`, the safety half of `ServesUploads` |

They rest on `SessionAssumption`. The invariant adds two facts: the slot is taken
exactly while the caller waits (`SlotIsAwaited`), and on a node of our own that answers in
time the node works on the awaited upload and nothing else (`NodeIsAwaited`). Without the first,
an event of another consumer could credit "nothing"; without the second, the file
of an event need not be the file the caller is told about.

`KeeperProofs` proves `PreserveKeeps`, `CleanUse /\ Spec => KeepsItems`: the whole
preserve machinery, under clean use, is a keeper. Most actions are steps nobody
sees; starting takes a row, a failure or an abort gives it up, and the event of the
last file marks it. `IInv` gives that at that moment all its files are in `Kept`.
`IInv` alone is too weak for a restart: it says that the file claims no more than the
table, and the keeper also forbids to forget. `SavedInTime` adds that state.json
already says preserved of every row that is, and lists no row that is gone.

`VerifiedProofs` proves what needs no clean use, with overlaps, aborts at any phase,
stale views, lost events, another consumer's events, calls that time out and restarts:

| Theorem | Says |
|---|---|
| `OnlyVerified` | `Spec => []OnlyVerifiedUploads` |
| `SlotIsEnough` | `OwnNode /\ Spec => []OneUploadAtATime` |
| `AnyUseTypes` | `Spec => []TypeOK` |
| `RetryIsQueued` | `~Restarts /\ Spec => []PendingIsQueued` |
| `AutoTakesAll` | `Spec => AutoOnTakesAvailable` |
| `AbortIsFinal` | `RowsStay /\ Spec => AbortCancelsIa` |

`IInv` does not hold there. What does, for the first two, is `AnyUseInv`: nothing is
handed to the node that mismatches a published checksum, on a node of our own the slot
is its only guard (both in `SlotInv`), and the machines' owners are rows of their kind
(`OwnerTypes`). `OwnNode` is needed for `SlotIsEnough`: another consumer's event, or the
end of an upload whose call timed out, frees the slot under an upload that goes on.
`TypeOK` is inductive by itself. For the queue, `QueueInv` says that every pending row is in
it: `DrainAutoQueue` may drop rows from the front, but only those that it
has just given another state or that were not pending. `~Restarts` is needed, because
`m_autoQueue` is not saved. For the abort, the invariant is that the row of a running
IA preserve breathes (`IaBreathes`); with it, a progress tick changes no other row, so
that only a start makes a row breathe. `RowsStay` (no row is removed, and none is
unpreserved from a stale view) is needed: a row removed in mid-preserve and discovered
again is `available` while the machine still works on it.

`ScanProofs` proves about `LezScan`, for every chain, page size, page cap and set of
gateway lists, and for all calls, failures, bodies that are not JSON, and restarts:

| Theorem | Says |
|---|---|
| `ScannerTypes` | `[]TypeOK`; the active position is on the list |
| `RepliesAreCurrent` | `[]ScanIsCurrent` |
| `NoSecondRow` | `[]OneRowPerId` |
| `NoRetreat` | `CursorNeverRetreats` |

The invariant is `ScanInv`. `RequestOK` ties each request to the channel it was sent
for: a page begins at the cursor's next slot and ends under the height of its scan.
`TableOK` holds of the table and of state.json alike, since a restart turns one into
the other, and `FileOK` says that the file's cursors are not ahead of the table's.

`FeedProofs` adds:

| Theorem | Says |
|---|---|
| `NothingSkipped` | `Undisturbed /\ Spec => []NoneSkipped` |
| `ScannerFeeds` | `Undisturbed /\ Spec => FeedsTheList` |
| `BackfillSendsNothing` | `"unfollow" \notin Ops /\ Spec => BackfillIsQuiet` |

`Undisturbed` leaves out `setGateways` and bodies that are not JSON; the run
`LezScanGateways`, and `Malformed = TRUE` in `LezScanOne`, show that both are needed.
Its invariant `FeedInv` says why nothing is skipped: a request goes to the node at
the position its scan is pinned to, and a page ends under what that very node has
finalised (`Pinned`); hence the cursor moves only over slots whose inscriptions the
page really listed, and every channel, in the table and in the file, lists what was
inscribed from the slot asked for up to its cursor, less what was removed (`Fitting`,
`FileFitting`). `ExplorerFirst` is needed where the explorer sets a start slot: it
does so only before the first page. Failures, failovers, polls, restarts and node
heights that grow at any pace are included. `BackfillSendsNothing` needs only that a
channel in `m_syncedOnce` has reached the tip of its present follow (`ArmedOnce`).

The two files rest on `ScanAssumption`, which TLC evaluates in each run of `MCLezScan`.

`ShelfProofs` proves about `Shelf`, for any channels, items and contents:

| Theorem | Says |
|---|---|
| `UnfollowIsKept` | `RowsSpec => []UnfollowSticks` |
| `RowsAgree` | `Apart /\ RowsSpec => []RowsInv` |
| `PreservedKeepsContent` | `Apart /\ RowsSpec => []PreservedIsHeld` |
| `UnpreserveLeavesNothing` | `Apart /\ RowsSpec => []FreedIsGone` |
| `FileFollowsTable` | `Apart /\ RowsSpec => []FileKeepsMirrored` |

`UnfollowIsKept` needs one fact (`Sticky`): while an unfollow of the official channel
counts, the file exists and does not list the channel. The others need `Apart`, no id
under two channels and no CID in two items; without it they fail (section 3). Rows of
collections, and stops between two saves of one handler, are not in `Shelf`. `RowsInv`
joins the four places that a stop can part: the table, the file, storage, and the handler
that blocks. `SameMirrored` says that the file has the preserved rows of the table with
their CIDs, so a restart returns them; `MirroredOK` that storage has their files unless
an unpreserve was asked for; `CallOK` what a blocked unpreserve has left to do: what
storage still holds of the item is among the removals to come, so when none is left,
none is held, unless storage refused one, and then the count that would flip the row is
gone. Each action of the run keeps all six conjuncts, `Stop` and `Start` included.

`ReaderProofs` proves that each reader says what its text says, for texts of any length:

| Theorem | Says |
|---|---|
| `EverySkipIsCounted` | `PageSpec => []SkipsAreCounted` |
| `AnchoredHint` | `RefSpec => []HintIsAnchored` |
| `ManifestRead` | `ManifestSpec => []ManifestIsRead` |
| `SourcesAsRead` | `LabelSpec => []SourcesAgree` |

They rest on `RefAssumption` (ids and numbers have at least one digit) and
`LabelAssumption` (at least one candidate may be tried). The invariants relate the
state of the reader to the text so far. `PageInv`: the counters of the pages before and
of this page add up to what was read, and the rows are what was matched. `RefInv`: the
matcher either seeks, and no place of the text so far begins an id, or it stands behind
the first id of the text, with the `@` and digits it has taken. `ManifestInv`: what is
listed is what the closed files of the text describe, in order (`OutIs`), and what is
held is what the open file describes so far (`CurIs`); files open and closed balance.
`SourceRef` keeps no state between characters, and its theorem is about the two
functions that read a label: `CutsInOrder` says that the cuts at and before a place
are cuts at dashes, ever further left, so that no two leave the same item; `SplitIs`
and `CutIs` that the cut `deriveIaRef` takes is the first of them, and that a cut
loses nothing of the text but its dash.

**Recursive functions and counts.** `Cuts` of `SourceRef` and `Appended` of
`Inscriptions` are recursive functions, and the provers take no induction rule. Where a
fact holds for every place or every length, the proof takes the least natural number
for which it fails (`LeastNumber`, from `NatLessThanWellFounded`) and contradicts it
from the one before; the same argument shows first that the function exists
(`CutsExist`).

**Only model-checked:** all liveness (`PreserveEnds`, `QueueIsServed`,
`EveryInscriptionIsListed`, `BlipRecovers`, `UploadAnswered`, the liveness half of
`ServesUploads`), which is beyond the proof system, as is `ENABLED`. The properties
of the violation runs are refuted, not proved. `OneUploadAtATime` is the one property
that is proved (`SlotIsEnough`) and that no run checks. Every invariant and every safety
property of the passing runs has its theorem; those of `Preserve` that name no theorem
of their own in `VerifiedProofs` are proved under `CleanUse`.

## 5. Not modelled

* Generated SDK wrapper: marshalling, no state. Share cards and explorer links: they
  render or open what one row says. QML layout, build and install scripts.
* `NullStorageTransport`: every answer a failure, which the models allow anyway.
* The migrations of `loadState`: they fill in fields of older files that no property
  reads (`txIndex`, `iaId` from a title).
* Pin and unpin callbacks that come later than their call returns:
  `StorageTransport` allows them, its only implementation does not.
* Titles, sizes, thumbnails, byte progress, sync lag, the activity log; the 1 GiB cap
  is the constant of oversized rows in `Preserve`.
* Node databases that lose content by themselves.

`PROJECT.json` gives the reason for each component.

## 6. Plan

Order of work, the most important behaviour first. Steps 1 to 8 are done.

1. `StorageClient` with `StorageSession`; `Preserve` with its instances.
2. `LezScan` with its instances.
3. `PreserveProofs`: the inductive invariant of clean use.
4. Abstract specifications and refinements: `UploadService`, `Keeper`, `Feed`.
5. Readers against what their input says: `IaFiles`, `ChannelRef`, `SourceRef`,
   `Inscriptions`. `Shelf`: several channels, the file's three conditions, stops
   inside handlers.
6. `StorageProofs`: the session's invariants and its refinement.
7. The refinements of `Keeper` and `Feed`, and what `LezScan` keeps for any instance:
   `KeeperProofs`, `VerifiedProofs`, `ScanProofs`, `FeedProofs`.
8. What was only model-checked: `Shelf` (`ShelfProofs`), the readers (`ReaderProofs`),
   and of `Preserve` the types, the queue and the action properties beyond clean use
   (`VerifiedProofs`).
9. Left: weaker conditions than `CleanUse` for single theorems (an abort of an accepted
   upload breaks `MirroredIsStored`, but not `OneInFlight`), and `PreservedIsHeld`
   under shared ids for rows that no other row's operation names.

## 7. Running

    tlc -workers 2 -config PreserveClean.cfg MCPreserve
    tlc -workers 2 -config StorageSession.cfg StorageSession
    tlc -workers 2 -config Parts.cfg MCParts
    tlapm PreserveProofs.tla
    tlapm KeeperProofs.tla
    tlapm VerifiedProofs.tla
    tlapm StorageProofs.tla
    tlapm ScanProofs.tla
    tlapm FeedProofs.tla
    tlapm ShelfProofs.tla
    tlapm ReaderProofs.tla

`StorageSession` checks for deadlock. The other runs do not: their users may call
nothing more (`UserOps`, `MaxCalls`), and the system then rests.

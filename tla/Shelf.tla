-------------------------------- MODULE Shelf --------------------------------
(***************************************************************************)
(* The rows of all followed channels, the state file and the content they  *)
(* stand for, across restarts: LezClient's row functions, saveState and    *)
(* loadState, the seed of ArchivePlugin's first run, and the two handlers  *)
(* that block on storage, a pin and the loop of removals in unmirrorItem.  *)
(* The host may stop between two handlers and while one of these blocks;   *)
(* a stop between two saves of the same handler is left out.  So are rows  *)
(* of collections, whose CID field names no content (Preserve has them).   *)
(*                                                                         *)
(* A preserve of an Internet Archive item is its start and its end;        *)
(* Preserve has what lies between.  A pin that fails ends in "error"; the  *)
(* reseed it may lead to is Preserve's as well.                            *)
(***************************************************************************)
EXTENDS Naturals, Sequences, FiniteSets, Functions

CONSTANTS
  Channel,              \* channel ids: numbers, in QMap's order
  Official,             \* kOfficialCampaignChannel
  OnChain,              \* [Channel -> SUBSET DOMAIN Content]: the ids each inscribes
  Content,              \* [item id -> the CIDs of its content]
  WithCid,              \* ids whose inscription carries the CID
  None                  \* no item

ASSUME ShelfAssumption ==
  /\ Channel \subseteq Nat /\ Official \in Channel
  /\ OnChain \in [Channel -> SUBSET DOMAIN Content]
  /\ \A id \in DOMAIN Content : Content[id] \in Seq(Range(Content[id]))
  /\ WithCid \subseteq DOMAIN Content
  /\ \A id \in WithCid : Len(Content[id]) = 1
  /\ None \notin DOMAIN Content

VARIABLES
  up,                   \* is the host running?
  shelf,                \* m_channels: the rows of every followed channel, by id
  file,                 \* state.json
  held,                 \* the CIDs that Logos Storage holds
  working,              \* m_iaItemId
  call,                 \* the blocking call that a handler waits for
  dropped,              \* history: the user unfollowed the official channel
  asked                 \* history, per item: what became of its last unpreserve

rowVars == <<up, shelf, file, held, working, call, dropped, asked>>

Item == DOMAIN Content
Row(state, cids) == [state |-> state, stored |-> cids]
New == Row("available", <<>>)
NoItems == [id \in {} |-> New]
NoRows == [c \in {} |-> NoItems]
\* f, with the value v at x.
With(f, x, v) == [y \in DOMAIN f \cup {x} |-> IF y = x THEN v ELSE f[y]]
File(kind, rows) == [kind |-> kind, rows |-> rows]
Call(op, id, left, remaining) ==
  [op |-> op, id |-> id, left |-> left, remaining |-> remaining]
NoCall == Call("none", None, <<>>, 0)

RowsInit ==
  /\ up = FALSE
  /\ shelf = NoRows
  /\ file = File("absent", NoRows)
  /\ held = {}
  /\ working = None
  /\ call = NoCall
  /\ dropped = FALSE
  /\ asked = [id \in Item |-> "no"]

Saved(rows) == file' = File("rows", rows)

\* A handler gets its turn.
Turn == up /\ call = NoCall

(***************************************************************************)
(* Lookups by bare id take the first channel that has the row.             *)
(***************************************************************************)
HomesIn(rows, id) == {c \in DOMAIN rows : id \in DOMAIN rows[c]}
Home(id) == CHOOSE c \in HomesIn(shelf, id) : \A d \in HomesIn(shelf, id) : c <= d
Found(id) == HomesIn(shelf, id) # {}
RowOf(id) == shelf[Home(id)][id]
Updated(id, row) == IF Found(id) THEN [shelf EXCEPT ![Home(id)][id] = row] ELSE shelf

\* setItemState with a state that is saved, with what setItemStoredCids set before it.
Put(id, row) ==
  /\ shelf' = Updated(id, row)
  /\ IF Found(id) THEN Saved(Updated(id, row)) ELSE UNCHANGED file

\* setItemState "mirroring", which is not.
Breathe(id) ==
  /\ shelf' = Updated(id, [RowOf(id) EXCEPT !.state = "mirroring"])
  /\ UNCHANGED file

\* The state the user sees in some channel's list.
Shows(id, states) == \E c \in HomesIn(shelf, id) : shelf[c][id].state \in states

(***************************************************************************)
(* Channels and discovery.                                                 *)
(***************************************************************************)
Follow(c) ==
  /\ Turn /\ c \notin DOMAIN shelf
  /\ shelf' = With(shelf, c, NoItems)
  /\ Saved(shelf')
  /\ dropped' = (dropped /\ c # Official)
  /\ UNCHANGED <<up, held, working, call, asked>>

Leave(channels) ==
  /\ Turn /\ channels # {}
  /\ shelf' = Restrict(shelf, DOMAIN shelf \ channels)
  /\ Saved(shelf')
  /\ dropped' = (dropped \/ Official \in channels)
  /\ UNCHANGED <<up, held, working, call, asked>>

UnfollowOne(c) == c \in DOMAIN shelf /\ Leave({c})
RemoveAll == Leave(DOMAIN shelf)

\* A page of a scan; the file follows when the scan ends.  A row that was removed may
\* come again.
Discover(c, id) ==
  /\ Turn /\ c \in DOMAIN shelf /\ id \in OnChain[c] \ DOMAIN shelf[c]
  /\ shelf' = [shelf EXCEPT ![c] = With(@, id, New)]
  /\ UNCHANGED <<up, file, held, working, call, dropped, asked>>

ScanEnds ==
  /\ Turn
  /\ Saved(shelf)
  /\ UNCHANGED <<up, shelf, held, working, call, dropped, asked>>

RemoveRow(id) ==
  /\ Turn /\ Found(id)
  /\ shelf' = [shelf EXCEPT ![Home(id)] = Restrict(@, DOMAIN @ \ {id})]
  /\ Saved(shelf')
  /\ UNCHANGED <<up, held, working, call, dropped, asked>>

(***************************************************************************)
(* Preserving.                                                             *)
(***************************************************************************)
StartPreserve(id) ==
  /\ Turn /\ id \notin WithCid /\ Shows(id, {"available", "error", "pending"})
  /\ working = None
  /\ working' = id
  /\ Breathe(id)
  /\ asked' = [asked EXCEPT ![id] = "no"]
  /\ UNCHANGED <<up, held, call, dropped>>

PreserveEnds ==
  /\ Turn /\ working # None
  /\ held' = held \cup Range(Content[working])
  /\ Put(working, Row("mirrored", Content[working]))
  /\ working' = None
  /\ UNCHANGED <<up, call, dropped, asked>>

\* iaFail, iaPending, abortPreserve: the files uploaded so far stay.
PreserveStops ==
  /\ Turn /\ working # None
  /\ \E n \in 0..Len(Content[working]) - 1 :
       held' = held \cup Range(SubSeq(Content[working], 1, n))
  /\ \E state \in {"error", "pending", "available"} :
       IF Found(working) THEN Put(working, [RowOf(working) EXCEPT !.state = state])
       ELSE UNCHANGED <<shelf, file>>
  /\ working' = None
  /\ UNCHANGED <<up, call, dropped, asked>>

Pin(id) ==
  /\ Turn /\ id \in WithCid /\ Shows(id, {"available", "error"})
  /\ call' = Call("pin", id, <<>>, 0)
  /\ Breathe(id)
  /\ asked' = [asked EXCEPT ![id] = "no"]
  /\ UNCHANGED <<up, file, held, working, dropped>>

Pinned(ok) ==
  /\ call.op = "pin"
  /\ call' = NoCall
  /\ held' = IF ok THEN held \cup Range(Content[call.id]) ELSE held
  /\ Put(call.id, [RowOf(call.id) EXCEPT !.state = IF ok THEN "mirrored" ELSE "error"])
  /\ UNCHANGED <<up, working, dropped, asked>>

(***************************************************************************)
(* Unpreserving: one blocking removal after the other.                     *)
(***************************************************************************)
CidsOf(id) == IF id \in WithCid THEN Content[id] ELSE RowOf(id).stored

Unmirror(id) ==
  /\ Turn /\ Shows(id, {"mirrored"}) /\ CidsOf(id) # <<>>
  /\ call' = Call("unpin", id, CidsOf(id), Len(CidsOf(id)))
  /\ asked' = [asked EXCEPT ![id] = "asked"]
  /\ UNCHANGED <<up, shelf, file, held, working, dropped>>

Outcome(ok, remaining) ==
  /\ held' = IF ok THEN held \ {Head(call.left)} ELSE held
  /\ call' = IF Len(call.left) = 1 THEN NoCall
             ELSE Call("unpin", call.id, Tail(call.left), remaining)
  /\ UNCHANGED <<up, working, dropped>>

\* storage removed the CID, or did not have it, and more are to go.
OneRemoved ==
  /\ call.op = "unpin" /\ call.remaining > 1
  /\ Outcome(TRUE, call.remaining - 1)
  /\ UNCHANGED <<shelf, file, asked>>

\* Faulty variant: the first removal frees the row.
LastRemovedAny ==
  /\ call.op = "unpin"
  /\ Outcome(TRUE, 0)
  /\ Put(call.id, New)
  /\ asked' = [asked EXCEPT ![call.id] = IF @ = "refused" THEN @ ELSE "done"]

\* The row is free when no removal remains, and also when the count is gone.
LastRemoved ==
  /\ call.op = "unpin" /\ call.remaining <= 1
  /\ Outcome(TRUE, 0)
  /\ Put(call.id, New)
  /\ asked' = [asked EXCEPT ![call.id] = IF @ = "refused" THEN @ ELSE "done"]

\* Faulty variant: a removal that fails leaves the row preserved.
RefusedAsBefore ==
  /\ call.op = "unpin"
  /\ Outcome(FALSE, 0)
  /\ Put(call.id, [RowOf(call.id) EXCEPT !.state = "mirrored"])
  /\ asked' = [asked EXCEPT ![call.id] = "refused"]

Refused ==
  /\ call.op = "unpin"
  /\ Outcome(FALSE, 0)
  /\ Put(call.id, [RowOf(call.id) EXCEPT !.state = "error"])
  /\ asked' = [asked EXCEPT ![call.id] = "refused"]

(***************************************************************************)
(* Stop and start.                                                         *)
(***************************************************************************)
\* What storage may hold when nobody waits for its answer any more.
Aftermath ==
  CASE call.op = "pin" -> {held, held \cup Range(Content[call.id])}
    [] call.op = "unpin" -> {held, held \ {Head(call.left)}}
    [] OTHER -> {held}

Stop ==
  /\ up
  /\ up' = FALSE
  /\ held' \in Aftermath
  /\ shelf' = NoRows
  /\ working' = None
  /\ call' = NoCall
  /\ UNCHANGED <<file, dropped, asked>>

\* Something else damages the file; a new first run may follow.
Corrupted ==
  /\ ~up /\ file.kind = "rows"
  /\ file' = File("corrupt", NoRows)
  /\ dropped' = FALSE
  /\ UNCHANGED <<up, shelf, held, working, call, asked>>

\* Faulty variant: the CIDs of the stored files are not read back.
LoadedBare(rows) ==
  [c \in DOMAIN rows |-> [id \in DOMAIN rows[c] |-> Row(rows[c][id].state, <<>>)]]

\* No pin survives a restart, and an error is no property of the item.
Loaded(rows) ==
  [c \in DOMAIN rows |-> [id \in DOMAIN rows[c] |->
    IF rows[c][id].state \in {"mirroring", "error"}
    THEN [rows[c][id] EXCEPT !.state = "available"] ELSE rows[c][id]]]

\* Faulty variant: an empty list is taken for a first run.
SeedsWhenEmpty == file.kind = "absent" \/ file = File("rows", NoRows)

\* loadState returns false.
Seeds == file.kind = "absent"

Start ==
  /\ ~up
  /\ up' = TRUE
  /\ IF Seeds
     THEN shelf' = With(NoRows, Official, NoItems) /\ Saved(shelf')
     ELSE /\ shelf' = Loaded(file.rows)
          /\ file' = IF file.kind = "corrupt" THEN File("absent", NoRows) ELSE file
  /\ UNCHANGED <<held, working, call, dropped, asked>>

UserActs ==
  \/ RemoveAll
  \/ \E c \in Channel : Follow(c) \/ UnfollowOne(c)
  \/ \E id \in Item : RemoveRow(id) \/ StartPreserve(id) \/ Pin(id) \/ Unmirror(id)
Scans == ScanEnds \/ \E c \in Channel, id \in Item : Discover(c, id)
Answers ==
  \/ PreserveEnds \/ PreserveStops
  \/ \E ok \in BOOLEAN : Pinned(ok)
  \/ OneRemoved \/ LastRemoved \/ Refused

RowsNext == UserActs \/ Scans \/ Answers \/ Stop \/ Corrupted \/ Start

RowsSpec == RowsInit /\ [][RowsNext]_rowVars

-----------------------------------------------------------------------------
\* "Unfollow sticks: state exists after this, so the seed never repeats"
\* (ArchivePlugin.cpp:211-213): the official channel, once unfollowed, comes back
\* only by the user's hand or after the state file was damaged, whatever stops,
\* starts and clean slates follow.
UnfollowSticks == dropped => Official \notin DOMAIN shelf

Mirrored(rows) ==
  {at \in Channel \X Item : /\ at[1] \in DOMAIN rows /\ at[2] \in DOMAIN rows[at[1]]
                             /\ rows[at[1]][at[2]].state = "mirrored"}

\* A row that shows as preserved has all its content in storage, also after the host
\* stopped inside a pin and after storage refused a removal (unpinFinished); only an
\* unpreserve that is going on, or was cut off by a stop, may have taken some.
PreservedIsHeld ==
  \A at \in Mirrored(shelf) :
    Range(Content[at[2]]) \subseteq held \/ asked[at[2]] = "asked"

\* An unpreserve that storage did not refuse anything of leaves nothing behind, also
\* when stops cut it off and the user asked again after the restart: the list of what
\* to remove outlives them (unmirrorItem, loadState).
FreedIsGone == \A id \in Item : asked[id] = "done" => Range(Content[id]) \cap held = {}

\* A stop forgets no preserve and revives none: between handlers the file says
\* "mirrored" of the rows of the table that do, and of no others, with the same CIDs
\* (setItemState saves, progress ticks do not).
FileKeepsMirrored ==
  Turn => /\ Mirrored(shelf) = Mirrored(file.rows)
          /\ \A at \in Mirrored(shelf) : shelf[at[1]][at[2]] = file.rows[at[1]][at[2]]
==============================================================================

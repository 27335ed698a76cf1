----------------------------- MODULE ShelfProofs -----------------------------
(***************************************************************************)
(* Proofs about Shelf, for every value of its constants: that an unfollow  *)
(* sticks; and, as long as no two rows share their id or a part of their   *)
(* content, that the rows, the state file and storage agree through stops  *)
(* between handlers and inside one that blocks.                            *)
(***************************************************************************)
EXTENDS Shelf, SequenceTheorems, TLAPS

\* No id under two channels, no CID in two items.  (What fails otherwise: lookups by
\* id take the first channel, an unpreserve does not ask whose else a CID is.)
Apart ==
  /\ \A c, d \in Channel : c # d => OnChain[c] \cap OnChain[d] = {}
  /\ \A i, j \in Item : i # j => Range(Content[i]) \cap Range(Content[j]) = {}

-----------------------------------------------------------------------------
(* An unfollow sticks.                                                      *)

\* While the user's unfollow of the official channel counts, the state file is there
\* to say so.
Sticky ==
  dropped => /\ Official \notin DOMAIN shelf
             /\ file.kind = "rows" /\ Official \notin DOMAIN file.rows

\* Setting a row's state follows no channel and unfollows none.
LEMMA UpdatedDomain ==
  ASSUME NEW id, NEW row
  PROVE  DOMAIN Updated(id, row) = DOMAIN shelf
BY DEF Updated

LEMMA PutSticky ==
  ASSUME Sticky, NEW id, NEW row, Put(id, row), UNCHANGED dropped
  PROVE  Sticky'
BY UpdatedDomain DEF Sticky, Put, Saved, File

LEMMA BreatheSticky ==
  ASSUME Sticky, NEW id, Breathe(id), UNCHANGED dropped
  PROVE  Sticky'
BY UpdatedDomain DEF Sticky, Breathe

LEMMA StickyStep ==
  ASSUME Sticky, [RowsNext]_rowVars
  PROVE  Sticky'
<1>1. CASE UNCHANGED rowVars
  BY <1>1 DEF rowVars, Sticky
<1>2. ASSUME NEW c \in Channel, Follow(c) PROVE Sticky'
  BY <1>2 DEF Follow, Sticky, Saved, File, With
<1>3. ASSUME NEW channels, Leave(channels) PROVE Sticky'
  BY <1>3 DEF Leave, Sticky, Saved, File, Restrict
<1>4. ASSUME NEW id \in Item, RemoveRow(id) PROVE Sticky'
  BY <1>4 DEF RemoveRow, Sticky, Saved, File
<1>5. ASSUME NEW id \in Item, StartPreserve(id) \/ Pin(id) PROVE Sticky'
  BY <1>5, BreatheSticky DEF StartPreserve, Pin
<1>6. ASSUME NEW id \in Item, Unmirror(id) PROVE Sticky'
  BY <1>6 DEF Unmirror, Sticky
<1>7. CASE Scans
  <2>1. CASE ScanEnds
    BY <2>1 DEF ScanEnds, Sticky, Saved, File
  <2>2. ASSUME NEW c, NEW id, Discover(c, id) PROVE Sticky'
    BY <2>2 DEF Discover, Sticky
  <2> QED
    BY <1>7, <2>1, <2>2 DEF Scans
<1>8. CASE PreserveEnds
  BY <1>8, PutSticky DEF PreserveEnds
<1>9. CASE PreserveStops
  <2>1. UNCHANGED dropped
    BY <1>9 DEF PreserveStops
  <2>2. CASE UNCHANGED <<shelf, file>>
    BY <2>1, <2>2 DEF Sticky
  <2>3. ASSUME NEW row, Put(working, row) PROVE Sticky'
    BY <2>1, <2>3, PutSticky
  <2> QED
    BY <1>9, <2>2, <2>3 DEF PreserveStops
<1>10. ASSUME NEW ok \in BOOLEAN, Pinned(ok) PROVE Sticky'
  BY <1>10, PutSticky DEF Pinned
<1>11. CASE OneRemoved
  BY <1>11 DEF OneRemoved, Outcome, Sticky
<1>12. CASE LastRemoved \/ Refused
  BY <1>12, PutSticky DEF LastRemoved, Refused, Outcome
<1>13. CASE Stop
  BY <1>13 DEF Stop, NoRows, Sticky
<1>14. CASE Corrupted
  BY <1>14 DEF Corrupted, Sticky
<1>15. CASE Start
  BY <1>15 DEF Start, Seeds, Loaded, Sticky
<1> QED
  BY <1>1, <1>2, <1>3, <1>4, <1>5, <1>6, <1>7, <1>8, <1>9, <1>10, <1>11, <1>12, <1>13, <1>14, <1>15
     DEF RowsNext, UserActs, RemoveAll, UnfollowOne, Answers

\* The official channel, once unfollowed, stays away over any number of stops and
\* starts, of clean slates and of other changes, until the user follows it again or
\* something else damages the state file (ArchivePlugin.cpp:211-213).
THEOREM UnfollowIsKept == RowsSpec => []UnfollowSticks
<1>1. RowsInit => Sticky
  BY DEF RowsInit, Sticky
<1>2. Sticky => UnfollowSticks
  BY DEF Sticky, UnfollowSticks
<1> QED
  BY <1>1, <1>2, StickyStep, PTL DEF RowsSpec

-----------------------------------------------------------------------------
(* Rows, file and storage: the parts of the invariant.                      *)

States == {"available", "mirroring", "mirrored", "pending", "error"}
Rows == [state : States, stored : {<<>>} \cup {Content[i] : i \in Item}]

\* A channel has rows for what it inscribes, and for nothing else.
TableOK(rows) ==
  /\ DOMAIN rows \subseteq Channel
  /\ \A c \in DOMAIN rows :
       /\ DOMAIN rows[c] \subseteq OnChain[c]
       /\ \A id \in DOMAIN rows[c] : rows[c][id] \in Rows

IsMirrored(rows, c, id) ==
  c \in DOMAIN rows /\ id \in DOMAIN rows[c] /\ rows[c][id].state = "mirrored"

FileOK ==
  /\ TableOK(file.rows) /\ file.kind \in {"absent", "corrupt", "rows"}
  /\ file.kind = "rows" \/ file.rows = NoRows

Typed ==
  /\ TableOK(shelf) /\ FileOK
  /\ working \in Item \cup {None}
  /\ asked \in [Item -> {"no", "asked", "refused", "done"}]
  /\ ~up => shelf = NoRows /\ working = None /\ call = NoCall

\* The file names the preserved rows that the table has, with their CIDs.
SameMirrored ==
  up => \A c \in Channel, id \in Item :
          /\ IsMirrored(shelf, c, id) <=> IsMirrored(file.rows, c, id)
          /\ IsMirrored(shelf, c, id) => shelf[c][id] = file.rows[c][id]

\* A preserved row knows the CIDs of its files, and storage has them, or an unpreserve
\* was asked for.
MirroredOK ==
  \A c \in Channel, id \in Item :
    IsMirrored(file.rows, c, id) =>
      /\ id \notin WithCid => file.rows[c][id].stored = Content[id]
      /\ Range(Content[id]) \subseteq held \/ asked[id] = "asked"

\* Nobody asks for the unpreserve of an item while it is preserved.
WorkingOK ==
  working # None =>
    /\ working \notin WithCid /\ asked[working] = "no"
    /\ \A c \in Channel : ~IsMirrored(shelf, c, working)

\* A handler that blocks: a pin, or an unpreserve that has removed all but what is left,
\* unless storage refused something and the row is marked.
CallOK ==
  \/ call = NoCall
  \/ /\ call.op = "pin"
     /\ call.id \in WithCid /\ asked[call.id] = "no"
  \/ /\ call.op = "unpin"
     /\ call.id \in Item /\ call.left \in Seq(Range(Content[call.id])) \ {<<>>}
     /\ \/ /\ asked[call.id] = "asked"
           /\ call.remaining = Len(call.left)
           /\ Range(Content[call.id]) \cap held \subseteq Range(call.left)
        \/ /\ asked[call.id] = "refused"
           /\ call.remaining = 0
           /\ \A c \in Channel : ~IsMirrored(shelf, c, call.id)

RowsInv == Typed /\ SameMirrored /\ MirroredOK /\ WorkingOK /\ CallOK /\ FreedIsGone

-----------------------------------------------------------------------------
(* What a handler finds and leaves in the table.                            *)

\* The one place of a row.
LEMMA HomeIs ==
  ASSUME Apart, TableOK(shelf), NEW id, NEW c \in DOMAIN shelf, id \in DOMAIN shelf[c]
  PROVE  Found(id) /\ Home(id) = c
<1>1. c \in HomesIn(shelf, id)
  BY DEF HomesIn
<1>2. ASSUME NEW d \in HomesIn(shelf, id) PROVE d = c
  BY <1>2 DEF HomesIn, TableOK, Apart
<1>3. c \in Nat
  BY ShelfAssumption DEF ShelfAssumption, TableOK
<1>4. HomesIn(shelf, id) = {c}
  BY <1>1, <1>2
<1> QED
  BY <1>3, <1>4 DEF Found, Home

LEMMA RowOfIs ==
  ASSUME Apart, TableOK(shelf), NEW id, Found(id)
  PROVE  /\ RowOf(id) \in Rows
         /\ Home(id) \in Channel /\ Home(id) \in DOMAIN shelf /\ id \in DOMAIN shelf[Home(id)]
<1>1. PICK c \in DOMAIN shelf : id \in DOMAIN shelf[c]
  BY DEF Found, HomesIn
<1>2. Home(id) = c
  BY <1>1, HomeIs
<1> QED
  BY <1>1, <1>2 DEF RowOf, TableOK

\* What a row shows is its state.
LEMMA ShowsIs ==
  ASSUME Apart, TableOK(shelf), NEW id, NEW states, Shows(id, states)
  PROVE  Found(id) /\ RowOf(id).state \in states
<1>1. PICK c \in DOMAIN shelf : id \in DOMAIN shelf[c] /\ shelf[c][id].state \in states
  BY DEF Shows, HomesIn
<1> QED
  BY <1>1, HomeIs DEF RowOf

\* A row of a table is replaced, the other rows stay.
LEMMA ReplacedIs ==
  ASSUME NEW rows, TableOK(rows), NEW h \in DOMAIN rows, NEW id \in DOMAIN rows[h],
         \A c \in DOMAIN rows : id \in DOMAIN rows[c] => c = h,
         NEW row \in Rows, NEW next,
         DOMAIN next = DOMAIN rows, DOMAIN next[h] = DOMAIN rows[h], next[h][id] = row,
         \A c \in DOMAIN rows : c # h => next[c] = rows[c],
         \A j \in DOMAIN rows[h] : j # id => next[h][j] = rows[h][j]
  PROVE  /\ TableOK(next)
         /\ \A c, j : IsMirrored(next, c, j)
                        => \/ j # id /\ IsMirrored(rows, c, j) /\ next[c][j] = rows[c][j]
                           \/ j = id /\ row.state = "mirrored" /\ next[c][j] = row
         /\ \A c, j : j # id /\ IsMirrored(rows, c, j) => IsMirrored(next, c, j)
<1>1. TableOK(next)
  <2>1. ASSUME NEW c \in DOMAIN rows
        PROVE  DOMAIN next[c] \subseteq OnChain[c] /\ \A j \in DOMAIN next[c] : next[c][j] \in Rows
    <3>1. CASE c = h
      BY <3>1 DEF TableOK
    <3>2. CASE c # h
      BY <3>2 DEF TableOK
    <3> QED
      BY <3>1, <3>2
  <2> QED
    BY <2>1 DEF TableOK
<1>2. ASSUME NEW c, NEW j, IsMirrored(next, c, j)
      PROVE  \/ j # id /\ IsMirrored(rows, c, j) /\ next[c][j] = rows[c][j]
             \/ j = id /\ row.state = "mirrored" /\ next[c][j] = row
  <2>1. CASE c = h
    BY <1>2, <2>1 DEF IsMirrored
  <2>2. CASE c # h
    BY <1>2, <2>2 DEF IsMirrored
  <2> QED
    BY <2>1, <2>2
<1>3. ASSUME NEW c, NEW j, j # id, IsMirrored(rows, c, j) PROVE IsMirrored(next, c, j)
  <2>1. CASE c = h
    BY <1>3, <2>1 DEF IsMirrored
  <2>2. CASE c # h
    BY <1>3, <2>2 DEF IsMirrored
  <2> QED
    BY <2>1, <2>2
<1> QED
  BY <1>1, <1>2, <1>3

\* An item's row gets a new state; without a row nothing happens.
LEMMA UpdatedIs ==
  ASSUME Apart, TableOK(shelf), NEW id \in Item, NEW row, Found(id) => row \in Rows,
         NEW next, next = Updated(id, row)
  PROVE  /\ TableOK(next)
         /\ \A c, j : IsMirrored(next, c, j)
                        => \/ j # id /\ IsMirrored(shelf, c, j) /\ next[c][j] = shelf[c][j]
                           \/ j = id /\ row.state = "mirrored" /\ next[c][j] = row
         /\ \A c, j : j # id /\ IsMirrored(shelf, c, j) => IsMirrored(next, c, j)
<1>1. CASE ~Found(id)
  <2>1. next = shelf
    BY <1>1 DEF Updated
  <2>2. \A c : ~IsMirrored(shelf, c, id)
    BY <1>1 DEF Found, HomesIn, IsMirrored
  <2> QED
    BY <2>1, <2>2
<1>2. CASE Found(id)
  <2>1. Home(id) \in DOMAIN shelf /\ id \in DOMAIN shelf[Home(id)] /\ row \in Rows
    BY <1>2, RowOfIs
  <2>2. PICK h : h = Home(id)
    OBVIOUS
  <2>3. \A c \in DOMAIN shelf : id \in DOMAIN shelf[c] => c = h
    BY <2>2, HomeIs
  <2>4. h \in DOMAIN shelf /\ id \in DOMAIN shelf[h]
    BY <2>1, <2>2
  <2>5. next = [shelf EXCEPT ![h] = [shelf[h] EXCEPT ![id] = row]]
    BY <1>2, <2>2 DEF Updated
  <2>6. /\ DOMAIN next = DOMAIN shelf /\ DOMAIN next[h] = DOMAIN shelf[h] /\ next[h][id] = row
        /\ \A c \in DOMAIN shelf : c # h => next[c] = shelf[c]
        /\ \A j \in DOMAIN shelf[h] : j # id => next[h][j] = shelf[h][j]
    BY <2>4, <2>5
  <2> QED
    BY <2>1, <2>3, <2>4, <2>6, ReplacedIs
<1> QED
  BY <1>1, <1>2

\* A table that is saved, or changed in rows that are not preserved and stay so.
LEMMA FileFollows ==
  ASSUME FileOK, SameMirrored, up, TableOK(shelf'),
         \/ Saved(shelf')
         \/ /\ file' = file
            /\ \A c \in Channel, id \in Item :
                 /\ IsMirrored(shelf', c, id) <=> IsMirrored(shelf, c, id)
                 /\ IsMirrored(shelf, c, id) => shelf'[c][id] = shelf[c][id]
  PROVE  SameMirrored' /\ FileOK'
<1>1. CASE Saved(shelf')
  <2>1. file'.rows = shelf' /\ file'.kind = "rows"
    BY <1>1 DEF Saved, File
  <2> QED
    BY <2>1 DEF SameMirrored, IsMirrored, FileOK, TableOK
<1>2. CASE ~Saved(shelf')
  BY <1>2 DEF SameMirrored, FileOK, IsMirrored, TableOK, NoRows
<1> QED
  BY <1>1, <1>2

\* What holds of the preserved rows, while the host is up, from the table's side.
RowsKept ==
  \A c \in Channel, id \in Item :
    IsMirrored(shelf, c, id) =>
      /\ id \notin WithCid => shelf[c][id].stored = Content[id]
      /\ Range(Content[id]) \subseteq held \/ asked[id] = "asked"

LEMMA KeptFromFile == ASSUME RowsInv, up PROVE RowsKept
BY DEF RowsInv, SameMirrored, MirroredOK, RowsKept

LEMMA KeptInFile == ASSUME SameMirrored', up', RowsKept' PROVE MirroredOK'
BY DEF SameMirrored, MirroredOK, RowsKept, IsMirrored

\* A handler that changes nothing but the table, and there no preserved row other than
\* by taking it away.
LEMMA QuietStep ==
  ASSUME RowsInv, up, TableOK(shelf'),
         UNCHANGED <<up, held, working, call, asked>>,
         \/ Saved(shelf')
         \/ /\ file' = file
            /\ \A c \in Channel, id \in Item :
                 IsMirrored(shelf, c, id) => IsMirrored(shelf', c, id),
         \A c \in Channel, id \in Item :
           IsMirrored(shelf', c, id) => IsMirrored(shelf, c, id) /\ shelf'[c][id] = shelf[c][id]
  PROVE  RowsInv'
<1>1. SameMirrored' /\ FileOK'
  BY FileFollows DEF RowsInv, Typed
<1>2. Typed'
  BY <1>1 DEF RowsInv, Typed
<1>3. RowsKept'
  BY KeptFromFile DEF RowsKept
<1>4. MirroredOK'
  BY <1>1, <1>3, KeptInFile
<1>5. \A c \in Channel, id \in Item : ~IsMirrored(shelf, c, id) => ~IsMirrored(shelf, c, id)'
  BY DEF IsMirrored
<1>6. WorkingOK'
  BY <1>5 DEF RowsInv, Typed, WorkingOK
<1>7. CallOK'
  <2>1. CASE call.op = "pin" /\ call.id \in WithCid /\ asked[call.id] = "no"
    BY <2>1 DEF CallOK
  <2>2. CASE call.op = "unpin" /\ call.id \in Item
    BY <1>5, <2>2 DEF RowsInv, CallOK, Call, NoCall
  <2> QED
    BY <2>1, <2>2 DEF RowsInv, CallOK
<1>8. FreedIsGone'
  BY DEF RowsInv, FreedIsGone
<1> QED
  BY <1>1, <1>2, <1>4, <1>6, <1>7, <1>8 DEF RowsInv

-----------------------------------------------------------------------------
(* The user and the scans change the table.                                 *)

LEMMA FollowStep ==
  ASSUME RowsInv, NEW c \in Channel, Follow(c)
  PROVE  RowsInv'
<1>1. up /\ Saved(shelf') /\ UNCHANGED <<up, held, working, call, asked>>
  BY DEF Follow, Turn
<1>2. DOMAIN shelf' = DOMAIN shelf \cup {c} /\ shelf'[c] = NoItems
  BY DEF Follow, With
<1>3. \A d \in DOMAIN shelf : d # c /\ shelf'[d] = shelf[d]
  BY DEF Follow, With
<1>4. TableOK(shelf')
  BY <1>2, <1>3, ShelfAssumption DEF RowsInv, Typed, TableOK, NoItems
<1>5. \A d \in Channel, id \in Item :
        IsMirrored(shelf', d, id) => IsMirrored(shelf, d, id) /\ shelf'[d][id] = shelf[d][id]
  BY <1>2, <1>3 DEF IsMirrored, NoItems
<1> QED
  BY <1>1, <1>4, <1>5, QuietStep

LEMMA LeaveStep ==
  ASSUME RowsInv, NEW channels, Leave(channels)
  PROVE  RowsInv'
<1>1. up /\ Saved(shelf') /\ UNCHANGED <<up, held, working, call, asked>>
  BY DEF Leave, Turn
<1>2. DOMAIN shelf' = DOMAIN shelf \ channels /\ \A c \in DOMAIN shelf' : shelf'[c] = shelf[c]
  BY DEF Leave, Restrict
<1>3. TableOK(shelf')
  BY <1>2 DEF RowsInv, Typed, TableOK
<1>4. \A c \in Channel, id \in Item :
        IsMirrored(shelf', c, id) => IsMirrored(shelf, c, id) /\ shelf'[c][id] = shelf[c][id]
  BY <1>2 DEF IsMirrored
<1> QED
  BY <1>1, <1>3, <1>4, QuietStep

LEMMA DiscoverStep ==
  ASSUME RowsInv, NEW c \in Channel, NEW id \in Item, Discover(c, id)
  PROVE  RowsInv'
<1>1. up /\ file' = file /\ UNCHANGED <<up, held, working, call, asked>>
  BY DEF Discover, Turn
<1>2. c \in DOMAIN shelf /\ id \in OnChain[c] /\ id \notin DOMAIN shelf[c]
  BY DEF Discover
<1>3. shelf' = [shelf EXCEPT ![c] = With(shelf[c], id, New)]
  BY DEF Discover
<1>4. DOMAIN shelf' = DOMAIN shelf /\ \A d \in DOMAIN shelf : d # c => shelf'[d] = shelf[d]
  BY <1>3
<1>5. shelf'[c] = With(shelf[c], id, New)
  BY <1>2, <1>3
<1>6. DOMAIN shelf'[c] = DOMAIN shelf[c] \cup {id} /\ shelf'[c][id] = New
  BY <1>5 DEF With
<1>7. \A j \in DOMAIN shelf[c] : shelf'[c][j] = shelf[c][j]
  BY <1>2, <1>5 DEF With
<1>8. New \in Rows /\ New.state = "available"
  BY DEF New, Row, Rows, States
<1>9. TableOK(shelf')
  <2>1. ASSUME NEW d \in DOMAIN shelf'
        PROVE  DOMAIN shelf'[d] \subseteq OnChain[d] /\ \A j \in DOMAIN shelf'[d] : shelf'[d][j] \in Rows
    <3>1. CASE d = c
      BY <1>2, <1>6, <1>7, <1>8, <3>1 DEF RowsInv, Typed, TableOK
    <3>2. CASE d # c
      BY <1>4, <3>2 DEF RowsInv, Typed, TableOK
    <3> QED
      BY <3>1, <3>2
  <2> QED
    BY <1>4, <2>1 DEF RowsInv, Typed, TableOK
<1>10. ASSUME NEW d \in Channel, NEW j \in Item
       PROVE  /\ IsMirrored(shelf, d, j) => IsMirrored(shelf', d, j)
              /\ IsMirrored(shelf', d, j) => IsMirrored(shelf, d, j) /\ shelf'[d][j] = shelf[d][j]
  <2>1. CASE d = c
    BY <1>2, <1>4, <1>6, <1>7, <1>8, <2>1 DEF IsMirrored
  <2>2. CASE d # c
    BY <1>4, <2>2 DEF IsMirrored
  <2> QED
    BY <2>1, <2>2
<1> QED
  BY <1>1, <1>9, <1>10, QuietStep

LEMMA ScanEndsStep ==
  ASSUME RowsInv, ScanEnds
  PROVE  RowsInv'
<1>1. up /\ shelf' = shelf /\ Saved(shelf') /\ UNCHANGED <<up, held, working, call, asked>>
  BY DEF ScanEnds, Turn, Saved
<1>2. TableOK(shelf')
  BY <1>1 DEF RowsInv, Typed
<1> QED
  BY <1>1, <1>2, QuietStep

LEMMA RemoveRowStep ==
  ASSUME Apart, RowsInv, NEW id \in Item, RemoveRow(id)
  PROVE  RowsInv'
<1>1. up /\ Saved(shelf') /\ UNCHANGED <<up, held, working, call, asked>>
  BY DEF RemoveRow, Turn
<1>2. PICK h : h = Home(id)
  OBVIOUS
<1>3. h \in DOMAIN shelf
  BY <1>2, RowOfIs DEF RemoveRow, RowsInv, Typed
<1>4. shelf' = [shelf EXCEPT ![h] = Restrict(shelf[h], DOMAIN shelf[h] \ {id})]
  BY <1>2 DEF RemoveRow
<1>5. DOMAIN shelf' = DOMAIN shelf /\ \A c \in DOMAIN shelf : c # h => shelf'[c] = shelf[c]
  BY <1>4
<1>6. shelf'[h] = Restrict(shelf[h], DOMAIN shelf[h] \ {id})
  BY <1>3, <1>4
<1>7. DOMAIN shelf'[h] \subseteq DOMAIN shelf[h] /\ \A j \in DOMAIN shelf'[h] : shelf'[h][j] = shelf[h][j]
  BY <1>6 DEF Restrict
<1>8. \A c \in DOMAIN shelf : /\ DOMAIN shelf'[c] \subseteq DOMAIN shelf[c]
                               /\ \A j \in DOMAIN shelf'[c] : shelf'[c][j] = shelf[c][j]
  BY <1>5, <1>7
<1>9. TableOK(shelf')
  BY <1>5, <1>8 DEF RowsInv, Typed, TableOK
<1>10. \A c \in Channel, j \in Item :
         IsMirrored(shelf', c, j) => IsMirrored(shelf, c, j) /\ shelf'[c][j] = shelf[c][j]
  BY <1>5, <1>8 DEF IsMirrored
<1> QED
  BY <1>1, <1>9, <1>10, QuietStep

-----------------------------------------------------------------------------
(* Preserves and pins.                                                      *)

LEMMA WithState ==
  ASSUME NEW row \in Rows, NEW state \in States
  PROVE  /\ [row EXCEPT !.state = state] \in Rows
         /\ [row EXCEPT !.state = state].state = state
BY DEF Rows

\* A state that is saved: the table stays well-formed, the file follows, and no row but
\* the item's own comes to be preserved.
LEMMA PutRow ==
  ASSUME Apart, RowsInv, up, up', NEW id \in Item, NEW row, Found(id) => row \in Rows,
         Put(id, row)
  PROVE  /\ TableOK(shelf') /\ SameMirrored' /\ FileOK'
         /\ \A c \in Channel, j \in Item :
              IsMirrored(shelf', c, j)
                => \/ j # id /\ IsMirrored(shelf, c, j) /\ shelf'[c][j] = shelf[c][j]
                   \/ j = id /\ row.state = "mirrored" /\ shelf'[c][j] = row
<1>1. shelf' = Updated(id, row)
  BY DEF Put
<1>2. TableOK(shelf)
  BY DEF RowsInv, Typed
<1>3. /\ TableOK(shelf')
      /\ \A c, j : IsMirrored(shelf', c, j)
                     => \/ j # id /\ IsMirrored(shelf, c, j) /\ shelf'[c][j] = shelf[c][j]
                        \/ j = id /\ row.state = "mirrored" /\ shelf'[c][j] = row
  BY <1>1, <1>2, UpdatedIs
<1>4. Saved(shelf') \/ (file' = file /\ shelf' = shelf)
  BY DEF Put, Saved, Updated
<1>5. SameMirrored' /\ FileOK'
  BY <1>3, <1>4, FileFollows DEF RowsInv, Typed
<1> QED
  BY <1>3, <1>5

\* "mirroring" is not saved, and is shown of rows that are not preserved.
LEMMA BreatheRow ==
  ASSUME Apart, RowsInv, up, up', NEW id \in Item,
         NEW states, "mirrored" \notin states, Shows(id, states), Breathe(id)
  PROVE  /\ TableOK(shelf') /\ SameMirrored' /\ FileOK'
         /\ \A c \in Channel, j \in Item :
              IsMirrored(shelf', c, j)
                => j # id /\ IsMirrored(shelf, c, j) /\ shelf'[c][j] = shelf[c][j]
<1>1. PICK row : row = [RowOf(id) EXCEPT !.state = "mirroring"]
  OBVIOUS
<1>2. shelf' = Updated(id, row) /\ file' = file
  BY <1>1 DEF Breathe
<1>3. TableOK(shelf)
  BY DEF RowsInv, Typed
<1>4. Found(id) /\ RowOf(id).state # "mirrored" /\ RowOf(id) \in Rows
  BY <1>3, ShowsIs, RowOfIs
<1>5. row \in Rows /\ row.state = "mirroring"
  BY <1>1, <1>4, WithState DEF States
<1>6. /\ TableOK(shelf')
      /\ \A c, j : IsMirrored(shelf', c, j)
                     => \/ j # id /\ IsMirrored(shelf, c, j) /\ shelf'[c][j] = shelf[c][j]
                        \/ j = id /\ row.state = "mirrored" /\ shelf'[c][j] = row
      /\ \A c, j : j # id /\ IsMirrored(shelf, c, j) => IsMirrored(shelf', c, j)
  BY <1>2, <1>3, <1>5, UpdatedIs
<1>7. \A c \in Channel : ~IsMirrored(shelf, c, id)
  BY <1>3, <1>4, HomeIs DEF IsMirrored, RowOf
<1>8. \A c \in Channel, j \in Item :
        /\ IsMirrored(shelf', c, j)
             => j # id /\ IsMirrored(shelf, c, j) /\ shelf'[c][j] = shelf[c][j]
        /\ IsMirrored(shelf, c, j) => IsMirrored(shelf', c, j)
  BY <1>5, <1>6, <1>7
<1>9. SameMirrored' /\ FileOK'
  BY <1>2, <1>6, <1>8, FileFollows DEF RowsInv, Typed
<1> QED
  BY <1>6, <1>8, <1>9

LEMMA StartPreserveStep ==
  ASSUME Apart, RowsInv, NEW id \in Item, StartPreserve(id)
  PROVE  RowsInv'
<1>1. /\ up /\ up' /\ call = NoCall /\ id \notin WithCid /\ working = None /\ working' = id
      /\ Breathe(id) /\ asked' = [asked EXCEPT ![id] = "no"] /\ UNCHANGED <<held, call>>
  BY DEF StartPreserve, Turn
<1>2. /\ TableOK(shelf') /\ SameMirrored' /\ FileOK'
      /\ \A c \in Channel, j \in Item :
           IsMirrored(shelf', c, j)
             => j # id /\ IsMirrored(shelf, c, j) /\ shelf'[c][j] = shelf[c][j]
  BY <1>1, BreatheRow DEF StartPreserve
<1>3. asked' \in [Item -> {"no", "asked", "refused", "done"}] /\ asked'[id] = "no"
      /\ \A j \in Item : j # id => asked'[j] = asked[j]
  BY <1>1 DEF RowsInv, Typed
<1>4. Typed'
  BY <1>1, <1>2, <1>3 DEF RowsInv, Typed
<1>5. RowsKept'
  BY <1>1, <1>2, <1>3, KeptFromFile DEF RowsKept
<1>6. MirroredOK'
  BY <1>1, <1>2, <1>5, KeptInFile
<1>7. WorkingOK'
  BY <1>1, <1>2, <1>3 DEF WorkingOK, IsMirrored
<1>8. CallOK' /\ FreedIsGone'
  BY <1>1, <1>3 DEF RowsInv, CallOK, NoCall, FreedIsGone
<1> QED
  BY <1>2, <1>4, <1>6, <1>7, <1>8 DEF RowsInv

LEMMA PinStep ==
  ASSUME Apart, RowsInv, NEW id \in Item, Pin(id)
  PROVE  RowsInv'
<1>1. /\ up /\ up' /\ id \in WithCid /\ call' = Call("pin", id, <<>>, 0)
      /\ Breathe(id) /\ asked' = [asked EXCEPT ![id] = "no"] /\ UNCHANGED <<held, working>>
  BY DEF Pin, Turn
<1>2. /\ TableOK(shelf') /\ SameMirrored' /\ FileOK'
      /\ \A c \in Channel, j \in Item :
           IsMirrored(shelf', c, j)
             => j # id /\ IsMirrored(shelf, c, j) /\ shelf'[c][j] = shelf[c][j]
  BY <1>1, BreatheRow DEF Pin
<1>3. asked' \in [Item -> {"no", "asked", "refused", "done"}] /\ asked'[id] = "no"
      /\ \A j \in Item : j # id => asked'[j] = asked[j]
  BY <1>1 DEF RowsInv, Typed
<1>4. Typed'
  BY <1>1, <1>2, <1>3 DEF RowsInv, Typed
<1>5. RowsKept'
  BY <1>1, <1>2, <1>3, KeptFromFile DEF RowsKept
<1>6. MirroredOK'
  BY <1>1, <1>2, <1>5, KeptInFile
<1>7. WorkingOK'
  <2>1. working # None => working \in Item /\ working # id
    BY <1>1 DEF RowsInv, Typed, WorkingOK
  <2>2. \A c \in Channel, j \in Item : ~IsMirrored(shelf, c, j) => ~IsMirrored(shelf, c, j)'
    BY <1>2 DEF IsMirrored
  <2> QED
    BY <1>1, <1>3, <2>1, <2>2 DEF RowsInv, WorkingOK
<1>8. CallOK'
  BY <1>1, <1>3 DEF CallOK, Call
<1>9. FreedIsGone'
  BY <1>1, <1>3 DEF RowsInv, FreedIsGone
<1> QED
  BY <1>2, <1>4, <1>6, <1>7, <1>8, <1>9 DEF RowsInv

\* New content of an item that is not unpreserved brings back nothing that was freed.
LEMMA MoreHeld ==
  ASSUME Apart, FreedIsGone, UNCHANGED asked, NEW id \in Item, asked[id] = "no",
         NEW more, more \subseteq Range(Content[id]), held' = held \cup more
  PROVE  FreedIsGone'
<1>1. ASSUME NEW j \in Item, asked[j] = "done" PROVE Range(Content[j]) \cap held' = {}
  <2>1. j # id /\ Range(Content[j]) \cap held = {}
    BY <1>1 DEF FreedIsGone
  <2>2. Range(Content[j]) \cap Range(Content[id]) = {}
    BY <2>1 DEF Apart
  <2> QED
    BY <2>1, <2>2
<1> QED
  BY <1>1 DEF FreedIsGone

LEMMA PreserveEndsStep ==
  ASSUME Apart, RowsInv, PreserveEnds
  PROVE  RowsInv'
<1>1. /\ up /\ up' /\ call = NoCall /\ call' = NoCall /\ working \in Item /\ working' = None
      /\ held' = held \cup Range(Content[working]) /\ UNCHANGED asked
      /\ Put(working, Row("mirrored", Content[working]))
  BY DEF PreserveEnds, Turn, RowsInv, Typed
<1>2. PICK id, row : id = working /\ row = Row("mirrored", Content[working])
  OBVIOUS
<1>3. id \in Item /\ row \in Rows /\ row.stored = Content[id] /\ Put(id, row)
  BY <1>1, <1>2 DEF Row, Rows, States
<1>4. /\ TableOK(shelf') /\ SameMirrored' /\ FileOK'
      /\ \A c \in Channel, j \in Item :
           IsMirrored(shelf', c, j)
             => \/ j # id /\ IsMirrored(shelf, c, j) /\ shelf'[c][j] = shelf[c][j]
                \/ j = id /\ row.state = "mirrored" /\ shelf'[c][j] = row
  BY <1>1, <1>3, PutRow
<1>5. Typed'
  BY <1>1, <1>4 DEF RowsInv, Typed
<1>6. RowsKept'
  BY <1>1, <1>2, <1>3, <1>4, KeptFromFile DEF RowsKept
<1>7. MirroredOK'
  BY <1>1, <1>4, <1>6, KeptInFile
<1>8. FreedIsGone'
  <2>1. asked[id] = "no"
    BY <1>1, <1>2, ShelfAssumption DEF RowsInv, WorkingOK, ShelfAssumption, Item
  <2> QED
    BY <1>1, <1>2, <1>3, <2>1, MoreHeld DEF RowsInv
<1>9. WorkingOK' /\ CallOK'
  BY <1>1 DEF WorkingOK, CallOK, NoCall
<1> QED
  BY <1>4, <1>5, <1>7, <1>8, <1>9 DEF RowsInv

LEMMA PreserveStopsStep ==
  ASSUME Apart, RowsInv, PreserveStops
  PROVE  RowsInv'
<1>1. /\ up /\ up' /\ call = NoCall /\ call' = NoCall /\ working \in Item /\ working' = None
      /\ UNCHANGED asked
  BY DEF PreserveStops, Turn, RowsInv, Typed
<1>2. PICK n \in 0..Len(Content[working]) - 1 :
        held' = held \cup Range(SubSeq(Content[working], 1, n))
  BY DEF PreserveStops
<1>3. PICK more : /\ more = Range(SubSeq(Content[working], 1, n))
                  /\ more \subseteq Range(Content[working]) /\ held' = held \cup more
  <2>1. Content[working] \in Seq(Range(Content[working]))
    BY <1>1, ShelfAssumption DEF ShelfAssumption, Item
  <2>2. Range(SubSeq(Content[working], 1, n)) \subseteq Range(Content[working])
    BY <2>1, SubSeqProperties DEF Range
  <2> QED
    BY <1>2, <2>2
<1>4. /\ TableOK(shelf') /\ SameMirrored' /\ FileOK'
      /\ \A c \in Channel, j \in Item :
           IsMirrored(shelf', c, j) => IsMirrored(shelf, c, j) /\ shelf'[c][j] = shelf[c][j]
  <2>1. PICK state \in {"error", "pending", "available"} :
          IF Found(working) THEN Put(working, [RowOf(working) EXCEPT !.state = state])
          ELSE UNCHANGED <<shelf, file>>
    BY DEF PreserveStops
  <2>2. TableOK(shelf)
    BY DEF RowsInv, Typed
  <2>3. CASE Found(working)
    <3>1. PICK id, row : id = working /\ row = [RowOf(working) EXCEPT !.state = state]
      OBVIOUS
    <3>2. RowOf(working) \in Rows /\ state \in States
      BY <2>2, <2>3, RowOfIs DEF States
    <3>3. id \in Item /\ row \in Rows /\ row.state # "mirrored" /\ Put(id, row)
      BY <1>1, <2>1, <2>3, <3>1, <3>2, WithState
    <3> QED
      BY <1>1, <3>3, PutRow
  <2>4. CASE ~Found(working)
    BY <1>1, <2>1, <2>2, <2>4, FileFollows DEF RowsInv, Typed
  <2> QED
    BY <2>3, <2>4
<1>5. Typed'
  BY <1>1, <1>4 DEF RowsInv, Typed
<1>6. RowsKept'
  BY <1>1, <1>3, <1>4, KeptFromFile DEF RowsKept
<1>7. MirroredOK'
  BY <1>1, <1>4, <1>6, KeptInFile
<1>8. FreedIsGone'
  <2>1. asked[working] = "no"
    BY <1>1, ShelfAssumption DEF RowsInv, WorkingOK, ShelfAssumption, Item
  <2> QED
    BY <1>1, <1>3, <2>1, MoreHeld DEF RowsInv
<1>9. WorkingOK' /\ CallOK'
  BY <1>1 DEF WorkingOK, CallOK, NoCall
<1> QED
  BY <1>4, <1>5, <1>7, <1>8, <1>9 DEF RowsInv

\* Whoever waits for storage, waits while the host is up.
LEMMA CallerIsUp == ASSUME RowsInv, call.op # "none" PROVE up
BY DEF RowsInv, Typed, NoCall, Call

\* A pin's item is preserved when storage has said so.
LEMMA PinnedStep ==
  ASSUME Apart, RowsInv, NEW ok \in BOOLEAN, Pinned(ok)
  PROVE  RowsInv'
<1>1. /\ up /\ up' /\ call' = NoCall /\ UNCHANGED <<working, asked>>
      /\ held' = IF ok THEN held \cup Range(Content[call.id]) ELSE held
  BY CallerIsUp DEF Pinned
<1>2. call.id \in WithCid /\ asked[call.id] = "no" /\ call.id \in Item
  BY ShelfAssumption DEF Pinned, RowsInv, CallOK, NoCall, Call, ShelfAssumption, Item
<1>3. PICK id, state, row : /\ id = call.id /\ state = IF ok THEN "mirrored" ELSE "error"
                            /\ row = [RowOf(id) EXCEPT !.state = state]
  OBVIOUS
<1>4. /\ id \in Item /\ id \in WithCid /\ asked[id] = "no" /\ Put(id, row)
      /\ held' = IF ok THEN held \cup Range(Content[id]) ELSE held
  BY <1>1, <1>2, <1>3 DEF Pinned
<1>5. Found(id) => row \in Rows /\ row.state = state
  <2>1. state \in States
    BY <1>3 DEF States
  <2> QED
    BY <1>3, <2>1, RowOfIs, WithState DEF RowsInv, Typed
<1>6. /\ TableOK(shelf') /\ SameMirrored' /\ FileOK'
      /\ \A c \in Channel, j \in Item :
           IsMirrored(shelf', c, j)
             => \/ j # id /\ IsMirrored(shelf, c, j) /\ shelf'[c][j] = shelf[c][j]
                \/ j = id /\ row.state = "mirrored" /\ shelf'[c][j] = row
  BY <1>1, <1>4, <1>5, PutRow
<1>7. Typed'
  BY <1>1, <1>6 DEF RowsInv, Typed
<1>8. \A c \in Channel : IsMirrored(shelf', c, id) => Range(Content[id]) \subseteq held'
  <2>1. CASE ok
    BY <1>4, <2>1
  <2>2. CASE ~ok
    <3>1. CASE Found(id)
      BY <1>3, <1>4, <1>5, <1>6, <2>2, <3>1
    <3>2. CASE ~Found(id)
      BY <1>4, <3>2 DEF Put, Updated, Found, HomesIn, IsMirrored
    <3> QED
      BY <3>1, <3>2
  <2> QED
    BY <2>1, <2>2
<1>9. RowsKept'
  BY <1>1, <1>4, <1>6, <1>8, KeptFromFile DEF RowsKept
<1>10. MirroredOK'
  BY <1>1, <1>6, <1>9, KeptInFile
<1>11. FreedIsGone'
  <2>1. CASE ok
    BY <1>1, <1>4, <2>1, MoreHeld DEF RowsInv
  <2>2. CASE ~ok
    BY <1>1, <1>4, <2>2 DEF RowsInv, FreedIsGone
  <2> QED
    BY <2>1, <2>2
<1>12. WorkingOK'
  <2>1. working # None => working \in Item /\ working # id
    BY <1>4 DEF RowsInv, Typed, WorkingOK
  <2> QED
    BY <1>1, <1>6, <2>1 DEF RowsInv, WorkingOK, IsMirrored
<1>13. CallOK'
  BY <1>1 DEF CallOK, NoCall
<1> QED
  BY <1>6, <1>7, <1>10, <1>11, <1>12, <1>13 DEF RowsInv

-----------------------------------------------------------------------------
(* Unpreserves.                                                             *)

LEMMA OneAndRest ==
  ASSUME NEW S, NEW s \in Seq(S), s # <<>>
  PROVE  /\ Len(s) \in Nat \ {0} /\ Range(s) \subseteq S /\ Head(s) \in Range(s)
         /\ Tail(s) \in Seq(S) /\ Len(Tail(s)) = Len(s) - 1
         /\ Range(s) \subseteq {Head(s)} \cup Range(Tail(s))
<1>1. /\ Len(s) \in Nat \ {0} /\ DOMAIN s = 1..Len(s)
      /\ Tail(s) \in Seq(S) /\ Len(Tail(s)) = Len(s) - 1 /\ Head(s) = s[1]
      /\ \A i \in 1..Len(s) : s[i] \in S
  BY EmptySeq, LenProperties, HeadTailProperties
<1>2. \A i \in 1..Len(s) - 1 : Tail(s)[i] = s[i + 1]
  BY <1>1, HeadTailProperties
<1>3. ASSUME NEW i \in 1..Len(s) PROVE s[i] \in {Head(s)} \cup Range(Tail(s))
  <2>1. CASE i = 1
    BY <1>1, <2>1
  <2>2. CASE i # 1
    <3>1. i - 1 \in 1..Len(s) - 1 /\ Tail(s)[i - 1] = s[i]
      BY <1>1, <1>2, <2>2
    <3>2. i - 1 \in DOMAIN Tail(s)
      BY <1>1, <3>1, LenProperties
    <3> QED
      BY <3>1, <3>2 DEF Range
  <2> QED
    BY <2>1, <2>2
<1> QED
  BY <1>1, <1>3 DEF Range

\* What an unpreserve waits for: there is one more CID to remove, of its own item.
LEMMA UnpinCall ==
  ASSUME RowsInv, call.op = "unpin"
  PROVE  /\ up /\ call.id \in Item /\ asked[call.id] \in {"asked", "refused"}
         /\ call.left \in Seq(Range(Content[call.id])) /\ call.left # <<>>
         /\ Head(call.left) \in Range(Content[call.id]) /\ Len(call.left) \in Nat \ {0}
         /\ Tail(call.left) \in Seq(Range(Content[call.id]))
         /\ Len(Tail(call.left)) = Len(call.left) - 1
         /\ Range(call.left) \subseteq {Head(call.left)} \cup Range(Tail(call.left))
         /\ asked[call.id] = "asked" =>
              /\ call.remaining = Len(call.left)
              /\ Range(Content[call.id]) \cap held \subseteq Range(call.left)
         /\ asked[call.id] = "refused" =>
              /\ call.remaining = 0
              /\ \A c \in Channel : ~IsMirrored(shelf, c, call.id)
<1>1. up
  BY CallerIsUp
<1>2. /\ call.id \in Item /\ call.left \in Seq(Range(Content[call.id])) /\ call.left # <<>>
      /\ \/ /\ asked[call.id] = "asked"
            /\ call.remaining = Len(call.left)
            /\ Range(Content[call.id]) \cap held \subseteq Range(call.left)
         \/ /\ asked[call.id] = "refused"
            /\ call.remaining = 0
            /\ \A c \in Channel : ~IsMirrored(shelf, c, call.id)
  BY DEF RowsInv, CallOK, NoCall, Call
<1>3. PICK S, s : S = Range(Content[call.id]) /\ s = call.left
  OBVIOUS
<1>4. s \in Seq(S) /\ s # <<>>
  BY <1>2, <1>3
<1>5. /\ Len(s) \in Nat \ {0} /\ Range(s) \subseteq S /\ Head(s) \in Range(s)
      /\ Tail(s) \in Seq(S) /\ Len(Tail(s)) = Len(s) - 1
      /\ Range(s) \subseteq {Head(s)} \cup Range(Tail(s))
  BY <1>4, OneAndRest
<1>6. /\ Head(call.left) \in Range(Content[call.id]) /\ Len(call.left) \in Nat \ {0}
      /\ Tail(call.left) \in Seq(Range(Content[call.id]))
      /\ Len(Tail(call.left)) = Len(call.left) - 1
      /\ Range(call.left) \subseteq {Head(call.left)} \cup Range(Tail(call.left))
  BY <1>3, <1>5
<1> QED
  BY <1>1, <1>2, <1>6

\* A CID of one item is none of another.
LEMMA OthersStay ==
  ASSUME Apart, NEW id \in Item, NEW j \in Item, j # id, NEW cid \in Range(Content[id]),
         Range(Content[j]) \subseteq held
  PROVE  Range(Content[j]) \subseteq held \ {cid}
BY DEF Apart

\* A preserved row lists its content.
LEMMA CidsOfMirrored ==
  ASSUME Apart, RowsInv, up, NEW id \in Item, Shows(id, {"mirrored"})
  PROVE  CidsOf(id) = Content[id] /\ \E c \in Channel : IsMirrored(shelf, c, id)
<1>1. TableOK(shelf) /\ RowsKept
  BY KeptFromFile DEF RowsInv, Typed
<1>2. /\ RowOf(id).state = "mirrored"
      /\ Home(id) \in Channel /\ Home(id) \in DOMAIN shelf /\ id \in DOMAIN shelf[Home(id)]
  BY <1>1, ShowsIs, RowOfIs
<1>3. IsMirrored(shelf, Home(id), id)
  BY <1>2 DEF IsMirrored, RowOf
<1> QED
  BY <1>1, <1>2, <1>3 DEF RowsKept, CidsOf, RowOf

LEMMA UnmirrorStep ==
  ASSUME Apart, RowsInv, NEW id \in Item, Unmirror(id)
  PROVE  RowsInv'
<1>1. /\ up /\ up' /\ Content[id] # <<>>
      /\ call' = Call("unpin", id, Content[id], Len(Content[id]))
      /\ asked' = [asked EXCEPT ![id] = "asked"] /\ UNCHANGED <<shelf, file, held, working>>
      /\ \E c \in Channel : IsMirrored(shelf, c, id)
  BY CidsOfMirrored DEF Unmirror, Turn
<1>2. asked' \in [Item -> {"no", "asked", "refused", "done"}] /\ asked'[id] = "asked"
      /\ \A j \in Item : j # id => asked'[j] = asked[j]
  BY <1>1 DEF RowsInv, Typed
<1>3. TableOK(shelf)' /\ FileOK' /\ SameMirrored'
  BY <1>1 DEF RowsInv, Typed, TableOK, FileOK, SameMirrored, IsMirrored
<1>4. Typed'
  BY <1>1, <1>2, <1>3 DEF RowsInv, Typed
<1>5. \A c \in Channel, j \in Item : IsMirrored(shelf, c, j)' <=> IsMirrored(shelf, c, j)
  BY <1>1 DEF IsMirrored
<1>6. RowsKept'
  BY <1>1, <1>2, <1>5, KeptFromFile DEF RowsKept
<1>7. MirroredOK'
  BY <1>1, <1>3, <1>6, KeptInFile
<1>8. WorkingOK'
  <2>1. working # None => working \in Item /\ working # id
    BY <1>1 DEF RowsInv, Typed, WorkingOK
  <2> QED
    BY <1>1, <1>2, <1>5, <2>1 DEF RowsInv, WorkingOK
<1>9. CallOK'
  <2>1. Content[id] \in Seq(Range(Content[id]))
    BY ShelfAssumption DEF ShelfAssumption, Item
  <2>2. call'.op = "unpin" /\ call'.id = id /\ call'.left = Content[id]
        /\ call'.remaining = Len(Content[id])
    BY <1>1 DEF Call
  <2> QED
    BY <1>1, <1>2, <2>1, <2>2 DEF CallOK
<1>10. FreedIsGone'
  BY <1>1, <1>2 DEF RowsInv, FreedIsGone
<1> QED
  BY <1>3, <1>4, <1>7, <1>8, <1>9, <1>10 DEF RowsInv

\* What waits after one removal.
LEMMA OutcomeIs ==
  ASSUME RowsInv, call.op = "unpin", NEW ok, NEW remaining, Outcome(ok, remaining)
  PROVE  \/ Len(call.left) = 1 /\ call' = NoCall
         \/ /\ Len(call.left) # 1 /\ call'.op = "unpin" /\ call'.id = call.id
            /\ call'.left = Tail(call.left) /\ call'.remaining = remaining
            /\ Tail(call.left) \in Seq(Range(Content[call.id])) \ {<<>>}
            /\ Len(Tail(call.left)) = Len(call.left) - 1
<1>1. CASE Len(call.left) = 1
  BY <1>1 DEF Outcome
<1>2. CASE Len(call.left) # 1
  <2>1. /\ Len(call.left) \in Nat \ {0} /\ Tail(call.left) \in Seq(Range(Content[call.id]))
        /\ Len(Tail(call.left)) = Len(call.left) - 1
    BY UnpinCall
  <2>2. Len(call.left) \in Nat \ {0} /\ Len(Tail(call.left)) = Len(call.left) - 1
    BY <2>1
  <2>3. Len(Tail(call.left)) # 0
    BY <1>2, <2>2
  <2>4. Tail(call.left) # <<>>
    <3>1. ASSUME NEW s, Len(s) # 0 PROVE s # <<>>
      BY <3>1
    <3> QED
      BY <2>3, <3>1
  <2>5. call' = Call("unpin", call.id, Tail(call.left), remaining)
    BY <1>2 DEF Outcome
  <2>6. /\ call'.op = "unpin" /\ call'.id = call.id
        /\ call'.left = Tail(call.left) /\ call'.remaining = remaining
    BY <2>5 DEF Call
  <2> QED
    BY <1>2, <2>1, <2>4, <2>6
<1> QED
  BY <1>1, <1>2

LEMMA OneRemovedStep ==
  ASSUME Apart, RowsInv, OneRemoved
  PROVE  RowsInv'
<1>1. /\ call.op = "unpin" /\ call.remaining > 1 /\ Outcome(TRUE, call.remaining - 1)
      /\ held' = held \ {Head(call.left)} /\ UNCHANGED <<up, working, shelf, file, asked>>
  BY DEF OneRemoved, Outcome
<1>2. PICK id : id = call.id
  OBVIOUS
<1>3. /\ up /\ id \in Item /\ asked[id] = "asked" /\ Head(call.left) \in Range(Content[id])
      /\ call.left \in Seq(Range(Content[id])) /\ call.left # <<>>
      /\ call.remaining = Len(call.left)
      /\ Range(Content[id]) \cap held \subseteq Range(call.left)
      /\ Len(Tail(call.left)) = Len(call.left) - 1
      /\ Range(call.left) \subseteq {Head(call.left)} \cup Range(Tail(call.left))
  BY <1>1, <1>2, UnpinCall
<1>4. Typed' /\ SameMirrored' /\ FileOK'
  <2>1. call' = NoCall \/ up
    BY <1>3
  <2> QED
    BY <1>1, <1>3 DEF RowsInv, Typed, TableOK, FileOK, SameMirrored, IsMirrored
<1>5. \A c \in Channel, j \in Item : IsMirrored(shelf, c, j)' <=> IsMirrored(shelf, c, j)
  BY <1>1 DEF IsMirrored
<1>6. RowsKept'
  BY <1>1, <1>3, <1>5, KeptFromFile, OthersStay DEF RowsKept
<1>7. MirroredOK'
  BY <1>1, <1>3, <1>4, <1>6, KeptInFile
<1>8. WorkingOK'
  BY <1>1, <1>5 DEF RowsInv, Typed, WorkingOK
<1>9. CallOK'
  <2>1. Len(call.left) # 1
    <3>1. call.remaining > 1 /\ call.remaining = Len(call.left)
      BY <1>1, <1>3
    <3>2. ASSUME NEW n, n > 1 PROVE n # 1
      BY <3>2
    <3> QED
      BY <3>1, <3>2
  <2>2. /\ call'.op = "unpin" /\ call'.id = id /\ call'.left = Tail(call.left)
        /\ Tail(call.left) \in Seq(Range(Content[id])) \ {<<>>}
        /\ call'.remaining = Len(Tail(call.left))
    BY <1>1, <1>2, <1>3, <2>1, OutcomeIs
  <2>3. Range(Content[id]) \cap held' \subseteq Range(Tail(call.left))
    BY <1>1, <1>3
  <2> QED
    BY <1>1, <1>3, <2>2, <2>3 DEF CallOK
<1>10. FreedIsGone'
  BY <1>1 DEF RowsInv, FreedIsGone
<1> QED
  BY <1>4, <1>7, <1>8, <1>9, <1>10 DEF RowsInv

\* A removal that changes the row of its item: nothing of another item changes.
LEMMA UnpinPut ==
  ASSUME Apart, RowsInv, call.op = "unpin", UNCHANGED <<up, working>>,
         NEW row, Found(call.id) => row \in Rows /\ row.state # "mirrored",
         Put(call.id, row),
         held' \in {held, held \ {Head(call.left)}},
         NEW answer \in {"refused", "done"}, asked' = [asked EXCEPT ![call.id] = answer]
  PROVE  /\ Typed' /\ SameMirrored' /\ MirroredOK' /\ WorkingOK'
         /\ \A c \in Channel : ~IsMirrored(shelf', c, call.id)
<1>1. PICK id : id = call.id
  OBVIOUS
<1>2. /\ up /\ up' /\ id \in Item /\ asked[id] \in {"asked", "refused"}
      /\ Head(call.left) \in Range(Content[id])
  BY <1>1, UnpinCall
<1>3. /\ asked' \in [Item -> {"no", "asked", "refused", "done"}] /\ asked'[id] = answer
      /\ \A j \in Item : j # id => asked'[j] = asked[j]
  BY <1>1, <1>2 DEF RowsInv, Typed
<1>4. (Found(id) => row \in Rows /\ row.state # "mirrored") /\ Put(id, row)
  BY <1>1
<1>5. /\ TableOK(shelf') /\ SameMirrored' /\ FileOK'
      /\ \A c \in Channel, j \in Item :
           IsMirrored(shelf', c, j)
             => \/ j # id /\ IsMirrored(shelf, c, j) /\ shelf'[c][j] = shelf[c][j]
                \/ j = id /\ row.state = "mirrored" /\ shelf'[c][j] = row
  BY <1>2, <1>4, PutRow
<1>6. \A c \in Channel : ~IsMirrored(shelf', c, id)
  <2>1. CASE Found(id)
    BY <1>2, <1>4, <1>5, <2>1
  <2>2. CASE ~Found(id)
    BY <1>4, <2>2 DEF Put, Updated, Found, HomesIn, IsMirrored
  <2> QED
    BY <2>1, <2>2
<1>7. Typed'
  BY <1>2, <1>3, <1>5 DEF RowsInv, Typed
<1>8. RowsKept'
  <2>1. SUFFICES ASSUME NEW c \in Channel, NEW j \in Item, IsMirrored(shelf', c, j)
                 PROVE  /\ j \notin WithCid => shelf'[c][j].stored = Content[j]
                        /\ Range(Content[j]) \subseteq held' \/ asked'[j] = "asked"
    BY DEF RowsKept, IsMirrored
  <2>2. j # id /\ IsMirrored(shelf, c, j) /\ shelf'[c][j] = shelf[c][j] /\ asked'[j] = asked[j]
    BY <1>3, <1>5, <1>6, <2>1
  <2>3. /\ j \notin WithCid => shelf[c][j].stored = Content[j]
        /\ Range(Content[j]) \subseteq held \/ asked[j] = "asked"
    BY <1>2, <2>2, KeptFromFile DEF RowsKept
  <2> QED
    BY <1>2, <2>2, <2>3, OthersStay
<1>9. MirroredOK'
  BY <1>2, <1>5, <1>8, KeptInFile
<1>10. WorkingOK'
  <2>1. working # None => working \in Item /\ working # id
    BY <1>2 DEF RowsInv, Typed, WorkingOK
  <2>2. \A c \in Channel, j \in Item : ~IsMirrored(shelf, c, j) => ~IsMirrored(shelf, c, j)'
    BY <1>5, <1>6 DEF IsMirrored
  <2> QED
    BY <1>3, <2>1, <2>2 DEF RowsInv, WorkingOK
<1> QED
  BY <1>1, <1>5, <1>6, <1>7, <1>9, <1>10

\* What an unpreserve that went on after a refusal waits for.
LEMMA StillRefused ==
  ASSUME RowsInv, call.op = "unpin", NEW ok, Outcome(ok, 0),
         asked'[call.id] = "refused", \A c \in Channel : ~IsMirrored(shelf', c, call.id)
  PROVE  CallOK'
<1>1. CASE call' = NoCall
  BY <1>1 DEF CallOK
<1>2. CASE call' # NoCall
  <2>1. /\ call'.op = "unpin" /\ call'.id = call.id /\ call'.remaining = 0
        /\ call'.left \in Seq(Range(Content[call.id])) \ {<<>>}
    BY <1>2, OutcomeIs
  <2>2. call.id \in Item
    BY UnpinCall
  <2>3. PICK id : id = call.id
    OBVIOUS
  <2>4. \A c \in Channel : ~IsMirrored(shelf, c, call.id)'
    BY <2>1, <2>3 DEF IsMirrored
  <2> QED
    BY <2>1, <2>2, <2>4 DEF CallOK
<1> QED
  BY <1>1, <1>2

LEMMA LastRemovedStep ==
  ASSUME Apart, RowsInv, LastRemoved
  PROVE  RowsInv'
<1>1. PICK id, answer : id = call.id /\ answer = IF asked[id] = "refused" THEN "refused" ELSE "done"
  OBVIOUS
<1>2. /\ call.op = "unpin" /\ call.remaining <= 1 /\ Outcome(TRUE, 0) /\ Put(call.id, New)
      /\ held' = held \ {Head(call.left)} /\ UNCHANGED <<up, working>>
  BY DEF LastRemoved, Outcome
<1>3. /\ id \in Item /\ asked[id] \in {"asked", "refused"} /\ Head(call.left) \in Range(Content[id])
      /\ Len(call.left) \in Nat \ {0}
      /\ asked[id] = "asked" => /\ call.remaining = Len(call.left)
                                /\ Range(Content[id]) \cap held \subseteq Range(call.left)
  BY <1>1, <1>2, UnpinCall
<1>4. answer \in {"refused", "done"} /\ asked' = [asked EXCEPT ![call.id] = answer]
  BY <1>1 DEF LastRemoved
<1>5. asked'[id] = answer /\ \A j \in Item : j # id => asked'[j] = asked[j]
  BY <1>1, <1>3, <1>4 DEF RowsInv, Typed
<1>6. New \in Rows /\ New.state # "mirrored"
  BY DEF New, Row, Rows, States
<1>7. /\ Typed' /\ SameMirrored' /\ MirroredOK' /\ WorkingOK'
      /\ \A c \in Channel : ~IsMirrored(shelf', c, call.id)
  BY <1>2, <1>4, <1>6, UnpinPut
<1>8. CASE asked[id] = "refused"
  <2>1. CallOK'
    BY <1>1, <1>2, <1>5, <1>7, <1>8, StillRefused
  <2>2. FreedIsGone'
    BY <1>1, <1>2, <1>5, <1>8 DEF RowsInv, FreedIsGone
  <2> QED
    BY <1>7, <2>1, <2>2 DEF RowsInv
<1>9. CASE asked[id] = "asked"
  <2>1. Len(call.left) = 1
    <3>1. call.remaining = Len(call.left) /\ call.remaining \in Nat \ {0} /\ call.remaining <= 1
      BY <1>2, <1>3, <1>9
    <3>2. ASSUME NEW n \in Nat \ {0}, n <= 1 PROVE n = 1
      BY <3>2
    <3> QED
      BY <3>1, <3>2
  <2>2. CallOK'
    BY <1>2, <2>1 DEF Outcome, CallOK
  <2>3. Range(Content[id]) \cap held' = {}
    <3>1. /\ Len(Tail(call.left)) = 0 /\ Tail(call.left) \in Seq(Range(Content[id]))
          /\ Range(call.left) \subseteq {Head(call.left)} \cup Range(Tail(call.left))
      BY <1>1, <1>2, <2>1, UnpinCall
    <3>2. Range(Tail(call.left)) = {}
      BY <3>1, LenProperties DEF Range
    <3> QED
      BY <1>2, <1>3, <1>9, <3>1, <3>2
  <2>4. FreedIsGone'
    BY <1>2, <1>5, <2>3 DEF RowsInv, FreedIsGone
  <2> QED
    BY <1>7, <2>2, <2>4 DEF RowsInv
<1> QED
  BY <1>3, <1>8, <1>9

LEMMA RefusedStep ==
  ASSUME Apart, RowsInv, Refused
  PROVE  RowsInv'
<1>1. PICK id, row : id = call.id /\ row = [RowOf(call.id) EXCEPT !.state = "error"]
  OBVIOUS
<1>2. /\ call.op = "unpin" /\ Outcome(FALSE, 0) /\ Put(call.id, row)
      /\ held' = held /\ UNCHANGED <<up, working>> /\ asked' = [asked EXCEPT ![call.id] = "refused"]
  BY <1>1 DEF Refused, Outcome
<1>3. id \in Item
  BY <1>1, <1>2, UnpinCall
<1>4. asked'[id] = "refused" /\ \A j \in Item : j # id => asked'[j] = asked[j]
  BY <1>1, <1>2, <1>3 DEF RowsInv, Typed
<1>5. Found(call.id) => row \in Rows /\ row.state # "mirrored"
  BY <1>1, RowOfIs, WithState DEF RowsInv, Typed, States
<1>6. /\ Typed' /\ SameMirrored' /\ MirroredOK' /\ WorkingOK'
      /\ \A c \in Channel : ~IsMirrored(shelf', c, call.id)
  BY <1>2, <1>5, UnpinPut
<1>7. CallOK'
  BY <1>1, <1>2, <1>4, <1>6, StillRefused
<1>8. FreedIsGone'
  BY <1>2, <1>4 DEF RowsInv, FreedIsGone
<1> QED
  BY <1>6, <1>7, <1>8 DEF RowsInv

-----------------------------------------------------------------------------
(* Stops and starts.                                                        *)

LEMMA StopStep ==
  ASSUME Apart, RowsInv, Stop
  PROVE  RowsInv'
<1>1. /\ up /\ up' = FALSE /\ shelf' = NoRows /\ working' = None /\ call' = NoCall
      /\ held' \in Aftermath /\ UNCHANGED <<file, asked>>
  BY DEF Stop
<1>2. TableOK(shelf)' /\ FileOK'
  BY <1>1 DEF RowsInv, Typed, FileOK, TableOK, NoRows
<1>3. Typed' /\ SameMirrored' /\ WorkingOK' /\ CallOK'
  BY <1>1, <1>2 DEF RowsInv, Typed, SameMirrored, WorkingOK, CallOK
<1>4. \A c \in Channel, j \in Item :
        IsMirrored(file.rows, c, j)' => /\ IsMirrored(shelf, c, j) /\ IsMirrored(file.rows, c, j)
                                        /\ file'.rows[c][j] = file.rows[c][j]
  BY <1>1 DEF RowsInv, SameMirrored, IsMirrored
<1>5. \A j \in Item : asked'[j] = asked[j]
  BY <1>1
<1>6. CASE held' = held
  <2>1. MirroredOK'
    BY <1>4, <1>5, <1>6 DEF RowsInv, MirroredOK
  <2>2. FreedIsGone'
    BY <1>5, <1>6 DEF RowsInv, FreedIsGone
  <2> QED
    BY <1>3, <2>1, <2>2 DEF RowsInv
<1>7. CASE call.op = "pin" /\ held' = held \cup Range(Content[call.id])
  <2>1. call.id \in Item /\ asked[call.id] = "no"
    BY <1>7, ShelfAssumption DEF RowsInv, CallOK, NoCall, Call, ShelfAssumption, Item
  <2>2. FreedIsGone'
    BY <1>1, <1>7, <2>1, MoreHeld DEF RowsInv
  <2>3. MirroredOK'
    BY <1>4, <1>5, <1>7 DEF RowsInv, MirroredOK
  <2> QED
    BY <1>3, <2>2, <2>3 DEF RowsInv
<1>8. CASE call.op = "unpin" /\ held' = held \ {Head(call.left)}
  <2>1. PICK id : id = call.id
    OBVIOUS
  <2>2. /\ id \in Item /\ asked[id] \in {"asked", "refused"} /\ Head(call.left) \in Range(Content[id])
        /\ asked[id] = "refused" => \A c \in Channel : ~IsMirrored(shelf, c, id)
    BY <1>8, <2>1, UnpinCall
  <2>3. FreedIsGone'
    BY <1>5, <1>8 DEF RowsInv, FreedIsGone
  <2>4. ASSUME NEW c \in Channel, NEW j \in Item, IsMirrored(file.rows, c, j)'
        PROVE  /\ j \notin WithCid => file'.rows[c][j].stored = Content[j]
               /\ Range(Content[j]) \subseteq held' \/ asked'[j] = "asked"
    <3>1. /\ IsMirrored(shelf, c, j) /\ file'.rows[c][j] = file.rows[c][j]
          /\ j \notin WithCid => file.rows[c][j].stored = Content[j]
          /\ Range(Content[j]) \subseteq held \/ asked[j] = "asked"
      BY <1>4, <2>4 DEF RowsInv, MirroredOK
    <3>2. CASE j = id
      BY <1>5, <2>2, <3>1, <3>2
    <3>3. CASE j # id
      BY <1>5, <1>8, <2>2, <3>1, <3>3, OthersStay
    <3> QED
      BY <3>2, <3>3
  <2>5. MirroredOK'
    BY <2>4 DEF MirroredOK
  <2> QED
    BY <1>3, <2>3, <2>5 DEF RowsInv
<1> QED
  BY <1>1, <1>6, <1>7, <1>8 DEF Aftermath

\* Something else damages the file.
LEMMA CorruptedStep ==
  ASSUME RowsInv, Corrupted
  PROVE  RowsInv'
<1>1. /\ ~up /\ up' = up /\ file' = File("corrupt", NoRows)
      /\ UNCHANGED <<shelf, held, working, call, asked>>
  BY DEF Corrupted
<1>2. file'.kind = "corrupt" /\ file'.rows = NoRows
  BY <1>1 DEF File
<1>3. TableOK(shelf)' /\ FileOK'
  BY <1>1, <1>2 DEF RowsInv, Typed, FileOK, TableOK, NoRows
<1>4. MirroredOK'
  BY <1>2 DEF MirroredOK, IsMirrored, NoRows
<1>5. CallOK'
  BY <1>1 DEF RowsInv, Typed, CallOK
<1> QED
  BY <1>1, <1>3, <1>4, <1>5
     DEF RowsInv, Typed, SameMirrored, WorkingOK, FreedIsGone, IsMirrored

\* What loadState makes of a table: the preserved rows as they were, and no other.
LEMMA LoadedIs ==
  ASSUME NEW rows, TableOK(rows), NEW next, next = Loaded(rows)
  PROVE  /\ TableOK(next)
         /\ \A c, id : IsMirrored(next, c, id) <=> IsMirrored(rows, c, id)
         /\ \A c, id : IsMirrored(rows, c, id) => next[c][id] = rows[c][id]
<1>1. DOMAIN next = DOMAIN rows
  BY DEF Loaded
<1>2. ASSUME NEW c \in DOMAIN rows, NEW id \in DOMAIN rows[c]
      PROVE  /\ next[c][id] \in Rows
             /\ next[c][id].state = "mirrored" <=> rows[c][id].state = "mirrored"
             /\ rows[c][id].state = "mirrored" => next[c][id] = rows[c][id]
  <2>1. rows[c][id] \in Rows
    BY DEF TableOK
  <2>2. PICK row, free : row = rows[c][id] /\ free = [row EXCEPT !.state = "available"]
    OBVIOUS
  <2>3. next[c][id] = IF row.state \in {"mirroring", "error"} THEN free ELSE row
    BY <2>2 DEF Loaded
  <2>4. free \in Rows /\ free.state = "available"
    BY <2>1, <2>2, WithState DEF States
  <2> QED
    BY <2>1, <2>2, <2>3, <2>4
<1>3. \A c \in DOMAIN rows : DOMAIN next[c] = DOMAIN rows[c]
  BY DEF Loaded
<1>4. TableOK(next)
  BY <1>1, <1>2, <1>3 DEF TableOK
<1> QED
  BY <1>1, <1>2, <1>3, <1>4 DEF IsMirrored

LEMMA StartStep ==
  ASSUME RowsInv, Start
  PROVE  RowsInv'
<1>1. ~up /\ up' /\ UNCHANGED <<held, working, call, asked>> /\ working = None /\ call = NoCall
  BY DEF Start, RowsInv, Typed
<1>2. TableOK(shelf') /\ FileOK' /\ SameMirrored' /\ MirroredOK'
  <2>1. CASE Seeds
    <3>1. shelf' = With(NoRows, Official, NoItems) /\ file' = File("rows", shelf')
      BY <2>1 DEF Start, Saved
    <3>2. DOMAIN shelf' = {Official} /\ DOMAIN shelf'[Official] = {}
      BY <3>1 DEF With, NoRows, NoItems
    <3>3. TableOK(shelf')
      BY <3>2, ShelfAssumption DEF TableOK, ShelfAssumption
    <3>4. file'.kind = "rows" /\ file'.rows = shelf'
      BY <3>1 DEF File
    <3> QED
      BY <3>2, <3>3, <3>4 DEF FileOK, TableOK, SameMirrored, MirroredOK, IsMirrored
  <2>2. CASE ~Seeds
    <3>1. /\ shelf' = Loaded(file.rows) /\ TableOK(file.rows)
          /\ file' = IF file.kind = "corrupt" THEN File("absent", NoRows) ELSE file
      BY <2>2 DEF Start, RowsInv, Typed, FileOK
    <3>2. /\ TableOK(shelf')
          /\ \A c, id : IsMirrored(shelf', c, id) <=> IsMirrored(file.rows, c, id)
          /\ \A c, id : IsMirrored(file.rows, c, id) => shelf'[c][id] = file.rows[c][id]
      BY <3>1, LoadedIs
    <3>3. file'.rows = file.rows /\ FileOK'
      <4>1. CASE file.kind = "corrupt"
        <5>1. file'.kind = "absent" /\ file'.rows = NoRows
          BY <3>1, <4>1 DEF File
        <5>2. file.rows = NoRows
          BY <4>1 DEF RowsInv, Typed, FileOK
        <5> QED
          BY <5>1, <5>2 DEF FileOK, TableOK, NoRows
      <4>2. CASE file.kind # "corrupt"
        BY <3>1, <4>2 DEF RowsInv, Typed, FileOK, TableOK
      <4> QED
        BY <4>1, <4>2
    <3>4. SameMirrored'
      BY <3>2, <3>3 DEF SameMirrored, IsMirrored
    <3>5. MirroredOK'
      BY <1>1, <3>3 DEF RowsInv, MirroredOK, IsMirrored
    <3> QED
      BY <3>2, <3>3, <3>4, <3>5
  <2> QED
    BY <2>1, <2>2
<1>3. Typed'
  BY <1>1, <1>2 DEF RowsInv, Typed
<1>4. WorkingOK' /\ CallOK' /\ FreedIsGone'
  BY <1>1 DEF RowsInv, WorkingOK, CallOK, FreedIsGone
<1> QED
  BY <1>2, <1>3, <1>4 DEF RowsInv

-----------------------------------------------------------------------------
(* Together.                                                                *)

LEMMA RowsStart ==
  ASSUME RowsInit
  PROVE  RowsInv
<1>1. TableOK(NoRows) /\ file.kind = "absent" /\ file.rows = NoRows
  BY DEF RowsInit, File, TableOK, NoRows
<1> QED
  BY <1>1 DEF RowsInit, RowsInv, Typed, FileOK, SameMirrored, MirroredOK, WorkingOK, CallOK,
              FreedIsGone, IsMirrored, NoRows

LEMMA RowsStep ==
  ASSUME Apart, RowsInv, [RowsNext]_rowVars
  PROVE  RowsInv'
<1>1. CASE UNCHANGED rowVars
  BY <1>1 DEF rowVars, RowsInv, Typed, FileOK, TableOK, SameMirrored, MirroredOK, WorkingOK,
              CallOK, FreedIsGone, IsMirrored
<1>2. CASE UserActs
  BY <1>2, FollowStep, LeaveStep, RemoveRowStep, StartPreserveStep, PinStep, UnmirrorStep
     DEF UserActs, RemoveAll, UnfollowOne
<1>3. CASE Scans
  BY <1>3, ScanEndsStep, DiscoverStep DEF Scans
<1>4. CASE Answers
  BY <1>4, PreserveEndsStep, PreserveStopsStep, PinnedStep, OneRemovedStep, LastRemovedStep,
     RefusedStep DEF Answers
<1>5. CASE Stop \/ Corrupted \/ Start
  BY <1>5, StopStep, CorruptedStep, StartStep
<1> QED
  BY <1>1, <1>2, <1>3, <1>4, <1>5 DEF RowsNext

\* The invariant of rows, file and storage.
THEOREM RowsAgree == Apart /\ RowsSpec => []RowsInv
<1> SUFFICES ASSUME Apart PROVE RowsSpec => []RowsInv
  OBVIOUS
<1>1. RowsInv /\ [RowsNext]_rowVars => RowsInv'
  BY RowsStep
<1> QED
  BY <1>1, RowsStart, PTL DEF RowsSpec

\* A row that shows as preserved has all its content in storage, also after the host
\* stopped inside a pin, and after storage refused a removal: only an unpreserve that is
\* going on, or was cut off, may have taken some of it (unpinFinished, loadState).
THEOREM PreservedKeepsContent == Apart /\ RowsSpec => []PreservedIsHeld
<1>1. ASSUME RowsInv PROVE PreservedIsHeld
  <2>1. SUFFICES ASSUME NEW at \in Mirrored(shelf)
                 PROVE  Range(Content[at[2]]) \subseteq held \/ asked[at[2]] = "asked"
    BY DEF PreservedIsHeld
  <2>2. at[1] \in Channel /\ at[2] \in Item /\ IsMirrored(shelf, at[1], at[2])
    BY DEF Mirrored, IsMirrored
  <2>3. up
    BY <1>1, <2>2 DEF RowsInv, Typed, IsMirrored, NoRows
  <2> QED
    BY <1>1, <2>2, <2>3, KeptFromFile DEF RowsKept
<1> QED
  BY <1>1, RowsAgree, PTL

\* An unpreserve that storage refused nothing of leaves nothing of the item behind, also
\* one that a stop cut off and the user asked for again after the restart
\* (unmirrorItem, loadState).
THEOREM UnpreserveLeavesNothing == Apart /\ RowsSpec => []FreedIsGone
<1>1. RowsInv => FreedIsGone
  BY DEF RowsInv
<1> QED
  BY <1>1, RowsAgree, PTL

\* Between two handlers the file names the preserved rows of the table, with the same
\* CIDs, and no others (setItemState saves, a progress tick does not).
THEOREM FileFollowsTable == Apart /\ RowsSpec => []FileKeepsMirrored
<1>1. ASSUME RowsInv PROVE FileKeepsMirrored
  <2>1. SUFFICES ASSUME up
                 PROVE  /\ Mirrored(shelf) = Mirrored(file.rows)
                        /\ \A at \in Mirrored(shelf) : shelf[at[1]][at[2]] = file.rows[at[1]][at[2]]
    BY DEF FileKeepsMirrored, Turn
  <2>2. \A rows : Mirrored(rows) = {at \in Channel \X Item : IsMirrored(rows, at[1], at[2])}
    BY DEF Mirrored, IsMirrored
  <2>3. \A at \in Channel \X Item :
          /\ IsMirrored(shelf, at[1], at[2]) <=> IsMirrored(file.rows, at[1], at[2])
          /\ IsMirrored(shelf, at[1], at[2]) => shelf[at[1]][at[2]] = file.rows[at[1]][at[2]]
    BY <1>1, <2>1 DEF RowsInv, SameMirrored
  <2> QED
    BY <2>2, <2>3
<1> QED
  BY <1>1, RowsAgree, PTL
==============================================================================

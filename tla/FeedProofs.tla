------------------------------ MODULE FeedProofs ------------------------------
(* LezScan implements Feed, and nothing behind a cursor is missing, for      *)
(* every value of the constants in which the gateway list is left alone and  *)
(* every answer of a node is one.  (The run LezScanGateways shows why the    *)
(* list must be left alone: a scan is pinned to a position of it.)  At the   *)
(* end: the backfill of a follow sends no publish notices, as long as        *)
(* nothing is unfollowed.                                                    *)
EXTENDS ScanProofs

Undisturbed == "gateways" \notin Ops /\ ~Malformed

-----------------------------------------------------------------------------
(* The parts of the invariant.                                               *)

\* What is remembered of a follow has the fields of NewTold.
ToldOK ==
    /\ DOMAIN told = Channel
    /\ \A c \in Channel : /\ DOMAIN told[c] = {"since", "removed", "caughtUp", "noticed"}
                          /\ told[c].since \in Nat

\* A request goes to the node at the position its scan is pinned to, and a page
\* stays under what that node has finalised.
OnList(r, heights) ==
    /\ r.gw \in 1..Len(FirstGateways) /\ r.node = FirstGateways[r.gw]
    /\ r.step = "page" => r.top <= heights[r.node]

Pinned ==
    /\ gateways = FirstGateways /\ saved.gateways = FirstGateways
    /\ \A c \in Scanning : OnList(scan[c], lib)

\* The explorer is only asked about a channel that has neither hint nor cursor.
ExplorerFirst ==
    \A c \in Scanning :
        scan[c].step \in {"channel", "block"} => channels[c].startSlot = 0 /\ channels[c].cursor = 0

\* A channel's record against what it was followed with: the first page starts
\* at the first inscription asked for, and up to the cursor each has its row.
Listed(i, ch, t) == (\E r \in ch.items : r.id = i.id) \/ i.id \in t.removed

Fits(c, ch, t) ==
    /\ ch.startSlot >= t.since
    /\ ch.cursor > 0 => ch.cursor >= ch.startSlot
    /\ \A i \in OnChain(c) :
         i.slot >= t.since => i.slot >= ch.startSlot /\ (i.slot <= ch.cursor => Listed(i, ch, t))

TableFits(chans, t) == \A c \in DOMAIN chans : Fits(c, chans[c], t[c])

Fitting == TableFits(channels, told)
FileFitting == TableFits(saved.channels, told)

FeedInv ==
    /\ ScanInv /\ ToldOK /\ Pinned /\ ExplorerFirst
    /\ Fitting /\ FileFitting

\* A step of the feed, or one nobody sees.
FeedStep == Promise!Next \/ UNCHANGED Promise!vars

-----------------------------------------------------------------------------
(* The requests stay on the list.                                            *)

\* A request other than for a page.
LEMMA RequestOnList ==
    ASSUME Pinned, NEW gw \in 1..Len(FirstGateways), NEW step \in {"channel", "info"}, NEW heights
    PROVE  OnList(Request(step, gw), heights)
BY DEF OnList, Request, Addressed, Pinned

\* A page under the height of its node.
LEMMA PageOnList ==
    ASSUME Pinned, NEW gw \in 1..Len(FirstGateways), NEW heights, NEW top, NEW left, NEW from,
           top <= heights[FirstGateways[gw]]
    PROVE  OnList(PageRequest(gw, top, left, from), heights)
<1> DEFINE q == Request("page", gw)
           to == IF from + PageSlots - 1 < top THEN from + PageSlots - 1 ELSE top
           r == [q EXCEPT !.top = top, !.left = left, !.from = from, !.to = to]
<1>1. PageRequest(gw, top, left, from) = r
  BY DEF PageRequest
<1>2. q = [step |-> "page", gw |-> gw, node |-> Addressed(gw),
           top |-> 0, left |-> 0, from |-> 0, to |-> 0]
  BY DEF Request
<1>3. Addressed(gw) = FirstGateways[gw]
  BY DEF Addressed, Pinned
<1> HIDE DEF q, to
<1>4. r.step = "page" /\ r.gw = gw /\ r.node = FirstGateways[gw] /\ r.top = top
  BY <1>2, <1>3
<1> HIDE DEF r
<1> QED
  BY <1>1, <1>4 DEF OnList

\* Scans go on as they were, or with a request on the list, while heights grow.
LEMMA PinnedStep ==
    ASSUME FeedInv, UNCHANGED gateways, saved'.gateways = FirstGateways,
           \A n \in Node : lib[n] <= lib'[n], lib' \in [Node -> 0..MaxSlot],
           \A c \in Scanning' : (c \in Scanning /\ scan'[c] = scan[c]) \/ OnList(scan'[c], lib')
    PROVE  Pinned'
<1>1. ASSUME NEW c \in Scanning' PROVE OnList(scan'[c], lib')
  <2>1. CASE c \in Scanning /\ scan'[c] = scan[c]
    <3>1. OnList(scan[c], lib) /\ scan[c].top \in 0..MaxSlot /\ scan[c].node \in Node
      BY <2>1, TypesOfScanInv DEF FeedInv, Pinned, ScanRecords
    <3>2. lib[scan[c].node] \in 0..MaxSlot /\ lib'[scan[c].node] \in 0..MaxSlot
      BY <3>1 DEF FeedInv, ScanInv, RestOK
    <3> QED
      BY <2>1, <3>1, <3>2, Bounds DEF OnList
  <2> QED
    BY <1>1, <2>1
<1> QED
  BY <1>1 DEF FeedInv, Pinned, Scanning

\* What the position of a request is worth.
LEMMA Positions ==
    ASSUME FeedInv
    PROVE  /\ active \in 1..Len(FirstGateways)
           /\ \A c \in Scanning : /\ scan[c].gw \in 1..Len(FirstGateways)
                                  /\ scan[c].node = FirstGateways[scan[c].gw]
                                  /\ scan[c].step = "page" => scan[c].top <= lib[scan[c].node]
           /\ \A n \in Node : lib[n] \in Nat
BY DEF FeedInv, ScanInv, GatewaysOK, RestOK, Pinned, OnList

\* Scans that go on, end, or start over with a plain request.
LEMMA PlainScans ==
    ASSUME FeedInv, UNCHANGED gateways, saved'.gateways = FirstGateways,
           \A n \in Node : lib[n] <= lib'[n], lib' \in [Node -> 0..MaxSlot],
           \A c \in Scanning' :
               \/ c \in Scanning /\ scan'[c] = scan[c]
               \/ \E gw \in 1..Len(FirstGateways), step \in {"channel", "info"} :
                      scan'[c] = Request(step, gw)
               \/ c \in Scanning /\ scan'[c] = [scan[c] EXCEPT !.step = "block"]
    PROVE  Pinned'
<1>1. ASSUME NEW c \in Scanning, scan'[c] = [scan[c] EXCEPT !.step = "block"]
      PROVE  OnList(scan'[c], lib')
  <2>1. scan[c] \in ScanRecords
    BY TypesOfScanInv DEF FeedInv
  <2>2. scan'[c].step = "block" /\ scan'[c].gw = scan[c].gw /\ scan'[c].node = scan[c].node
    BY <1>1, <2>1 DEF ScanRecords
  <2> QED
    BY <2>2, Positions DEF OnList
<1>2. ASSUME NEW c \in Scanning', NEW gw \in 1..Len(FirstGateways), NEW step \in {"channel", "info"},
             scan'[c] = Request(step, gw)
      PROVE  OnList(scan'[c], lib')
  <2>1. OnList(Request(step, gw), lib')
    BY RequestOnList DEF FeedInv
  <2> QED
    BY <1>2, <2>1
<1>3. \A c \in Scanning' : (c \in Scanning /\ scan'[c] = scan[c]) \/ OnList(scan'[c], lib')
  BY <1>1, <1>2
<1> QED
  BY <1>3, PinnedStep

\* What a step writes to the state file, and what it leaves of the list.
LEMMA WrittenAsIs ==
    ASSUME FeedInv, Undisturbed, [Next]_vars
    PROVE  /\ gateways' = FirstGateways /\ saved'.gateways = FirstGateways
           /\ saved'.channels \in {saved.channels, channels'}
           /\ \/ UNCHANGED saved
              \/ saved' = StateFile(channels')
<1>1. gateways = FirstGateways /\ saved.gateways = FirstGateways
  BY DEF FeedInv, Pinned
<1>2. /\ UNCHANGED gateways \/ (gateways' = saved.gateways /\ UNCHANGED saved)
      /\ UNCHANGED saved \/ saved' = StateFile(channels')
  <2>1. ~\E list \in OtherGateways : SetGateways(list)
    BY DEF SetGateways, Call, Undisturbed
  <2>2. CASE UNCHANGED vars
    BY <2>2 DEF vars, lezVars
  <2>3. CASE UserCall
    BY <2>1, <2>3 DEF UserCall, Follow, Unfollow, UserRefresh, RemoveItem
  <2>4. CASE Restart \/ SaveState \/ HealthTick \/ RefreshTick
    BY <2>4 DEF Restart, SaveState, HealthTick, RefreshTick, StateFile, lezVars
  <2>5. ASSUME NEW c \in Channel, Reply(c) \/ ChainedRefresh(c) PROVE <1>2!:
    BY <2>5 DEF Reply, ChainedRefresh, ExplorerChannelReply, ExplorerBlockReply, InfoFails,
                InfoReply, PageFails, PageReply, ScanNextPage, StateFile
  <2>6. ASSUME NEW n \in Node, PollEnds(n) \/ Finalize(n) PROVE <1>2!:
    BY <2>6 DEF PollEnds, PollFails, PollReply, Finalize, lezVars
  <2> QED
    BY <2>2, <2>3, <2>4, <2>5, <2>6 DEF Next
<1> QED
  BY <1>1, <1>2 DEF StateFile

\* The next page comes from the same node, under the same height.
LEMMA NextPagePinned ==
    ASSUME FeedInv, NEW c \in Scanning, NEW ch, NEW top, NEW left,
           ScanNextPage(c, ch, scan[c].gw, top, left), top <= lib[scan[c].node],
           UNCHANGED <<gateways, lib>>, saved'.gateways = FirstGateways
    PROVE  Pinned'
<1>1. CASE scan' = Ended(c)
  <2>1. \A d \in Scanning' : d \in Scanning /\ scan'[d] = scan[d]
    BY <1>1 DEF Ended, Restrict, Scanning
  <2>2. lib' \in [Node -> 0..MaxSlot] /\ \A n \in Node : lib[n] <= lib'[n]
    BY Positions DEF FeedInv, ScanInv, RestOK
  <2> QED
    BY <2>1, <2>2, PinnedStep
<1>2. CASE scan' = [scan EXCEPT ![c] = PageRequest(scan[c].gw, top, left, NextSlot(ch))]
  <2>1. OnList(PageRequest(scan[c].gw, top, left, NextSlot(ch)), lib)
    BY Positions, PageOnList DEF FeedInv
  <2>2. lib' = lib /\ lib' \in [Node -> 0..MaxSlot] /\ \A n \in Node : lib[n] <= lib'[n]
    BY Positions DEF FeedInv, ScanInv, RestOK
  <2>3. \A d \in Scanning' : (d \in Scanning /\ scan'[d] = scan[d]) \/ OnList(scan'[d], lib')
    BY <1>2, <2>1, <2>2 DEF Scanning
  <2> QED
    BY <2>2, <2>3, PinnedStep
<1> QED
  BY <1>1, <1>2 DEF ScanNextPage

\* Every step keeps every request on the list.
LEMMA StaysPinned ==
    ASSUME FeedInv, Undisturbed, [Next]_vars
    PROVE  Pinned'
<1>1. gateways' = FirstGateways /\ gateways = FirstGateways /\ saved'.gateways = FirstGateways
  BY WrittenAsIs DEF FeedInv, Pinned
<1>2. lib \in [Node -> 0..MaxSlot] /\ \A n \in Node : lib[n] \in Nat
  BY Positions DEF FeedInv, ScanInv, RestOK
<1>3. CASE UNCHANGED scan /\ UNCHANGED lib
  BY <1>1, <1>2, <1>3, PinnedStep DEF Scanning
<1>4. ASSUME NEW chans, NEW cs, scan' = Started(chans, cs), UNCHANGED lib PROVE Pinned'
  <2>1. \A c \in Scanning' :
            \/ c \in Scanning /\ scan'[c] = scan[c]
            \/ \E step \in {"channel", "info"} : scan'[c] = Request(step, active)
    BY <1>4 DEF Started, FirstRequest, Scanning
  <2> QED
    BY <1>1, <1>2, <1>4, <2>1, Positions, PlainScans
<1>5. ASSUME NEW cs, scan' = Restrict(scan, Scanning \ cs), UNCHANGED lib PROVE Pinned'
  <2>1. \A c \in Scanning' : c \in Scanning /\ scan'[c] = scan[c]
    BY <1>5 DEF Restrict, Scanning
  <2> QED
    BY <1>1, <1>2, <1>5, <2>1, PinnedStep
<1>6. CASE UNCHANGED vars
  BY <1>3, <1>6 DEF vars, lezVars, outside
<1>7. CASE UserCall
  <2>1. ~\E list \in OtherGateways : SetGateways(list)
    BY DEF SetGateways, Call, Undisturbed
  <2> QED
    BY <1>3, <1>4, <1>5, <1>7, <2>1 DEF UserCall, Follow, Unfollow, UserRefresh, RemoveItem, Refresh
<1>8. CASE Restart
  BY <1>1, <1>8 DEF Restart, Pinned, Scanning
<1>9. CASE SaveState \/ HealthTick \/ RefreshTick
  BY <1>3, <1>4, <1>9 DEF SaveState, HealthTick, RefreshTick, Refresh, lezVars, outside
<1>10. ASSUME NEW n \in Node, PollEnds(n) \/ Finalize(n) PROVE Pinned'
  <2>1. CASE PollEnds(n)
    BY <1>3, <2>1 DEF PollEnds, PollFails, PollReply, outside
  <2>2. CASE Finalize(n)
    <3>1. PICK s \in lib[n] + 1 .. MaxSlot : lib' = [lib EXCEPT ![n] = s]
      BY <2>2 DEF Finalize
    <3>2. lib' \in [Node -> 0..MaxSlot] /\ \A m \in Node : lib[m] <= lib'[m]
      BY <1>2, <3>1, Bounds
    <3>3. UNCHANGED scan
      BY <2>2 DEF Finalize, lezVars
    <3> QED
      BY <1>1, <3>2, <3>3, PinnedStep DEF Scanning
  <2> QED
    BY <1>10, <2>1, <2>2
<1>11. ASSUME NEW c \in Channel, Reply(c) \/ ChainedRefresh(c) PROVE Pinned'
  <2>1. CASE ChainedRefresh(c)
    BY <1>3, <1>4, <2>1 DEF ChainedRefresh, Refresh, outside
  <2>2. CASE ExplorerChannelReply(c)
    <3>1. /\ c \in Scanning /\ UNCHANGED lib
          /\ \/ scan' = [scan EXCEPT ![c].step = "block"]
             \/ scan' = [scan EXCEPT ![c] = Request("info", scan[c].gw)]
      BY <2>2 DEF ExplorerChannelReply, outside
    <3> QED
      BY <1>1, <1>2, <3>1, Positions, PlainScans DEF Scanning
  <2>3. CASE ExplorerBlockReply(c)
    <3>1. /\ c \in Scanning /\ UNCHANGED lib
          /\ scan' = [scan EXCEPT ![c] = Request("info", scan[c].gw)]
      BY <2>3 DEF ExplorerBlockReply, outside
    <3> QED
      BY <1>1, <1>2, <3>1, Positions, PlainScans DEF Scanning
  <2>4. CASE InfoFails(c) \/ PageFails(c)
    BY <1>5, <2>4 DEF InfoFails, PageFails, Ended
  <2>5. CASE InfoReply(c)
    <3>1. /\ c \in Scanning /\ UNCHANGED <<gateways, lib>>
          /\ ScanNextPage(c, channels[c], scan[c].gw, lib[scan[c].node], MaxPages)
      BY <2>5 DEF InfoReply, outside
    <3>2. lib[scan[c].node] <= lib[scan[c].node]
      <4>1. scan[c].node \in Node
        BY <3>1, TypesOfScanInv DEF FeedInv, ScanRecords
      <4> QED
        BY <1>2, <4>1
    <3> QED
      BY <1>1, <3>1, <3>2, NextPagePinned
  <2>6. CASE PageReply(c)
    <3>1. /\ c \in Scanning /\ UNCHANGED <<gateways, lib>> /\ scan[c].step = "page"
          /\ \E ch : ScanNextPage(c, ch, scan[c].gw, scan[c].top, scan[c].left - 1)
      BY <2>6 DEF PageReply, outside
    <3> QED
      BY <1>1, <3>1, NextPagePinned, Positions
  <2> QED
    BY <1>11, <2>1, <2>2, <2>3, <2>4, <2>5, <2>6 DEF Reply
<1> QED
  BY <1>6, <1>7, <1>8, <1>9, <1>10, <1>11 DEF Next

-----------------------------------------------------------------------------
(* What is remembered of the follows, and what a step shows.                 *)

\* While a channel is followed, what was asked for stays and removals add up.
LEMMA ToldKept ==
    ASSUME ScanInv, ToldOK, [Next]_vars
    PROVE  /\ ToldOK'
           /\ \A c \in Followed : /\ told'[c].since = told[c].since
                                 /\ told[c].removed \subseteq told'[c].removed
<1> DEFINE Goal == /\ ToldOK'
                   /\ \A c \in Followed : /\ told'[c].since = told[c].since
                                          /\ told[c].removed \subseteq told'[c].removed
<1>0. ToldOK /\ Followed \subseteq Channel
  BY TypesOfScanInv DEF Followed
<1>1. CASE UNCHANGED told
  BY <1>0, <1>1 DEF ToldOK
<1>2. ASSUME NEW c \in Channel, NEW hint \in Hints, Follow(c, hint) PROVE Goal
  <2>1. told' = [told EXCEPT ![c] = NewTold(hint)] /\ c \notin Followed
    BY <1>2 DEF Follow
  <2>2. /\ DOMAIN NewTold(hint) = {"since", "removed", "caughtUp", "noticed"}
        /\ NewTold(hint).since \in Nat
    BY Bounds DEF NewTold
  <2> QED
    BY <1>0, <2>1, <2>2 DEF ToldOK
<1>3. ASSUME NEW c \in Followed, NEW row, RemoveItem(c, row) PROVE Goal
  BY <1>0, <1>3 DEF RemoveItem, ToldOK
<1>4. ASSUME NEW c \in Channel, InfoReply(c) PROVE Goal
  BY <1>0, <1>4 DEF InfoReply, CaughtUp, ToldOK
<1>5. ASSUME NEW c \in Channel, PageReply(c) PROVE Goal
  <2>1. PICK x, y : told' = [[told EXCEPT ![c].caughtUp = x] EXCEPT ![c].noticed = y]
    BY <1>5 DEF PageReply, CaughtUp
  <2> QED
    BY <1>0, <2>1 DEF ToldOK
<1>6. CASE UNCHANGED vars
  BY <1>1, <1>6 DEF vars
<1>7. CASE UserCall
  BY <1>1, <1>2, <1>3, <1>7 DEF UserCall, Unfollow, UserRefresh, SetGateways
<1>8. CASE Restart \/ SaveState \/ HealthTick \/ RefreshTick
  BY <1>1, <1>8 DEF Restart, SaveState, HealthTick, RefreshTick
<1>9. ASSUME NEW n \in Node, PollEnds(n) \/ Finalize(n) PROVE Goal
  BY <1>1, <1>9 DEF PollEnds, PollFails, PollReply, Finalize
<1>10. ASSUME NEW c \in Channel, Reply(c) \/ ChainedRefresh(c) PROVE Goal
  BY <1>1, <1>4, <1>5, <1>10
     DEF Reply, ChainedRefresh, ExplorerChannelReply, ExplorerBlockReply, InfoFails, PageFails
<1> QED
  BY <1>6, <1>7, <1>8, <1>9, <1>10 DEF Next

\* The same, from the whole invariant.
LEMMA ToldGrows ==
    ASSUME FeedInv, [Next]_vars
    PROVE  /\ ToldOK'
           /\ \A c \in Followed : /\ told'[c].since = told[c].since
                                 /\ told[c].removed \subseteq told'[c].removed
BY ToldKept DEF FeedInv

\* A record that fits goes on fitting.
LEMMA FitsLater ==
    ASSUME NEW c, NEW ch, NEW t, NEW u, Fits(c, ch, t), u.since = t.since, t.removed \subseteq u.removed
    PROVE  Fits(c, ch, u)
BY DEF Fits, Listed

\* So does the table of the state file, once the one in memory does.
LEMMA FileFits ==
    ASSUME FeedInv, Undisturbed, [Next]_vars, Fitting'
    PROVE  FileFitting'
<1>1. CASE saved'.channels = channels'
  BY <1>1 DEF Fitting, FileFitting, TableFits
<1>2. CASE saved'.channels = saved.channels
  <2>1. DOMAIN saved.channels = Followed
    BY TypesOfScanInv DEF FeedInv, FileOK
  <2>2. \A c \in Followed : Fits(c, saved.channels[c], told'[c])
    BY <2>1, ToldGrows, FitsLater DEF FeedInv, Fitting, FileFitting, TableFits
  <2> QED
    BY <1>2, <2>1, <2>2 DEF FileFitting, TableFits
<1> QED
  BY <1>1, <1>2, WrittenAsIs

\* What the state file shows was shown before, or is what is listed now.
LEMMA FileListing ==
    ASSUME FeedInv, Undisturbed, [Next]_vars
    PROVE  Listing(saved.channels)' \in {Listing(saved.channels), Listing(channels)'}
<1>1. CASE saved'.channels = channels'
  BY <1>1 DEF Listing
<1>2. CASE saved'.channels = saved.channels
  <2>1. DOMAIN saved.channels = Followed
    BY TypesOfScanInv DEF FeedInv, FileOK
  <2> QED
    BY <1>2, <2>1, ToldGrows DEF Listing
<1> QED
  BY <1>1, <1>2, WrittenAsIs

\* Rows and cursors that stay show nothing.
LEMMA SameListing ==
    ASSUME FeedInv, [Next]_vars, Followed' = Followed,
           \A c \in Followed : /\ channels'[c].items = channels[c].items
                               /\ channels'[c].cursor = channels[c].cursor
    PROVE  Listing(channels)' = Listing(channels)
BY ToldGrows DEF Listing, Followed

\* At most it is saved.
LEMMA NothingShown ==
    ASSUME FeedInv, Undisturbed, [Next]_vars, Listing(channels)' = Listing(channels)
    PROVE  FeedStep
<1>1. CASE Listing(saved.channels)' = Listing(saved.channels)
  BY <1>1 DEF FeedStep, Promise!vars
<1>2. CASE Listing(saved.channels)' = Listing(channels)'
  <2>1. Promise!Save
    BY <1>2 DEF Promise!Save
  <2> QED
    BY <2>1 DEF FeedStep, Promise!Next
<1> QED
  BY <1>1, <1>2, FileListing

-----------------------------------------------------------------------------
(* What a page brings.                                                       *)

Ids(rows) == {r.id : r \in rows}

\* Of several inscriptions one is the earliest.
LEMMA Earliest ==
    ASSUME NEW S \in SUBSET Inscription, S # {}
    PROVE  \E j \in S : \A k \in S : j.slot <= k.slot
<1> DEFINE Slots == {i.slot : i \in S}
<1>1. Slots \subseteq Nat /\ Slots # {}
  BY Bounds
<1> HIDE DEF Slots
<1>2. PICK m \in Slots : \A k \in Slots : ~(<<k, m>> \in OpToRel(<, Nat))
  BY <1>1, NatLessThanWellFounded, WFMin
<1>3. \A k \in Slots : m <= k
  <2>1. \A k \in Nat : k < m => <<k, m>> \in OpToRel(<, Nat)
    BY <1>1 DEF OpToRel
  <2>2. \A k \in Slots : ~(k < m)
    BY <1>1, <1>2, <2>1
  <2> QED
    BY <1>1, <2>2
<1> QED
  BY <1>2, <1>3 DEF Slots

\* Every id of a page has a row afterwards, and no other id gets one.
LEMMA NewRowIds ==
    ASSUME NEW items, NEW found \in SUBSET Inscription
    PROVE  Ids(items \cup NewRows(items, found)) = Ids(items) \cup Ids(found)
<1>1. NewRows(items, found) \subseteq found
  BY DEF NewRows
<1>2. ASSUME NEW i \in found, \A r \in items : r.id # i.id
      PROVE  i.id \in Ids(NewRows(items, found))
  <2> DEFINE S == {j \in found : j.id = i.id}
  <2>1. PICK j \in S : \A k \in S : j.slot <= k.slot
    BY Earliest
  <2>2. j \in NewRows(items, found)
    BY <1>2, <2>1 DEF NewRows
  <2> QED
    BY <2>1, <2>2 DEF Ids
<1>3. \A i \in found : i.id \in Ids(items) \/ i.id \in Ids(NewRows(items, found))
  BY <1>2 DEF Ids
<1> QED
  BY <1>1, <1>3 DEF Ids

\* The next page starts at the first inscription asked for that was not read yet.
LEMMA PageRange ==
    ASSUME NEW c, NEW ch \in ChannelRecords, NEW t, Fits(c, ch, t), t.since \in Nat,
           NEW to \in 0..MaxSlot, NEW i \in OnChain(c)
    PROVE  i.slot \in NextSlot(ch)..to <=> i.slot >= t.since /\ i.slot \in ch.cursor + 1 .. to
<1>1. /\ i.slot \in Nat /\ i.slot > 0 /\ ch.startSlot \in Nat /\ ch.cursor \in Nat /\ to \in Nat
  BY Bounds DEF OnChain, ChannelRecords
<1>2. /\ ch.startSlot >= t.since
      /\ ch.cursor > 0 => ch.cursor >= ch.startSlot
      /\ i.slot >= t.since => i.slot >= ch.startSlot
  BY DEF Fits
<1> QED
  BY <1>1, <1>2 DEF NextSlot

\* What a channel has after a page, in rows and as a list.
LEMMA PageBrings ==
    ASSUME FeedInv, Undisturbed, NEW c \in Channel, PageReply(c)
    PROVE  /\ c \in Scanning /\ c \in Followed
           /\ scan[c].to \in 0..MaxSlot /\ channels[c].cursor <= scan[c].to
           /\ \E ch \in ChannelRecords :
                /\ ScanNextPage(c, ch, scan[c].gw, scan[c].top, scan[c].left - 1)
                /\ ch.cursor = scan[c].to /\ ch.startSlot = channels[c].startSlot
                /\ Ids(ch.items) = Ids(channels[c].items)
                     \cup Ids({i \in OnChain(c) : /\ i.slot >= told[c].since
                                                  /\ i.slot \in channels[c].cursor + 1 .. scan[c].to})
                /\ Fits(c, ch, told[c])
<1> DEFINE from == scan[c].from
           to == scan[c].to
           top == scan[c].top
           old == channels[c]
           since == told[c].since
           read == {i \in OnChain(c) : i.slot >= since /\ i.slot \in old.cursor + 1 .. to}
<1>1. /\ c \in Scanning /\ scan[c].step = "page" /\ c \in Followed /\ scan[c] \in ScanRecords
      /\ from = NextSlot(old) /\ from <= to /\ to <= top
      /\ old \in ChannelRecords /\ OneRowEach(old)
  BY TypesOfScanInv DEF PageReply, RequestOK, FeedInv
<1>2. to \in 0..MaxSlot /\ top \in 0..MaxSlot /\ from \in 0..MaxSlot
  BY <1>1 DEF ScanRecords
<1>3. /\ old.cursor \in Nat /\ old.startSlot \in Nat /\ since \in Nat
      /\ Fits(c, old, told[c])
  BY <1>1 DEF ChannelRecords, FeedInv, ToldOK, Fitting, TableFits, Followed
<1>4. top <= lib[scan[c].node] /\ lib[scan[c].node] \in Nat
  <2>1. scan[c].node \in Node
    BY <1>1 DEF ScanRecords
  <2> QED
    BY <1>1, <2>1, Positions
<1>5. Extracted(Served(c), top) = read
  <2>1. ASSUME NEW i \in OnChain(c) PROVE i \in Extracted(Served(c), top) <=> i \in read
    <3>1. i.slot \in from..to <=> i.slot >= since /\ i.slot \in old.cursor + 1 .. to
      BY <1>1, <1>2, <1>3, PageRange
    <3>2. i.slot \in Nat
      BY Bounds DEF OnChain
    <3>3. i.slot \in from..to => i.slot <= top /\ i.slot <= lib[scan[c].node]
      BY <1>1, <1>2, <1>4, <3>2
    <3> QED
      BY <3>1, <3>3 DEF Extracted, Served
  <2> QED
    BY <2>1 DEF Extracted, Served
<1> DEFINE ch == Appended(old, read, to)
<1>6. ScanNextPage(c, ch, scan[c].gw, top, scan[c].left - 1)
  <2>1. \E found \in {Served(c)} \cup (IF Malformed THEN {{}} ELSE {}) :
          LET rows == NewRows(channels[c].items, Extracted(found, scan[c].top))
              new == [channels[c] EXCEPT !.items = @ \cup rows, !.cursor = scan[c].to]
          IN  ScanNextPage(c, new, scan[c].gw, scan[c].top, scan[c].left - 1)
    BY Zenon DEF PageReply
  <2>2. LET rows == NewRows(old.items, Extracted(Served(c), top))
            new == [old EXCEPT !.items = @ \cup rows, !.cursor = to]
        IN  ScanNextPage(c, new, scan[c].gw, top, scan[c].left - 1)
    BY <2>1, Zenon DEF Undisturbed
  <2>3. ScanNextPage(c, Appended(old, Extracted(Served(c), top), to), scan[c].gw, top, scan[c].left - 1)
    BY <2>2, Zenon DEF Appended
  <2> HIDE DEF read, old, top, to
  <2> QED
    BY <1>5, <2>3
<1>7. read \in SUBSET OnChain(c) /\ read \in SUBSET Inscription
  BY DEF OnChain
<1> HIDE DEF read, old, top, to, from, since
<1>8. /\ ch \in ChannelRecords /\ ch.items = old.items \cup NewRows(old.items, read)
      /\ ch.cursor = to /\ ch.startSlot = old.startSlot
  BY <1>1, <1>2, <1>7, NewRowsAre
<1> HIDE DEF ch
<1>9. Ids(ch.items) = Ids(old.items) \cup Ids(read)
  BY <1>7, <1>8, NewRowIds
<1>10. old.cursor <= to
  BY <1>1, <1>2, <1>3 DEF NextSlot
<1>11. Fits(c, ch, told[c])
  <2>1. ch.startSlot >= since /\ (ch.cursor > 0 => ch.cursor >= ch.startSlot)
    BY <1>1, <1>2, <1>3, <1>8 DEF Fits, NextSlot, since
  <2>2. ASSUME NEW i \in OnChain(c), i.slot >= since
        PROVE  i.slot >= ch.startSlot /\ (i.slot <= ch.cursor => Listed(i, ch, told[c]))
    <3>1. i.slot \in Nat
      BY Bounds DEF OnChain
    <3>2. i.slot >= old.startSlot /\ (i.slot <= old.cursor => Listed(i, old, told[c]))
      BY <1>3, <2>2 DEF Fits, since
    <3>3. ASSUME i.slot <= old.cursor PROVE Listed(i, ch, told[c])
      BY <1>8, <3>2, <3>3 DEF Listed
    <3>4. ASSUME i.slot <= to, ~(i.slot <= old.cursor) PROVE Listed(i, ch, told[c])
      <4>1. i \in read
        BY <1>2, <1>3, <2>2, <3>1, <3>4 DEF read
      <4>2. i.id \in Ids(ch.items)
        BY <1>9, <4>1 DEF Ids
      <4> QED
        BY <4>2 DEF Listed, Ids
    <3> QED
      BY <1>8, <3>2, <3>3, <3>4
  <2> QED
    BY <2>1, <2>2 DEF Fits, since
<1> QED
  BY <1>1, <1>2, <1>6, <1>8, <1>9, <1>10, <1>11 DEF read, old, top, to, since

\* What ScanNextPage makes of the record it is given, and of the scan.
LEMMA NextPageRow ==
    ASSUME ScanInv, NEW c \in Scanning, NEW ch \in ChannelRecords, NEW gw, NEW top, NEW left,
           ScanNextPage(c, ch, gw, top, left)
    PROVE  /\ Followed' = Followed /\ c \in Followed
           /\ channels'[c].items = ch.items /\ channels'[c].cursor = ch.cursor
           /\ channels'[c].startSlot = ch.startSlot
           /\ \A d \in Followed : d # c => channels'[d] = channels[d]
           /\ \A d \in Scanning' : d \in Scanning /\ (d # c => scan'[d] = scan[d])
           /\ c \in Scanning' => scan'[c].step = "page"
<1> DEFINE from == NextSlot(ch)
           done == [ch EXCEPT !.synced = from > top]
           r == PageRequest(gw, top, left, from)
<1>1. c \in Followed
  BY TypesOfScanInv
<1>2. /\ done.items = ch.items /\ done.cursor = ch.cursor /\ done.startSlot = ch.startSlot
  BY DEF ChannelRecords
<1>3. r.step = "page"
  BY DEF PageRequest, Request
<1> HIDE DEF from, done, r
<1>4. \/ channels' = [channels EXCEPT ![c] = done] /\ scan' = Ended(c)
      \/ channels' = [channels EXCEPT ![c] = ch] /\ scan' = [scan EXCEPT ![c] = r]
  BY DEF ScanNextPage, from, done, r
<1> QED
  BY <1>1, <1>2, <1>3, <1>4 DEF Ended, Restrict, Scanning, Followed

-----------------------------------------------------------------------------
(* Every step keeps what fits, and is a step of the feed.                    *)

\* A channel the explorer is asked about has not been read.
LEMMA StaysExplorerFirst ==
    ASSUME FeedInv, Undisturbed, [Next]_vars
    PROVE  ExplorerFirst'
<1>1. ASSUME \A c \in Followed : channels'[c].startSlot = channels[c].startSlot
                                 /\ channels'[c].cursor = channels[c].cursor,
             \A c \in Scanning' : c \in Scanning /\ scan'[c] = scan[c]
      PROVE  ExplorerFirst'
  BY <1>1, TypesOfScanInv DEF FeedInv, ExplorerFirst
<1>2. ASSUME NEW cs, cs \subseteq Followed', scan' = Started(channels', cs),
             \A c \in Followed : c \in Followed' /\ channels'[c] = channels[c]
      PROVE  ExplorerFirst'
  <2>1. ASSUME NEW ch, FirstRequest(ch).step = "channel" \/ FirstRequest(ch).step = "block"
        PROVE  ch.startSlot = 0 /\ ch.cursor = 0
    BY <2>1 DEF FirstRequest, Request
  <2>2. \A c \in Scanning' : \/ c \in Scanning /\ scan'[c] = scan[c]
                             \/ scan'[c] = FirstRequest(channels'[c])
    BY <1>2 DEF Started, Scanning
  <2> QED
    BY <1>2, <2>1, <2>2, TypesOfScanInv DEF FeedInv, ExplorerFirst
<1>3. CASE UNCHANGED <<channels, scan>>
  BY <1>1, <1>3 DEF Scanning
<1>4. CASE UNCHANGED vars
  BY <1>3, <1>4 DEF vars, lezVars
<1>5. CASE UserCall
  <2>1. ASSUME NEW c \in Channel, NEW hint \in Hints, Follow(c, hint) PROVE ExplorerFirst'
    <3>1. /\ c \in Followed' /\ scan' = Started(channels', {c})
          /\ \A d \in Followed : d \in Followed' /\ channels'[d] = channels[d]
      BY <2>1 DEF Follow, Followed
    <3> QED
      BY <1>2, <3>1
  <2>2. ASSUME NEW cs, Unfollow(cs) PROVE ExplorerFirst'
    <3>1. \A c \in Scanning' : c \in Scanning /\ c \notin cs /\ scan'[c] = scan[c]
      BY <2>2 DEF Unfollow, Restrict, Scanning
    <3>2. \A c \in Followed : c \notin cs => channels'[c] = channels[c]
      BY <2>2 DEF Unfollow, Restrict, Followed
    <3> QED
      BY <3>1, <3>2, TypesOfScanInv DEF FeedInv, ExplorerFirst
  <2>3. ASSUME NEW c \in Channel, UserRefresh(c) PROVE ExplorerFirst'
    BY <1>2, <2>3 DEF UserRefresh, Refresh, Followed
  <2>4. ASSUME NEW c \in Followed, NEW row, RemoveItem(c, row) PROVE ExplorerFirst'
    <3>1. /\ UNCHANGED scan /\ channels[c] \in ChannelRecords
          /\ channels' = [channels EXCEPT ![c].items = channels[c].items \ {row}]
      BY <2>4, TypesOfScanInv DEF RemoveItem, FeedInv
    <3>2. \A d \in Followed : channels'[d].startSlot = channels[d].startSlot
                              /\ channels'[d].cursor = channels[d].cursor
      BY <3>1 DEF ChannelRecords, Followed
    <3> QED
      BY <1>1, <3>1, <3>2 DEF Scanning
  <2>5. ~\E list \in OtherGateways : SetGateways(list)
    BY DEF SetGateways, Call, Undisturbed
  <2> QED
    BY <1>5, <2>1, <2>2, <2>3, <2>4, <2>5 DEF UserCall
<1>6. CASE Restart
  BY <1>6 DEF Restart, ExplorerFirst, Scanning
<1>7. CASE SaveState \/ HealthTick \/ RefreshTick
  BY <1>2, <1>3, <1>7 DEF SaveState, HealthTick, RefreshTick, Refresh, lezVars, Followed
<1>8. ASSUME NEW n \in Node, PollEnds(n) \/ Finalize(n) PROVE ExplorerFirst'
  BY <1>3, <1>8 DEF PollEnds, PollFails, PollReply, Finalize, lezVars
<1>9. ASSUME NEW c \in Channel, Reply(c) \/ ChainedRefresh(c) PROVE ExplorerFirst'
  <2>1. CASE ChainedRefresh(c)
    BY <1>2, <1>3, <2>1 DEF ChainedRefresh, Refresh, Followed
  <2>2. CASE ExplorerChannelReply(c)
    <3>1. /\ c \in Scanning /\ scan[c].step = "channel" /\ UNCHANGED channels
          /\ Scanning' = Scanning /\ \A d \in Scanning : d # c => scan'[d] = scan[d]
      BY <2>2 DEF ExplorerChannelReply, Scanning
    <3> QED
      BY <3>1 DEF FeedInv, ExplorerFirst
  <2>3. CASE ExplorerBlockReply(c)
    <3>1. Request("info", scan[c].gw).step = "info"
      BY DEF Request
    <3>2. /\ c \in Scanning /\ Scanning' = Scanning
          /\ scan'[c] = Request("info", scan[c].gw)
          /\ \A d \in Scanning : d # c => scan'[d] = scan[d]
          /\ \A d \in Followed : d # c => channels'[d] = channels[d]
      BY <2>3 DEF ExplorerBlockReply, Scanning, Followed
    <3> QED
      BY <3>1, <3>2, TypesOfScanInv DEF FeedInv, ExplorerFirst
  <2>4. CASE InfoFails(c) \/ PageFails(c)
    <3>1. UNCHANGED channels /\ scan' = Ended(c)
      BY <2>4 DEF InfoFails, PageFails
    <3> QED
      BY <1>1, <3>1 DEF Ended, Restrict, Scanning
  <2>5. ASSUME NEW ch \in ChannelRecords, NEW gw, NEW top, NEW left, c \in Scanning,
               ScanNextPage(c, ch, gw, top, left)
        PROVE  ExplorerFirst'
    BY <2>5, NextPageRow, TypesOfScanInv DEF FeedInv, ExplorerFirst
  <2>6. CASE InfoReply(c)
    BY <2>5, <2>6, TypesOfScanInv DEF InfoReply, FeedInv
  <2>7. CASE PageReply(c)
    BY <2>5, <2>7, PageBrings
  <2> QED
    BY <1>9, <2>1, <2>2, <2>3, <2>4, <2>6, <2>7 DEF Reply
<1> QED
  BY <1>4, <1>5, <1>6, <1>7, <1>8, <1>9 DEF Next

\* Records that fit what was followed, whichever channels are left.
LEMMA TableFitsStep ==
    ASSUME FeedInv, [Next]_vars,
           \A c \in Followed' : \/ c \in Followed /\ channels'[c] = channels[c]
                                \/ c \in Followed /\ Fits(c, channels'[c], told[c])
                                \/ Fits(c, channels'[c], told'[c])
    PROVE  Fitting'
<1>1. \A c \in Followed : Fits(c, channels[c], told[c])
  BY DEF FeedInv, Fitting, FileFitting, TableFits, Followed
<1> QED
  BY <1>1, ToldGrows, FitsLater DEF Fitting, TableFits, Followed

\* Steps that show nothing but a save.
LEMMA UnseenStep ==
    ASSUME FeedInv, Undisturbed, [Next]_vars, UNCHANGED channels
    PROVE  Fitting' /\ FeedStep
<1>1. Listing(channels)' = Listing(channels)
  BY SameListing DEF Followed
<1>2. Fitting'
  BY TableFitsStep DEF Followed
<1> QED
  BY <1>1, <1>2, NothingShown

\* A follow.
LEMMA FollowShows ==
    ASSUME FeedInv, Undisturbed, [Next]_vars, NEW c \in Channel, NEW hint \in Hints, Follow(c, hint)
    PROVE  Fitting' /\ FeedStep
<1>1. /\ c \notin Followed /\ saved' = StateFile(channels')
      /\ channels' = [d \in Followed \cup {c} |-> IF d = c THEN NewChannel(hint) ELSE channels[d]]
      /\ told' = [told EXCEPT ![c] = NewTold(hint)] /\ DOMAIN told = Channel
  BY DEF Follow, FeedInv, ToldOK
<1>2. /\ Followed' = Followed \cup {c} /\ channels'[c] = NewChannel(hint)
      /\ told'[c] = NewTold(hint)
      /\ \A d \in Followed : d # c /\ channels'[d] = channels[d] /\ told'[d].since = told[d].since
  BY <1>1, ToldGrows DEF Followed
<1>3. Fits(c, NewChannel(hint), NewTold(hint))
  <2>1. hint \in Nat /\ \A i \in OnChain(c) : i.slot \in Nat /\ i.slot > 0
    BY Bounds DEF OnChain
  <2> QED
    BY <2>1 DEF Fits, NewChannel, NewTold
<1>4. Fitting'
  BY <1>2, <1>3, TableFitsStep
<1>5. Promise!Follow(c, hint)
  <2>1. Listing(channels)' = [d \in Followed \cup {c} |->
                                IF d = c THEN Promise!Empty(hint) ELSE Listing(channels)[d]]
    <3>1. {r.id : r \in NewChannel(hint).items} = {} /\ NewChannel(hint).cursor = 0
      BY DEF NewChannel
    <3>2. NewTold(hint).since = hint
      BY DEF NewTold
    <3> QED
      BY <1>2, <3>1, <3>2 DEF Listing, Promise!Empty, Followed
  <2>2. DOMAIN Listing(channels) = Followed
    BY DEF Listing, Followed
  <2>3. Listing(saved.channels)' = Listing(channels)'
    BY <1>1 DEF StateFile, Listing
  <2> QED
    BY <1>1, <2>1, <2>2, <2>3 DEF Promise!Follow
<1> QED
  BY <1>4, <1>5 DEF FeedStep, Promise!Next

\* Unfollowing, one channel or all.
LEMMA UnfollowShows ==
    ASSUME FeedInv, Undisturbed, [Next]_vars, NEW cs, Unfollow(cs)
    PROVE  Fitting' /\ FeedStep
<1>1. /\ cs \subseteq Followed /\ channels' = Restrict(channels, Followed \ cs)
      /\ saved' = StateFile(channels') /\ UNCHANGED told
  BY DEF Unfollow
<1>2. Followed' = Followed \ cs /\ \A c \in Followed' : channels'[c] = channels[c]
  BY <1>1 DEF Restrict, Followed
<1>3. Fitting'
  BY <1>2, TableFitsStep
<1>4. Promise!Unfollow(cs) /\ cs \in SUBSET DOMAIN Listing(channels)
  <2>1. DOMAIN Listing(channels) = Followed
    BY DEF Listing, Followed
  <2>2. Listing(channels)' = [c \in Followed \ cs |-> Listing(channels)[c]]
    BY <1>1, <1>2 DEF Listing, Followed
  <2>3. Listing(saved.channels)' = Listing(channels)'
    BY <1>1 DEF StateFile, Listing
  <2>4. cs \in SUBSET DOMAIN Listing(channels)
    BY <1>1, <2>1
  <2>5. Promise!Unfollow(cs)
    BY <2>1, <2>2, <2>3 DEF Promise!Unfollow, Promise!Restrict
  <2> QED
    BY <2>4, <2>5
<1> QED
  BY <1>4 , <1>3 DEF FeedStep, Promise!Next

\* A row the user removes.
LEMMA RemovalShows ==
    ASSUME FeedInv, Undisturbed, [Next]_vars, NEW c \in Followed, NEW row, RemoveItem(c, row)
    PROVE  Fitting' /\ FeedStep
<1> DEFINE ch == [channels[c] EXCEPT !.items = @ \ {row}]
<1>1. /\ row \in channels[c].items /\ channels' = [channels EXCEPT ![c] = ch]
      /\ saved' = StateFile(channels') /\ told' = [told EXCEPT ![c].removed = @ \cup {row.id}]
      /\ DOMAIN told = Channel /\ c \in Channel
      /\ DOMAIN told[c] = {"since", "removed", "caughtUp", "noticed"}
  BY TypesOfScanInv DEF RemoveItem, FeedInv, ToldOK
<1>2. /\ ch.items = channels[c].items \ {row} /\ ch.cursor = channels[c].cursor
      /\ ch.startSlot = channels[c].startSlot
  BY TypesOfScanInv DEF FeedInv, ChannelRecords
<1> HIDE DEF ch
<1>3. /\ Followed' = Followed /\ channels'[c] = ch
      /\ \A d \in Followed : d # c => channels'[d] = channels[d]
      /\ told'[c].since = told[c].since /\ told'[c].removed = told[c].removed \cup {row.id}
      /\ \A d \in Followed : told'[d].since = told[d].since
  BY <1>1, ToldGrows DEF Followed
<1>4. Fits(c, ch, told'[c])
  <2>1. Fits(c, channels[c], told[c])
    BY DEF FeedInv, Fitting, FileFitting, TableFits, Followed
  <2>2. ASSUME NEW i, Listed(i, channels[c], told[c]) PROVE Listed(i, ch, told'[c])
    BY <1>2, <1>3, <2>2 DEF Listed
  <2> QED
    BY <1>2, <1>3, <2>1, <2>2 DEF Fits
<1>5. Fitting'
  BY <1>3, <1>4, TableFitsStep
<1>6. Promise!Remove(c, row.id) /\ row.id \in Listing(channels)[c].ids
  <2>1. Ids(ch.items) = Ids(channels[c].items) \ {row.id}
    BY <1>1, <1>2, TypesOfScanInv DEF FeedInv, OneRowEach, Ids
  <2>2. Listing(channels)' = [Listing(channels) EXCEPT ![c].ids = @ \ {row.id}]
    BY <1>2, <1>3, <2>1 DEF Listing, Ids, Followed
  <2>3. Listing(saved.channels)' = Listing(channels)'
    BY <1>1 DEF StateFile, Listing
  <2>4. row.id \in Listing(channels)[c].ids
    BY <1>1 DEF Listing, Followed
  <2> QED
    BY <2>2, <2>3, <2>4 DEF Promise!Remove
<1>7. c \in DOMAIN Listing(channels)
  BY DEF Listing, Followed
<1> QED
  BY <1>5, <1>6, <1>7 DEF FeedStep, Promise!Next

\* The state file is what a restart goes back to.
LEMMA RestartShows ==
    ASSUME FeedInv, Undisturbed, [Next]_vars, Restart
    PROVE  Fitting' /\ FeedStep
<1>1. channels' = saved.channels /\ UNCHANGED <<saved, told>>
  BY DEF Restart
<1>2. Fitting'
  BY <1>1 DEF FeedInv, Fitting, FileFitting, TableFits
<1>3. Promise!Crash
  BY <1>1 DEF Promise!Crash, Listing
<1> QED
  BY <1>2, <1>3 DEF FeedStep, Promise!Next

\* The explorer's answer moves the first page, and nothing anyone sees.
LEMMA BlockShows ==
    ASSUME FeedInv, Undisturbed, [Next]_vars, NEW c \in Channel, ExplorerBlockReply(c),
           channels' = [channels EXCEPT ![c].startSlot = FirstSeen(c)]
    PROVE  Fitting' /\ FeedStep
<1> DEFINE ch == [channels[c] EXCEPT !.startSlot = FirstSeen(c)]
<1>1. /\ c \in Scanning /\ c \in Followed /\ OnChain(c) # {}
      /\ channels[c].startSlot = 0 /\ channels[c].cursor = 0
      /\ channels[c] \in ChannelRecords /\ channels' = [channels EXCEPT ![c] = ch]
  BY TypesOfScanInv DEF ExplorerBlockReply, FeedInv, ExplorerFirst, RequestOK
<1>2. /\ ch.items = channels[c].items /\ ch.cursor = 0 /\ ch.startSlot = FirstSeen(c)
  BY <1>1 DEF ChannelRecords
<1> HIDE DEF ch
<1>3. /\ Followed' = Followed /\ channels'[c] = ch
      /\ \A d \in Followed : d # c => channels'[d] = channels[d]
  BY <1>1 DEF Followed
<1>4. Fits(c, ch, told[c])
  <2>1. /\ FirstSeen(c) \in Nat /\ \A i \in OnChain(c) : FirstSeen(c) <= i.slot
        /\ \A i \in OnChain(c) : i.slot \in Nat /\ i.slot > 0
    BY <1>1, FirstSeenIs, Bounds DEF OnChain
  <2>2. told[c].since = 0
    <3>1. told[c].since \in Nat /\ channels[c].startSlot >= told[c].since
      BY <1>1 DEF FeedInv, ToldOK, Fitting, TableFits, Fits, Followed
    <3> QED
      BY <1>1, <3>1
  <2> QED
    BY <1>2, <2>1, <2>2 DEF Fits
<1>5. Fitting'
  BY <1>1, <1>3, <1>4, TableFitsStep
<1>6. Listing(channels)' = Listing(channels)
  BY <1>1, <1>2, <1>3, SameListing
<1> QED
  BY <1>5, <1>6, NothingShown

ReadTo(list, c, to, rest) == [list EXCEPT ![c].upTo = to, ![c].ids = @ \cup rest]

\* Reading on changes one channel of the feed.
LEMMA ReadOn ==
    ASSUME NEW list, NEW c \in DOMAIN list, NEW a, NEW b, NEW i, NEW to, NEW rest,
           list[c] = [since |-> a, upTo |-> b, ids |-> i]
    PROVE  /\ DOMAIN ReadTo(list, c, to, rest) = DOMAIN list
           /\ ReadTo(list, c, to, rest)[c] = [since |-> a, upTo |-> to, ids |-> i \cup rest]
           /\ \A d \in DOMAIN list : d # c => ReadTo(list, c, to, rest)[d] = list[d]
<1> DEFINE mid == [list EXCEPT ![c].upTo = to]
           new == [mid EXCEPT ![c].ids = i \cup rest]
<1>1. DOMAIN mid = DOMAIN list /\ mid[c] = [since |-> a, upTo |-> to, ids |-> i]
  OBVIOUS
<1>2. \A d \in DOMAIN list : d # c => mid[d] = list[d]
  OBVIOUS
<1>3. ReadTo(list, c, to, rest) = new
  BY DEF ReadTo
<1> HIDE DEF mid
<1>4. /\ DOMAIN new = DOMAIN list
      /\ new[c] = [since |-> a, upTo |-> to, ids |-> i \cup rest]
      /\ \A d \in DOMAIN list : d # c => new[d] = mid[d]
  BY <1>1
<1> QED
  BY <1>2, <1>3, <1>4, Zenon

\* A node's height, or a page: the list is read on, possibly by nothing.
LEMMA ReplyShows ==
    ASSUME FeedInv, Undisturbed, [Next]_vars, NEW c \in Channel, InfoReply(c) \/ PageReply(c)
    PROVE  Fitting' /\ FeedStep
<1>1. ASSUME NEW ch \in ChannelRecords, NEW top, NEW left, NEW gw, c \in Scanning,
             ScanNextPage(c, ch, gw, top, left), Fits(c, ch, told[c])
      PROVE  /\ Fitting' /\ c \in Followed /\ Followed' = Followed
             /\ channels'[c].cursor = ch.cursor /\ channels'[c].items = ch.items
             /\ \A d \in Followed : d # c => channels'[d] = channels[d]
  <2>1. /\ Followed' = Followed /\ c \in Followed
        /\ channels'[c].items = ch.items /\ channels'[c].cursor = ch.cursor
        /\ channels'[c].startSlot = ch.startSlot
        /\ \A d \in Followed : d # c => channels'[d] = channels[d]
    BY <1>1, NextPageRow DEF FeedInv
  <2>2. Fits(c, channels'[c], told[c])
    BY <1>1, <2>1 DEF Fits, Listed
  <2> QED
    BY <2>1, <2>2, TableFitsStep
<1>2. CASE InfoReply(c)
  <2>1. /\ c \in Scanning /\ c \in Followed /\ channels[c] \in ChannelRecords
        /\ ScanNextPage(c, channels[c], scan[c].gw, lib[scan[c].node], MaxPages)
        /\ Fits(c, channels[c], told[c])
    BY <1>2, TypesOfScanInv DEF InfoReply, FeedInv, Fitting, TableFits, Followed
  <2>2. /\ Fitting' /\ Followed' = Followed
        /\ channels'[c].cursor = channels[c].cursor /\ channels'[c].items = channels[c].items
        /\ \A d \in Followed : d # c => channels'[d] = channels[d]
    BY <1>1, <2>1
  <2>3. Listing(channels)' = Listing(channels)
    BY <2>2, SameListing
  <2> QED
    BY <2>2, <2>3, NothingShown
<1>3. CASE PageReply(c)
  <2> DEFINE to == scan[c].to
             read == {i \in OnChain(c) : /\ i.slot >= told[c].since
                                         /\ i.slot \in channels[c].cursor + 1 .. to}
  <2>1. /\ c \in Scanning /\ c \in Followed /\ to \in 0..MaxSlot /\ channels[c].cursor <= to
        /\ channels[c].cursor \in Nat
    BY <1>3, PageBrings, TypesOfScanInv DEF FeedInv
  <2>2. PICK ch \in ChannelRecords :
          /\ ScanNextPage(c, ch, scan[c].gw, scan[c].top, scan[c].left - 1)
          /\ ch.cursor = to /\ Ids(ch.items) = Ids(channels[c].items) \cup Ids(read)
          /\ Fits(c, ch, told[c])
    BY <1>3, PageBrings
  <2> HIDE DEF to, read
  <2>3. /\ Fitting' /\ Followed' = Followed
        /\ channels'[c].cursor = to /\ channels'[c].items = ch.items
        /\ \A d \in Followed : d # c => channels'[d] = channels[d]
    BY <1>1, <2>1, <2>2
  <2>4. \A d \in Followed : told'[d].since = told[d].since
    BY ToldGrows
  <2>5. Ids(read) = Promise!Inscribed(c, Listing(channels)[c], to)
    BY <2>1 DEF Ids, read, Promise!Inscribed, Listing, OnChain, Followed
  <2>6. /\ DOMAIN Listing(channels) = Followed
        /\ \A d \in Followed : Listing(channels)[d] =
                [since |-> told[d].since, upTo |-> channels[d].cursor, ids |-> Ids(channels[d].items)]
    BY DEF Listing, Ids, Followed
  <2>7. /\ DOMAIN Listing(channels)' = Followed
        /\ \A d \in Followed : Listing(channels)'[d] =
                [since |-> told[d].since, upTo |-> channels'[d].cursor, ids |-> Ids(channels'[d].items)]
    BY <2>3, <2>4 DEF Listing, Ids, Followed
  <2>8. Listing(channels)' = [d \in DOMAIN Listing(channels)' |-> Listing(channels)'[d]]
    BY DEF Listing
  <2>9. CASE to > channels[c].cursor
    <3>1. Listing(channels)' = [Listing(channels) EXCEPT
            ![c].upTo = to, ![c].ids = @ \cup Promise!Inscribed(c, Listing(channels)[c], to)]
      <4> DEFINE old == Listing(channels)
                 rest == Promise!Inscribed(c, old[c], to)
                 new == ReadTo(old, c, to, rest)
      <4>1. /\ DOMAIN new = Followed
            /\ new[c] = [since |-> told[c].since, upTo |-> to,
                         ids |-> Ids(channels[c].items) \cup rest]
            /\ \A d \in Followed : d # c => new[d] = old[d]
        <5>1. /\ c \in DOMAIN old /\ DOMAIN old = Followed
              /\ old[c] = [since |-> told[c].since, upTo |-> channels[c].cursor,
                           ids |-> Ids(channels[c].items)]
          BY <2>1, <2>6
        <5> HIDE DEF old, rest
        <5> QED
          BY <5>1, ReadOn
      <4>2. ASSUME NEW d \in Followed PROVE new[d] = Listing(channels)'[d]
        <5> HIDE DEF new
        <5>1. CASE d = c
          BY <2>1, <2>2, <2>3, <2>4, <2>5, <2>7, <4>1, <5>1
        <5>2. CASE d # c
          BY <2>3, <2>4, <2>6, <2>7, <4>1, <5>2
        <5> QED
          BY <5>1, <5>2
      <4>3. new = [d \in Followed |-> new[d]]
        BY <4>1 DEF ReadTo
      <4> HIDE DEF new
      <4>4. Listing(channels)' = [d \in Followed |-> Listing(channels)'[d]]
        BY <2>7, <2>8
      <4>5. Listing(channels)' = new
        BY <4>2, <4>3, <4>4
      <4> QED
        BY <4>5 DEF new, ReadTo
    <3>2. Promise!Read(c, to) /\ to \in 1..MaxSlot /\ c \in DOMAIN Listing(channels)
      <4>1. to \in 1..MaxSlot /\ to > Listing(channels)[c].upTo
        BY <2>1, <2>6, <2>9, Bounds
      <4>2. Promise!MaySave
        BY FileListing DEF Promise!MaySave
      <4> QED
        BY <2>1, <2>6, <3>1, <4>1, <4>2 DEF Promise!Read
    <3> QED
      BY <2>3, <3>2 DEF FeedStep, Promise!Next
  <2>10. CASE ~(to > channels[c].cursor)
    <3>1. to = channels[c].cursor /\ read = {}
      BY <2>1, <2>10, Bounds DEF read, OnChain
    <3>2. Ids(channels'[c].items) = Ids(channels[c].items)
      BY <2>2, <2>3, <3>1 DEF Ids
    <3>3. \A d \in Followed : Listing(channels)'[d] = Listing(channels)[d]
      BY <2>3, <2>4, <2>6, <2>7, <3>1, <3>2
    <3>4. Listing(channels) = [d \in Followed |-> Listing(channels)[d]]
      BY DEF Listing, Followed
    <3>5. Listing(channels)' = Listing(channels)
      BY <2>7, <2>8, <3>3, <3>4
    <3> QED
      BY <2>3, <3>5, NothingShown
  <2> QED
    BY <2>9, <2>10
<1> QED
  BY <1>2, <1>3

-----------------------------------------------------------------------------
(* The invariant, and what it gives.                                         *)

\* Nothing is followed, and nothing listed.
LEMMA FeedStart ==
    ASSUME Init
    PROVE  FeedInv /\ Promise!Init
<1>1. /\ channels = <<>> /\ saved.channels = <<>> /\ scan = <<>>
      /\ gateways = FirstGateways /\ saved.gateways = FirstGateways
      /\ told = [c \in Channel |-> NewTold(0)]
  BY DEF Init
<1>2. DOMAIN channels = {} /\ DOMAIN saved.channels = {} /\ Scanning = {}
  BY <1>1 DEF Scanning
<1>3. ToldOK
  BY <1>1 DEF ToldOK, NewTold
<1>4. Pinned /\ ExplorerFirst /\ Fitting /\ FileFitting
  BY <1>1, <1>2 DEF Pinned, ExplorerFirst, Fitting, FileFitting, TableFits
<1>5. Promise!Init
  BY <1>1, <1>2 DEF Promise!Init, Listing
<1> QED
  BY <1>3, <1>4, <1>5, ScanStart DEF FeedInv

\* Every step keeps the invariant, and is one of the feed.
LEMMA FeedNext ==
    ASSUME FeedInv, Undisturbed, [Next]_vars
    PROVE  FeedInv' /\ FeedStep
<1> SUFFICES Fitting' /\ FeedStep
  BY ScanStep, ToldGrows, StaysPinned, StaysExplorerFirst, FileFits DEF FeedInv
<1> USE UnseenStep
<1>1. CASE UNCHANGED vars
  BY <1>1 DEF vars, lezVars
<1>2. CASE UserCall
  <2>1. ~\E list \in OtherGateways : SetGateways(list)
    BY DEF SetGateways, Call, Undisturbed
  <2>2. ASSUME NEW c \in Channel, UserRefresh(c) PROVE Fitting' /\ FeedStep
    BY <2>2 DEF UserRefresh
  <2> QED
    BY <1>2, <2>1, <2>2, FollowShows, UnfollowShows, RemovalShows DEF UserCall
<1>3. CASE Restart
  BY <1>3, RestartShows
<1>4. CASE SaveState \/ HealthTick \/ RefreshTick
  BY <1>4 DEF SaveState, HealthTick, RefreshTick, lezVars
<1>5. ASSUME NEW n \in Node, PollEnds(n) \/ Finalize(n) PROVE Fitting' /\ FeedStep
  BY <1>5 DEF PollEnds, PollFails, PollReply, Finalize, lezVars
<1>6. ASSUME NEW c \in Channel, Reply(c) \/ ChainedRefresh(c) PROVE Fitting' /\ FeedStep
  <2>1. CASE ChainedRefresh(c) \/ ExplorerChannelReply(c) \/ InfoFails(c) \/ PageFails(c)
    BY <2>1 DEF ChainedRefresh, ExplorerChannelReply, InfoFails, PageFails
  <2>2. CASE ExplorerBlockReply(c)
    BY <2>2, BlockShows DEF ExplorerBlockReply
  <2>3. CASE InfoReply(c) \/ PageReply(c)
    BY <2>3, ReplyShows
  <2> QED
    BY <1>6, <2>1, <2>2, <2>3 DEF Reply
<1> QED
  BY <1>1, <1>2, <1>3, <1>4, <1>5, <1>6 DEF Next

\* The invariant holds in every reachable state, undisturbed.
LEMMA FeedInvariant == Undisturbed /\ Spec => []FeedInv
<1> SUFFICES ASSUME Undisturbed PROVE Spec => []FeedInv
  OBVIOUS
<1>1. FeedInv /\ [Next]_vars => FeedInv'
  BY FeedNext
<1>2. Init => FeedInv
  BY FeedStart
<1> QED
  BY <1>1, <1>2, PTL DEF Spec

\* Behind a cursor nothing is missing, however many pages, nodes, failures and
\* crashes came between, as long as no one replaces the gateway list under a scan
\* and no node answers with a body that is not JSON (the cursor handling of
\* startScan and scanNextPage).
THEOREM NothingSkipped == Undisturbed /\ Spec => []NoneSkipped
<1>1. FeedInv => NoneSkipped
  <2> SUFFICES ASSUME FeedInv, NEW c \in Followed, NEW i \in OnChain(c),
                      i.slot >= told[c].since, i.slot <= channels[c].cursor
               PROVE  AccountedFor(i, channels[c])
    BY DEF NoneSkipped
  <2>1. Fits(c, channels[c], told[c]) /\ i.channel = c
    BY DEF FeedInv, Fitting, TableFits, Followed, OnChain
  <2> QED
    BY <2>1 DEF Fits, Listed, AccountedFor
<1> QED
  BY <1>1, FeedInvariant, PTL

\* Under the same conditions the scanner is a feed: what it lists is at every
\* moment what the channel inscribed up to the cursor, and what a restart goes
\* back to is such a moment.
THEOREM ScannerFeeds == Undisturbed /\ Spec => FeedsTheList
<1> SUFFICES ASSUME Undisturbed PROVE Spec => FeedsTheList
  OBVIOUS
<1>1. FeedInv /\ [Next]_vars => [Promise!Next]_Promise!vars
  BY FeedNext DEF FeedStep
<1>2. Init => Promise!Init
  BY FeedStart
<1> QED
  BY <1>1, <1>2, FeedInvariant, PTL DEF Spec, FeedsTheList, Promise!Spec

-----------------------------------------------------------------------------
(* The notices.                                                              *)

\* Notices are armed for a channel that has reached the tip since its follow.
ArmedOnce == syncedOnce \subseteq Followed /\ \A c \in syncedOnce : told[c].caughtUp

Quiet(c) == told'[c].noticed \subseteq told[c].noticed \/ told[c].caughtUp

\* A node's height, or a page, arms the notices only at the tip.
LEMMA NextPageArms ==
    ASSUME ScanInv, ToldOK, ArmedOnce, NEW c \in Scanning, NEW ch \in ChannelRecords, NEW gw,
           NEW top, NEW left, ScanNextPage(c, ch, gw, top, left), NEW more,
           \/ told' = [CaughtUp(c, ch, top) EXCEPT ![c].noticed = @ \cup more]
           \/ (told' = CaughtUp(c, ch, top) /\ more = {})
    PROVE  /\ ArmedOnce' /\ \A d \in Channel : d # c => Quiet(d)
           /\ more = {} => Quiet(c)
<1>1. /\ c \in Channel /\ c \in Followed /\ Followed' = Followed
      /\ syncedOnce \subseteq Followed /\ Followed \subseteq Channel
  BY NextPageRow, TypesOfScanInv DEF ArmedOnce
<1>2. /\ DOMAIN told = Channel
      /\ \A d \in Channel : DOMAIN told[d] = {"since", "removed", "caughtUp", "noticed"}
  BY DEF ToldOK
<1> DEFINE reached == NextSlot(ch) > top
<1>3. \/ syncedOnce' = syncedOnce
      \/ reached /\ syncedOnce' = syncedOnce \cup {c}
  BY DEF ScanNextPage, ScanFinished
<1>4. /\ told'[c].caughtUp = (told[c].caughtUp \/ reached)
      /\ told'[c].noticed = told[c].noticed \cup more
      /\ \A d \in Channel : d # c => told'[d] = told[d]
  <2> HIDE DEF reached
  <2>1. CaughtUp(c, ch, top) = [told EXCEPT ![c].caughtUp = @ \/ reached]
    BY DEF CaughtUp, reached
  <2> QED
    BY <1>1, <1>2, <2>1
<1> HIDE DEF reached
<1>5. ArmedOnce'
  BY <1>1, <1>3, <1>4 DEF ArmedOnce
<1> QED
  BY <1>4, <1>5 DEF Quiet

\* Every step keeps the notices armed only where the tip was reached.
LEMMA ArmedNext ==
    ASSUME "unfollow" \notin Ops, ScanInv, ToldOK, ArmedOnce, [Next]_vars
    PROVE  ArmedOnce' /\ \A c \in Channel : Quiet(c)
<1> DEFINE Goal == ArmedOnce' /\ \A c \in Channel : Quiet(c)
<1>0. /\ DOMAIN told = Channel /\ Followed \subseteq Channel
      /\ \A d \in Channel : DOMAIN told[d] = {"since", "removed", "caughtUp", "noticed"}
  BY TypesOfScanInv DEF ToldOK
<1>1. ASSUME syncedOnce' \subseteq syncedOnce, Followed \subseteq Followed', UNCHANGED told
      PROVE  Goal
  BY <1>1 DEF ArmedOnce, Quiet
<1>2. CASE UNCHANGED vars
  BY <1>1, <1>2 DEF vars, lezVars, pluginVars, Followed
<1>3. CASE UserCall
  <2>1. ASSUME NEW c \in Channel, NEW hint \in Hints, Follow(c, hint) PROVE Goal
    <3>1. /\ c \notin Followed /\ UNCHANGED syncedOnce /\ Followed' = Followed \cup {c}
          /\ told' = [told EXCEPT ![c] = NewTold(hint)]
      BY <2>1 DEF Follow, Followed, pluginVars
    <3>2. NewTold(hint).noticed = {}
      BY DEF NewTold
    <3> QED
      BY <1>0, <3>1, <3>2 DEF ArmedOnce, Quiet
  <2>2. ~\E cs : Unfollow(cs)
    BY DEF Unfollow, Call
  <2>3. ASSUME NEW c \in Channel, UserRefresh(c) PROVE Goal
    BY <1>1, <2>3 DEF UserRefresh, pluginVars, Followed
  <2>4. ASSUME NEW list \in OtherGateways, SetGateways(list) PROVE Goal
    BY <1>1, <2>4 DEF SetGateways, pluginVars, Followed
  <2>5. ASSUME NEW c \in Followed, NEW row, RemoveItem(c, row) PROVE Goal
    <3>1. /\ UNCHANGED syncedOnce /\ Followed' = Followed
          /\ told' = [told EXCEPT ![c].removed = @ \cup {row.id}]
      BY <2>5 DEF RemoveItem, pluginVars, Followed
    <3> QED
      BY <1>0, <3>1 DEF ArmedOnce, Quiet
  <2> QED
    BY <1>3, <2>1, <2>2, <2>3, <2>4, <2>5 DEF UserCall
<1>4. CASE Restart
  BY <1>4 DEF Restart, ArmedOnce, Quiet
<1>5. CASE SaveState \/ HealthTick \/ RefreshTick
  BY <1>1, <1>5 DEF SaveState, HealthTick, RefreshTick, lezVars, pluginVars, Followed
<1>6. ASSUME NEW n \in Node, PollEnds(n) \/ Finalize(n) PROVE Goal
  BY <1>1, <1>6 DEF PollEnds, PollFails, PollReply, Finalize, lezVars, pluginVars, Followed
<1>7. ASSUME NEW c \in Channel, Reply(c) \/ ChainedRefresh(c) PROVE Goal
  <2>1. CASE ChainedRefresh(c) \/ ExplorerChannelReply(c)
    BY <1>1, <2>1 DEF ChainedRefresh, ExplorerChannelReply, pluginVars, Followed
  <2>2. CASE ExplorerBlockReply(c)
    BY <1>1, <2>2 DEF ExplorerBlockReply, pluginVars, Followed
  <2>3. CASE InfoFails(c) \/ PageFails(c)
    BY <1>1, <2>3 DEF InfoFails, PageFails, ScanFinished, Followed
  <2>4. CASE InfoReply(c)
    <3>1. /\ c \in Scanning /\ channels[c] \in ChannelRecords
          /\ ScanNextPage(c, channels[c], scan[c].gw, lib[scan[c].node], MaxPages)
          /\ told' = CaughtUp(c, channels[c], lib[scan[c].node])
      BY <2>4, TypesOfScanInv DEF InfoReply
    <3> QED
      BY <3>1, NextPageArms
  <2>5. CASE PageReply(c)
    <3>1. /\ c \in Scanning /\ channels[c] \in ChannelRecords /\ scan[c].to \in 0..MaxSlot
          /\ OneRowEach(channels[c])
      BY <2>5, TypesOfScanInv DEF PageReply, ScanRecords
    <3>2. PICK found \in {Served(c)} \cup (IF Malformed THEN {{}} ELSE {}) :
            LET rows == NewRows(channels[c].items, Extracted(found, scan[c].top))
                ch == [channels[c] EXCEPT !.items = @ \cup rows, !.cursor = scan[c].to]
            IN  /\ ScanNextPage(c, ch, scan[c].gw, scan[c].top, scan[c].left - 1)
                /\ told' = [CaughtUp(c, ch, scan[c].top) EXCEPT
                              ![c].noticed = @ \cup Announced(c, rows)]
      BY <2>5, Zenon DEF PageReply
    <3> DEFINE page == Extracted(found, scan[c].top)
               rows == NewRows(channels[c].items, page)
               ch == Appended(channels[c], page, scan[c].to)
    <3>3. /\ ScanNextPage(c, ch, scan[c].gw, scan[c].top, scan[c].left - 1)
          /\ told' = [CaughtUp(c, ch, scan[c].top) EXCEPT
                        ![c].noticed = @ \cup Announced(c, rows)]
      BY <3>2, Zenon DEF Appended
    <3>4. page \in SUBSET OnChain(c)
      BY DEF Extracted, Served
    <3> HIDE DEF page
    <3>5. ch \in ChannelRecords
      BY <3>1, <3>4, NewRowsAre
    <3> HIDE DEF ch, rows
    <3>6. ArmedOnce' /\ \A d \in Channel : d # c => Quiet(d)
      BY <3>1, <3>3, <3>5, NextPageArms
    <3>7. CASE c \in syncedOnce
      BY <3>6, <3>7 DEF ArmedOnce, Quiet
    <3>8. CASE c \notin syncedOnce
      <4>1. Announced(c, rows) = {}
        BY <3>8 DEF Announced
      <4> QED
        BY <3>1, <3>3, <3>5, <3>6, <4>1, NextPageArms
    <3> QED
      BY <3>7, <3>8
  <2> QED
    BY <1>7, <2>1, <2>2, <2>3, <2>4, <2>5 DEF Reply
<1> QED
  BY <1>2, <1>3, <1>4, <1>5, <1>6, <1>7 DEF Next

\* A history that is read for the first time announces nothing: no notice is sent
\* for a channel before a scan of its follow has reached the tip
\* (ArchivePlugin::m_syncedOnce), while channels are followed once -- nothing
\* takes a channel out of m_syncedOnce when it is unfollowed.
THEOREM BackfillSendsNothing == "unfollow" \notin Ops /\ Spec => BackfillIsQuiet
<1> SUFFICES ASSUME "unfollow" \notin Ops PROVE Spec => BackfillIsQuiet
  OBVIOUS
<1>1. Init => ScanInv /\ ToldOK /\ ArmedOnce
  <2>1. Init => ToldOK /\ ArmedOnce
    BY DEF Init, ToldOK, NewTold, ArmedOnce
  <2> QED
    BY <2>1, ScanStart
<1>2. ScanInv /\ ToldOK /\ ArmedOnce /\ [Next]_vars => ScanInv' /\ ToldOK' /\ ArmedOnce'
  BY ScanStep, ToldKept, ArmedNext
<1>3. ScanInv /\ ToldOK /\ ArmedOnce /\ [Next]_vars
        => [\A c \in Channel : told'[c].noticed \subseteq told[c].noticed \/ told[c].caughtUp]_vars
  BY ArmedNext DEF Quiet
<1> QED
  BY <1>1, <1>2, <1>3, PTL DEF Spec, BackfillIsQuiet
===============================================================================

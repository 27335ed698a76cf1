------------------------------ MODULE LezScan ------------------------------
(* The channel scanner: LezClient (src/src/lez_client.cpp) with the timers   *)
(* and the two signal handlers of ArchivePlugin that drive it.  A followed   *)
(* channel is read page by page from a gateway node; the scan is pinned to   *)
(* a position of the gateway list, several scans and health polls are in     *)
(* flight at once, and every one of their failures rotates the list.         *)
(*                                                                           *)
(* A slot is a number; a block is abstracted to the inscriptions it holds.   *)
(* The nodes are external: they serve one chain, each up to its own          *)
(* finalised height, and may fail a request or answer it with a body that    *)
(* is not JSON.                                                              *)
EXTENDS Integers, Sequences, FiniteSets, Functions

CONSTANTS
    Channel,        \* channel ids
    Node,           \* gateway nodes
    Inscription,    \* the chain: [channel, slot, id] records
    MaxSlot,        \* bound: no node finalises beyond this slot
    PageSlots,      \* kPageSlots
    MaxPages,       \* kMaxPagesPerRefresh
    FirstGateways,  \* the gateway list of a fresh installation
    OtherGateways,  \* the lists the user may set
    Hints,          \* the "@slot" hints of a channel reference, 0 for none
    Ops,            \* the user's calls the instance explores
    MaxCalls,       \* bound on the user's calls and on restarts
    MaxFaults,      \* bound on the requests that fail
    MaxPolls,       \* bound on health polls in flight
    Malformed       \* whether a node may answer /blocks with a body that is not JSON

AllOps == {"follow", "unfollow", "refresh", "gateways", "remove", "restart"}

ASSUME ScanAssumption ==
    /\ MaxSlot \in Nat /\ PageSlots \in Nat \ {0} /\ MaxPages \in Nat \ {0}
    /\ Inscription \subseteq [channel : Channel, slot : 1..MaxSlot, id : STRING]
    /\ FirstGateways \in Seq(Node) \ {<<>>} /\ OtherGateways \subseteq Seq(Node) \ {<<>>}
    /\ Hints \subseteq Nat /\ Ops \subseteq AllOps
    /\ MaxCalls \in Nat /\ MaxFaults \in Nat /\ MaxPolls \in Nat \ {0}
    /\ Malformed \in BOOLEAN

VARIABLES
    gateways,       \* m_gateways
    active,         \* m_active, counted from 1
    gatewayState,   \* m_gatewayState
    channels,       \* m_channels: the followed channels
    scan,           \* m_scanning: the request each scan waits for
    polls,          \* the health polls in flight, by node
    syncedOnce,     \* ArchivePlugin.m_syncedOnce
    chained,        \* channels with a single-shot refresh pending
    saved,          \* the state file
    lib,            \* external: the height each node has finalised
    calls, faults,  \* the bounded counters of calls and failures
    told            \* history, by channel: see NewTold

lezVars == <<gateways, active, gatewayState, channels, scan, polls>>
pluginVars == <<syncedOnce, chained>>
outside == <<lib, calls, faults>>
vars == <<lezVars, pluginVars, saved, outside, told>>

Followed == DOMAIN channels
Scanning == DOMAIN scan

NewChannel(hint) == [startSlot |-> hint, cursor |-> 0, synced |-> FALSE, items |-> {}]

(* What the properties remember of a follow: the hint it was given, the ids  *)
(* the user removed, whether a scan reached the tip, the ids announced.      *)
NewTold(hint) == [since |-> hint, removed |-> {}, caughtUp |-> FALSE, noticed |-> {}]

\* Faulty variant: the rows of a running scan are held back, but not its position.
StateFileOfFinished(chans) ==
    [gateways |-> gateways,
     channels |-> [c \in DOMAIN chans |->
                     IF c \in Scanning THEN [chans[c] EXCEPT !.items = NewChannel(0).items] ELSE chans[c]]]

StateFile(chans) == [gateways |-> gateways, channels |-> chans]

(***************************************************************************)
(* Requests.                                                               *)
(***************************************************************************)
Addressed(gw) == gateways[IF gw <= Len(gateways) THEN gw ELSE active]

Request(step, gw) == [step |-> step, gw |-> gw, node |-> Addressed(gw),
                      top |-> 0, left |-> 0, from |-> 0, to |-> 0]

(* Faulty variant: a page reaches beyond the height of the scan.             *)
PageRequestUncapped(gw, top, left, from) ==
    [Request("page", gw) EXCEPT !.top = top, !.left = left, !.from = from,
        !.to = from + PageSlots - 1]

PageRequest(gw, top, left, from) ==
    [Request("page", gw) EXCEPT !.top = top, !.left = left, !.from = from,
        !.to = IF from + PageSlots - 1 < top THEN from + PageSlots - 1 ELSE top]

FirstRequest(ch) ==
    Request(IF ch.startSlot = 0 /\ ch.cursor = 0 THEN "channel" ELSE "info", active)

(* The scans after startScan(c) for every c of cs that has none yet.         *)
Started(chans, cs) ==
    [c \in Scanning \cup cs |-> IF c \in Scanning THEN scan[c] ELSE FirstRequest(chans[c])]

Ended(c) == Restrict(scan, Scanning \ {c})

NextSlot(ch) == IF ch.cursor > 0 THEN ch.cursor + 1 ELSE ch.startSlot

(* Faulty variant: the position runs off the list.                           *)
FailOverPastEnd == gatewayState' = "offline" /\ active' = active + 1

FailOver ==
    /\ gatewayState' = "offline"
    /\ active' = (active % Len(gateways)) + 1

Fails == faults < MaxFaults /\ faults' = faults + 1

(***************************************************************************)
(* A scan: startScan, the explorer's two answers, the gateway's height,    *)
(* the pages.  Every handler belongs to the scan of its channel: when that *)
(* scan is cancelled its request leaves "scan" and is never answered.      *)
(***************************************************************************)
(* Faulty variant: any finished scan arms the notices.                       *)
ScanFinishedArms(c, reachedLib, state) ==
    /\ syncedOnce' = syncedOnce \cup {c}
    /\ chained' = IF ~reachedLib /\ state # "offline" THEN chained \cup {c} ELSE chained

ScanFinished(c, reachedLib, state) ==
    /\ syncedOnce' = IF reachedLib THEN syncedOnce \cup {c} ELSE syncedOnce
    /\ chained' = IF ~reachedLib /\ state # "offline" THEN chained \cup {c} ELSE chained

(* Faulty variant: only the page cap ends a scan.                            *)
ScanNextPageOnward(c, ch, gw, top, left) ==
    LET from == NextSlot(ch)
        done == [ch EXCEPT !.synced = from > top]
    IN  IF left = 0
        THEN /\ channels' = [channels EXCEPT ![c] = done]
             /\ scan' = Ended(c)
             /\ saved' = StateFile([channels EXCEPT ![c] = done])
             /\ ScanFinished(c, from > top, gatewayState)
        ELSE /\ channels' = [channels EXCEPT ![c] = ch]
             /\ scan' = [scan EXCEPT ![c] = PageRequest(gw, top, left, from)]
             /\ UNCHANGED <<saved, syncedOnce, chained>>

ScanNextPage(c, ch, gw, top, left) ==
    LET from == NextSlot(ch)
        done == [ch EXCEPT !.synced = from > top]
    IN  IF from > top \/ left = 0
        THEN /\ channels' = [channels EXCEPT ![c] = done]
             /\ scan' = Ended(c)
             /\ saved' = StateFile([channels EXCEPT ![c] = done])
             /\ ScanFinished(c, from > top, gatewayState)
        ELSE /\ channels' = [channels EXCEPT ![c] = ch]
             /\ scan' = [scan EXCEPT ![c] = PageRequest(gw, top, left, from)]
             /\ UNCHANGED <<saved, syncedOnce, chained>>

(* first_seen_block_id and its slot: the explorer indexes the whole chain.   *)
OnChain(c) == {i \in Inscription : i.channel = c}
FirstSeen(c) == CHOOSE s \in {i.slot : i \in OnChain(c)} : \A i \in OnChain(c) : s <= i.slot

ExplorerChannelReply(c) ==
    /\ c \in Scanning /\ scan[c].step = "channel"
    /\ \/ /\ OnChain(c) # {}
          /\ scan' = [scan EXCEPT ![c].step = "block"]
       \/ scan' = [scan EXCEPT ![c] = Request("info", scan[c].gw)]
    /\ UNCHANGED <<gateways, active, gatewayState, channels, polls, pluginVars, saved, outside, told>>

ExplorerBlockReply(c) ==
    /\ c \in Scanning /\ scan[c].step = "block"
    /\ \/ /\ channels' = [channels EXCEPT ![c].startSlot = FirstSeen(c)]
          /\ saved' = StateFile(channels')
       \/ UNCHANGED <<channels, saved>>
    /\ scan' = [scan EXCEPT ![c] = Request("info", scan[c].gw)]
    /\ UNCHANGED <<gateways, active, gatewayState, polls, pluginVars, outside, told>>

(* fetchInfoAndScan: an unreachable node and one without a height both fail. *)
InfoFails(c) ==
    /\ c \in Scanning /\ scan[c].step = "info"
    /\ \/ Fails
       \/ lib[scan[c].node] = 0 /\ UNCHANGED faults
    /\ scan' = Ended(c)
    /\ FailOver
    /\ ScanFinished(c, FALSE, gatewayState')
    /\ UNCHANGED <<gateways, channels, polls, saved, lib, calls, told>>

CaughtUp(c, ch, top) == [told EXCEPT ![c].caughtUp = @ \/ NextSlot(ch) > top]

InfoReply(c) ==
    /\ c \in Scanning /\ scan[c].step = "info"
    /\ lib[scan[c].node] > 0
    /\ ScanNextPage(c, channels[c], scan[c].gw, lib[scan[c].node], MaxPages)
    /\ told' = CaughtUp(c, channels[c], lib[scan[c].node])
    /\ UNCHANGED <<gateways, active, gatewayState, polls, outside>>

(* Faulty variant: a page that failed counts as read.                        *)
PageFailsForward(c) ==
    /\ c \in Scanning /\ scan[c].step = "page"
    /\ Fails
    /\ channels' = [channels EXCEPT ![c].cursor = scan[c].to]
    /\ scan' = Ended(c)
    /\ saved' = StateFile(channels')
    /\ FailOver
    /\ ScanFinished(c, FALSE, gatewayState')
    /\ UNCHANGED <<gateways, polls, lib, calls, told>>

(* A page that cannot be had, or whose body is over the size cap.            *)
PageFails(c) ==
    /\ c \in Scanning /\ scan[c].step = "page"
    /\ Fails
    /\ scan' = Ended(c)
    /\ saved' = StateFile(channels)
    /\ FailOver
    /\ ScanFinished(c, FALSE, gatewayState')
    /\ UNCHANGED <<gateways, channels, polls, lib, calls, told>>

(* What the node returns for the range asked of it.                          *)
Served(c) ==
    {i \in OnChain(c) : i.slot \in scan[c].from..scan[c].to /\ i.slot <= lib[scan[c].node]}

(* extractItems: nothing above the height the scan was started with.         *)
Extracted(found, top) == {i \in found : i.slot <= top}

(* Faulty variant: only the page is searched for the id.                     *)
NewRowsPageOnly(items, found) ==
    {i \in found : \A j \in found : j.id = i.id => i.slot <= j.slot}

(* The rows appended: one per id, the earliest inscription of the page.      *)
NewRows(items, found) ==
    {i \in found : /\ \A r \in items : r.id # i.id
                   /\ \A j \in found : j.id = i.id => i.slot <= j.slot}

(* itemsDiscovered announces the new rows of a channel that has synced once. *)
Announced(c, rows) == IF c \in syncedOnce THEN {r.id : r \in rows} ELSE {}

PageReply(c) ==
    /\ c \in Scanning /\ scan[c].step = "page"
    /\ \E found \in {Served(c)} \cup (IF Malformed THEN {{}} ELSE {}) :
         LET rows == NewRows(channels[c].items, Extracted(found, scan[c].top))
             ch == [channels[c] EXCEPT !.items = @ \cup rows, !.cursor = scan[c].to]
         IN  /\ ScanNextPage(c, ch, scan[c].gw, scan[c].top, scan[c].left - 1)
             /\ told' = [CaughtUp(c, ch, scan[c].top) EXCEPT
                           ![c].noticed = @ \cup Announced(c, rows)]
    /\ UNCHANGED <<gateways, active, gatewayState, polls, outside>>

(***************************************************************************)
(* Health polls and the plugin's timers.                                   *)
(***************************************************************************)
InFlight == Cardinality({p \in Node \X (1..MaxPolls) : p[2] <= polls[p[1]]})

Poll(n) == polls' = [polls EXCEPT ![n] = @ + 1]

(* The ten-second timer.                                                     *)
HealthTick ==
    /\ InFlight < MaxPolls
    /\ Poll(gateways[active])
    /\ UNCHANGED <<gateways, active, gatewayState, channels, scan, pluginVars, saved, outside, told>>

PollFails(n) ==
    /\ polls[n] > 0 /\ Fails
    /\ polls' = [polls EXCEPT ![n] = @ - 1]
    /\ FailOver
    /\ UNCHANGED <<gateways, channels, scan, pluginVars, saved, lib, calls, told>>

PollReply(n) ==
    /\ polls[n] > 0
    /\ polls' = [polls EXCEPT ![n] = @ - 1]
    /\ gatewayState' \in {"ready", "degraded"}
    /\ UNCHANGED <<gateways, active, channels, scan, pluginVars, saved, outside, told>>

(* refreshChannel for every c of cs: nothing where a scan is under way.      *)
Refresh(cs) == scan' = Started(channels, cs \cap Followed)

(* Faulty variant: a degraded gateway is not scanned.                        *)
RefreshTickReadyOnly ==
    /\ gatewayState = "ready"
    /\ Refresh(Followed)
    /\ UNCHANGED <<gateways, active, gatewayState, channels, polls, pluginVars, saved, outside, told>>

(* The sixty-second timer refreshes every followed channel.                  *)
RefreshTick ==
    /\ gatewayState # "offline"
    /\ Refresh(Followed)
    /\ UNCHANGED <<gateways, active, gatewayState, channels, polls, pluginVars, saved, outside, told>>

(* The single shot that chains the capped scans of a long history.           *)
ChainedRefresh(c) ==
    /\ c \in chained
    /\ chained' = chained \ {c}
    /\ IF gatewayState # "offline" THEN Refresh({c}) ELSE UNCHANGED scan
    /\ UNCHANGED <<gateways, active, gatewayState, channels, polls, syncedOnce, saved, outside, told>>

(***************************************************************************)
(* The user's calls.                                                       *)
(***************************************************************************)
Call(op) == op \in Ops /\ calls < MaxCalls /\ calls' = calls + 1

Follow(c, hint) ==
    /\ Call("follow") /\ c \notin Followed
    /\ channels' = [d \in Followed \cup {c} |-> IF d = c THEN NewChannel(hint) ELSE channels[d]]
    /\ saved' = StateFile(channels')
    /\ scan' = Started(channels', {c})
    /\ told' = [told EXCEPT ![c] = NewTold(hint)]
    /\ UNCHANGED <<gateways, active, gatewayState, polls, pluginVars, lib, faults>>

(* Faulty variant: the scan of the channel is left running.                  *)
UnfollowLeavesScan(cs) ==
    /\ Call("unfollow") /\ cs # {} /\ cs \subseteq Followed
    /\ channels' = Restrict(channels, Followed \ cs)
    /\ saved' = StateFile(channels')
    /\ UNCHANGED <<gateways, active, gatewayState, scan, polls, pluginVars, lib, faults, told>>

(* unfollowChannel, and removeAllItems for the whole list: the scan's        *)
(* context is deleted and its replies with it.                               *)
Unfollow(cs) ==
    /\ Call("unfollow") /\ cs # {} /\ cs \subseteq Followed
    /\ channels' = Restrict(channels, Followed \ cs)
    /\ scan' = Restrict(scan, Scanning \ cs)
    /\ saved' = StateFile(channels')
    /\ UNCHANGED <<gateways, active, gatewayState, polls, pluginVars, lib, faults, told>>

UserRefresh(c) ==
    /\ Call("refresh") /\ c \in Followed \ Scanning
    /\ Refresh({c})
    /\ UNCHANGED <<gateways, active, gatewayState, channels, polls, pluginVars, saved, lib, faults, told>>

(* ArchivePlugin::setGateways: replace the list, save, poll.                 *)
SetGateways(list) ==
    /\ Call("gateways") /\ InFlight < MaxPolls
    /\ gateways' = list /\ active' = 1
    /\ saved' = [gateways |-> list, channels |-> channels]
    /\ Poll(list[1])
    /\ UNCHANGED <<gatewayState, channels, scan, pluginVars, lib, faults, told>>

RemoveItem(c, row) ==
    /\ Call("remove") /\ c \in Followed /\ row \in channels[c].items
    /\ channels' = [channels EXCEPT ![c].items = @ \ {row}]
    /\ saved' = StateFile(channels')
    /\ told' = [told EXCEPT ![c].removed = @ \cup {row.id}]
    /\ UNCHANGED <<gateways, active, gatewayState, scan, polls, pluginVars, lib, faults>>

(* Labels, auto-preserve, preserve mode and every final item state write the *)
(* whole file, cursors of unfinished scans included.                         *)
SaveState ==
    /\ saved' = StateFile(channels)
    /\ UNCHANGED <<lezVars, pluginVars, outside, told>>

(* The process dies and starts again: loadState.                             *)
Restart ==
    /\ Call("restart")
    /\ gateways' = saved.gateways /\ active' = 1 /\ gatewayState' = "offline"
    /\ channels' = saved.channels
    /\ scan' = <<>> /\ polls' = [n \in Node |-> 0]
    /\ syncedOnce' = {} /\ chained' = {}
    /\ UNCHANGED <<saved, lib, faults, told>>

Finalize(n) ==
    /\ lib[n] < MaxSlot
    /\ \E s \in lib[n] + 1 .. MaxSlot : lib' = [lib EXCEPT ![n] = s]
    /\ UNCHANGED <<lezVars, pluginVars, saved, calls, faults, told>>

(***************************************************************************)
(* The specification.                                                      *)
(***************************************************************************)
Init ==
    /\ gateways = FirstGateways /\ active = 1 /\ gatewayState = "offline"
    /\ channels = <<>> /\ scan = <<>> /\ polls = [n \in Node |-> 0]
    /\ syncedOnce = {} /\ chained = {}
    /\ saved = [gateways |-> gateways, channels |-> channels]
    /\ lib = [n \in Node |-> 0] /\ calls = 0 /\ faults = 0
    /\ told = [c \in Channel |-> NewTold(0)]

UserCall ==
    \/ \E c \in Channel, hint \in Hints : Follow(c, hint)
    \/ \E cs \in {{c} : c \in Followed} \cup {Followed} : Unfollow(cs)
    \/ \E c \in Channel : UserRefresh(c)
    \/ \E list \in OtherGateways : SetGateways(list)
    \/ \E c \in Followed : \E row \in channels[c].items : RemoveItem(c, row)

Reply(c) ==
    \/ ExplorerChannelReply(c) \/ ExplorerBlockReply(c)
    \/ InfoFails(c) \/ InfoReply(c)
    \/ PageFails(c) \/ PageReply(c)

PollEnds(n) == PollFails(n) \/ PollReply(n)

Next ==
    \/ UserCall \/ Restart \/ SaveState
    \/ \E c \in Channel : Reply(c) \/ ChainedRefresh(c)
    \/ \E n \in Node : PollEnds(n) \/ Finalize(n)
    \/ HealthTick \/ RefreshTick

Spec == Init /\ [][Next]_vars

(* Every request is answered or times out (kHttpTimeoutMs), the timers fire, *)
(* and the chain grows.  Nothing is assumed of the user, of crashes, or of   *)
(* which of its answers a node gives.                                        *)
Fairness ==
    /\ \A c \in Channel : WF_vars(Reply(c)) /\ WF_vars(ChainedRefresh(c))
    /\ \A n \in Node : WF_vars(PollEnds(n)) /\ WF_vars(Finalize(n))
    /\ WF_vars(HealthTick) /\ WF_vars(RefreshTick)

FairSpec == Spec /\ Fairness

(***************************************************************************)
(* Properties.                                                             *)
(***************************************************************************)
ChannelRecords ==
    [startSlot : Nat, cursor : 0..MaxSlot, synced : BOOLEAN, items : SUBSET Inscription]

ScanRecords ==
    [step : {"channel", "block", "info", "page"}, gw : Nat \ {0}, node : Node,
     top : 0..MaxSlot, left : 0..MaxPages, from : 0..MaxSlot, to : 0..MaxSlot]

(* The type invariant of the scanner.                                        *)
TypeOK ==
    /\ gateways \in Seq(Node) \ {<<>>} /\ active \in 1..Len(gateways)
    /\ gatewayState \in {"offline", "ready", "degraded"}
    /\ Followed \subseteq Channel /\ \A c \in Followed : channels[c] \in ChannelRecords
    /\ Scanning \subseteq Channel /\ \A c \in Scanning : scan[c] \in ScanRecords
    /\ polls \in [Node -> Nat]
    /\ syncedOnce \subseteq Channel /\ chained \subseteq Channel
    /\ saved.gateways \in Seq(Node) \ {<<>>}
    /\ DOMAIN saved.channels \subseteq Channel
    /\ \A c \in DOMAIN saved.channels : saved.channels[c] \in ChannelRecords
    /\ lib \in [Node -> 0..MaxSlot] /\ calls \in 0..MaxCalls /\ faults \in 0..MaxFaults

(* An inscription is accounted for when its id has a row, or the user has    *)
(* removed the row of that id since the channel was followed.                *)
AccountedFor(i, ch) == (\E r \in ch.items : r.id = i.id) \/ i.id \in told[i.channel].removed

(* Behind a channel's cursor nothing is missing: every inscription from the  *)
(* slot the user asked for up to the cursor has its row, whatever explorer   *)
(* hint, page cap, rotation of gateways, cancelled scan or crash came        *)
(* between.  (startScan's comment: "cursor advancement could silently skip   *)
(* inscriptions".)                                                           *)
NoneSkipped ==
    \A c \in Followed : \A i \in OnChain(c) :
        i.slot >= told[c].since /\ i.slot <= channels[c].cursor
            => AccountedFor(i, channels[c])

(* A scan belongs to a followed channel, and the page it waits for continues *)
(* that channel's cursor without gap or overlap and stays under the height   *)
(* the scan was started with: no reply of an earlier follow is applied (the  *)
(* Q_ASSERT of scanNextPage, and what the context object is for).            *)
ScanIsCurrent ==
    \A c \in Scanning :
        /\ c \in Followed
        /\ scan[c].step = "page" =>
             /\ scan[c].from = NextSlot(channels[c])
             /\ scan[c].from <= scan[c].to /\ scan[c].to <= scan[c].top

(* One row per item id, although an item may be inscribed again and a crash  *)
(* may make the scanner read a page a second time.                           *)
OneRowPerId ==
    \A c \in Followed : \A r, q \in channels[c].items : r.id = q.id => r = q

(* Failing over to a node that has finalised less never takes a channel      *)
(* back: the cursor in the state file only grows while the channel is        *)
(* followed, so what a restart resumes from is never behind an earlier save. *)
CursorNeverRetreats ==
    [][\A c \in DOMAIN saved.channels \cap DOMAIN saved'.channels :
         saved'.channels[c].cursor >= saved.channels[c].cursor]_vars

(* A fresh follow does not storm the user: an inscription is announced only  *)
(* for a channel that has reached the tip since it was followed              *)
(* (ArchivePlugin::m_syncedOnce).                                            *)
BackfillIsQuiet ==
    [][\A c \in Channel : told'[c].noticed \subseteq told[c].noticed \/ told[c].caughtUp]_vars

(* Seen from outside the scanner is a feed: at every moment a channel's list *)
(* is exactly what was inscribed from the slot asked for up to the cursor,   *)
(* less what the user removed, and the state file holds such a moment, so    *)
(* that a crash takes rows and cursor back together (scanNextPage appends    *)
(* the rows and moves the cursor in one handler, saveState writes both).     *)
Listing(chans) ==
    [c \in DOMAIN chans |-> [since |-> told[c].since, upTo |-> chans[c].cursor,
                             ids |-> {r.id : r \in chans[c].items}]]
Promise ==
    INSTANCE Feed WITH feed <- Listing(channels), backup <- Listing(saved.channels)
FeedsTheList == Promise!Spec

(* Every inscription of a followed channel is eventually listed, whatever    *)
(* finitely many failures, cancelled scans and page caps do.                 *)
EveryInscriptionIsListed ==
    \A i \in Inscription :
        (i.channel \in Followed /\ i.slot >= told[i.channel].since)
            ~> (i.channel \notin Followed \/ i.slot < told[i.channel].since
                  \/ AccountedFor(i, channels[i.channel]))

=============================================================================

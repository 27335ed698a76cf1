------------------------------ MODULE ScanProofs ------------------------------
(* Proofs about LezScan, for every value of its constants: whose reply a     *)
(* scan waits for, that no id has two rows, and that the saved cursor never  *)
(* retreats.                                                                 *)
EXTENDS LezScan, TLAPS, SequenceTheorems, WellFoundedInduction

-----------------------------------------------------------------------------
(* The parts of the invariant.                                               *)

OneRowEach(ch) == \A r, q \in ch.items : r.id = q.id => r = q

\* A table of followed channels, in memory or in the state file.
TableOK(chans) ==
    /\ DOMAIN chans \subseteq Channel
    /\ \A c \in DOMAIN chans : chans[c] \in ChannelRecords /\ OneRowEach(chans[c])

\* A request of a scan fits the channel it reads.
RequestOK(c, r, ch) ==
    /\ r \in ScanRecords
    /\ r.step = "page" =>
         r.from = NextSlot(ch) /\ r.from <= r.to /\ r.to <= r.top /\ r.left # 0
    /\ r.step = "block" => OnChain(c) # {}

ScansOK ==
    /\ Scanning \subseteq Followed
    /\ \A c \in Scanning : RequestOK(c, scan[c], channels[c])

\* The state file lists what is followed, and is not ahead of it.
FileOK ==
    /\ saved.gateways \in Seq(Node) \ {<<>>}
    /\ TableOK(saved.channels)
    /\ DOMAIN saved.channels = Followed
    /\ \A c \in Followed : saved.channels[c].cursor <= channels[c].cursor

GatewaysOK ==
    /\ gateways \in Seq(Node) \ {<<>>} /\ active \in 1..Len(gateways)
    /\ gatewayState \in {"offline", "ready", "degraded"}

RestOK ==
    /\ polls \in [Node -> Nat]
    /\ syncedOnce \subseteq Channel /\ chained \subseteq Channel
    /\ lib \in [Node -> 0..MaxSlot] /\ calls \in 0..MaxCalls /\ faults \in 0..MaxFaults

ScanInv == GatewaysOK /\ RestOK /\ TableOK(channels) /\ ScansOK /\ FileOK

\* The saved cursors of a step.
CursorsGrow ==
    \A c \in DOMAIN saved.channels \cap DOMAIN saved'.channels :
        saved'.channels[c].cursor >= saved.channels[c].cursor

-----------------------------------------------------------------------------
(* What keeps each part.                                                     *)

\* What is assumed of the constants, as the proofs use it.
LEMMA Bounds ==
    /\ MaxSlot \in Nat /\ PageSlots \in Nat \ {0} /\ MaxPages \in Nat \ {0}
    /\ \A i \in Inscription : i.channel \in Channel /\ i.slot \in 1..MaxSlot /\ i.id \in STRING
    /\ Hints \subseteq Nat /\ MaxCalls \in Nat /\ MaxFaults \in Nat /\ MaxPolls \in Nat \ {0}
BY ScanAssumption DEF ScanAssumption

\* The node a request is sent to is one of the list.
LEMMA AddressedNode ==
    ASSUME GatewaysOK, NEW gw \in Nat \ {0}
    PROVE  Addressed(gw) \in Node
<1>1. Len(gateways) \in Nat /\ \A k \in 1..Len(gateways) : gateways[k] \in Node
  BY LenProperties, ElementOfSeq DEF GatewaysOK
<1> QED
  BY <1>1 DEF Addressed, GatewaysOK

\* Every request but one for a page.
LEMMA SentRequest ==
    ASSUME GatewaysOK, NEW gw \in Nat \ {0}, NEW c, NEW ch,
           NEW step \in {"channel", "block", "info"}, step = "block" => OnChain(c) # {}
    PROVE  RequestOK(c, Request(step, gw), ch)
<1>1. Addressed(gw) \in Node
  BY AddressedNode
<1>2. 0 \in 0..MaxSlot /\ 0 \in 0..MaxPages
  BY Bounds
<1> QED
  BY <1>1, <1>2 DEF RequestOK, Request, ScanRecords

\* A page is asked for where the channel's cursor ends, and under the height.
LEMMA SentPage ==
    ASSUME GatewaysOK, NEW gw \in Nat \ {0}, NEW c, NEW ch \in ChannelRecords,
           NEW top \in 0..MaxSlot, NEW left \in 1..MaxPages, NextSlot(ch) <= top
    PROVE  RequestOK(c, PageRequest(gw, top, left, NextSlot(ch)), ch)
<1>1. Addressed(gw) \in Node
  BY AddressedNode
<1>2. NextSlot(ch) \in 0..MaxSlot /\ left \in 0..MaxPages /\ left # 0
  BY Bounds DEF NextSlot, ChannelRecords
<1> DEFINE from == NextSlot(ch)
           to == IF from + PageSlots - 1 < top THEN from + PageSlots - 1 ELSE top
           r == PageRequest(gw, top, left, from)
<1>3. to \in 0..MaxSlot /\ from <= to /\ to <= top
  BY <1>2, Bounds
<1>4. r = [step |-> "page", gw |-> gw, node |-> Addressed(gw), top |-> top, left |-> left,
           from |-> from, to |-> to]
  <2> DEFINE q == Request("page", gw)
  <2>1. r = [q EXCEPT !.top = top, !.left = left, !.from = from, !.to = to]
    BY DEF PageRequest
  <2>2. q = [step |-> "page", gw |-> gw, node |-> Addressed(gw),
             top |-> 0, left |-> 0, from |-> 0, to |-> 0]
    BY DEF Request
  <2> HIDE DEF r, to, from, q
  <2> QED
    BY <2>1, <2>2
<1> HIDE DEF r, to, from
<1>5. r \in ScanRecords
  BY <1>1, <1>2, <1>3, <1>4 DEF ScanRecords, from
<1>6. r.step = "page" /\ r.from = from /\ r.to = to /\ r.top = top /\ r.left = left
  BY <1>4
<1> QED
  BY <1>2, <1>3, <1>5, <1>6 DEF RequestOK, r, from

\* Scans go on as they were, or with a request that fits.
LEMMA ScansStep ==
    ASSUME ScansOK,
           \A c \in Scanning' :
               /\ c \in Followed'
               /\ \/ c \in Scanning /\ scan'[c] = scan[c] /\ channels'[c] = channels[c]
                  \/ RequestOK(c, scan'[c], channels'[c])
    PROVE  ScansOK'
BY DEF ScansOK

\* The file is left alone while the cursors move on, or written as the table is.
LEMMA FileStep ==
    ASSUME FileOK, TableOK(channels), TableOK(channels'), NEW list \in Seq(Node) \ {<<>>},
           \A c \in Followed \cap Followed' : channels[c].cursor <= channels'[c].cursor,
           \/ saved' = saved /\ Followed' = Followed
           \/ saved' = [gateways |-> list, channels |-> channels']
    PROVE  FileOK' /\ CursorsGrow
<1>1. \A c \in Followed : saved.channels[c].cursor \in Nat
  BY DEF FileOK, TableOK, ChannelRecords
<1>2. \A c \in Followed' : channels'[c].cursor \in Nat
  BY DEF TableOK, ChannelRecords, Followed
<1>3. \A c \in Followed : channels[c].cursor \in Nat
  BY DEF TableOK, ChannelRecords, Followed
<1>4. CASE saved' = saved /\ Followed' = Followed
  <2>1. \A c \in Followed : saved.channels[c].cursor <= channels'[c].cursor
    BY <1>1, <1>2, <1>3, <1>4 DEF FileOK
  <2> QED
    BY <1>1, <1>4, <2>1 DEF FileOK, CursorsGrow
<1>5. CASE saved' = [gateways |-> list, channels |-> channels']
  <2>1. saved'.gateways = list /\ saved'.channels = channels'
    BY <1>5
  <2>2. DOMAIN saved'.channels = Followed'
    BY <2>1 DEF Followed
  <2>3. \A c \in Followed \cap Followed' : saved.channels[c].cursor <= channels'[c].cursor
    BY <1>1, <1>2, <1>3 DEF FileOK
  <2> QED
    BY <1>1, <1>2, <2>1, <2>2, <2>3 DEF FileOK, CursorsGrow
<1> QED
  BY <1>4, <1>5

\* A table keeps its form when one channel is replaced by one that has it.
LEMMA TableStep ==
    ASSUME TableOK(channels), NEW c \in Followed, NEW ch \in ChannelRecords, OneRowEach(ch),
           channels' = [channels EXCEPT ![c] = ch]
    PROVE  /\ TableOK(channels') /\ Followed' = Followed /\ channels'[c] = ch
           /\ \A d \in Followed : d # c => channels'[d] = channels[d]
BY DEF TableOK, Followed

\* What a finished scan leaves the plugin with.
LEMMA FinishedStep ==
    ASSUME RestOK, NEW c \in Channel, NEW reachedLib, NEW state, ScanFinished(c, reachedLib, state)
    PROVE  syncedOnce' \subseteq Channel /\ chained' \subseteq Channel
BY DEF RestOK, ScanFinished

\* Marking a channel as synced, or not, leaves its rows and its cursor alone.
LEMMA SyncedSet ==
    ASSUME NEW ch \in ChannelRecords, NEW flag \in BOOLEAN
    PROVE  LET done == [ch EXCEPT !.synced = flag]
           IN  /\ done \in ChannelRecords
               /\ done.items = ch.items /\ done.cursor = ch.cursor
               /\ done.startSlot = ch.startSlot
BY DEF ChannelRecords

\* The next page is asked for, or the scan ends and what it did is saved.
LEMMA NextPageStep ==
    ASSUME ScanInv, NEW c \in Scanning, NEW ch \in ChannelRecords, OneRowEach(ch),
           channels[c].cursor <= ch.cursor, NEW gw \in Nat \ {0}, NEW top \in 0..MaxSlot,
           NEW left \in 0..MaxPages, ScanNextPage(c, ch, gw, top, left), UNCHANGED gateways
    PROVE  /\ TableOK(channels') /\ ScansOK' /\ FileOK' /\ CursorsGrow
           /\ syncedOnce' \subseteq Channel /\ chained' \subseteq Channel
<1> DEFINE from == NextSlot(ch)
           done == [ch EXCEPT !.synced = from > top]
<1>0. c \in Followed /\ c \in Channel
  BY DEF ScanInv, ScansOK, TableOK, Followed
<1>1. CASE from > top \/ left = 0
  <2>1. /\ channels' = [channels EXCEPT ![c] = done] /\ scan' = Ended(c)
        /\ saved' = StateFile(channels')
        /\ ScanFinished(c, from > top, gatewayState)
    BY <1>1 DEF ScanNextPage
  <2>2. done \in ChannelRecords /\ done.items = ch.items /\ done.cursor = ch.cursor
    <3>1. (from > top) \in BOOLEAN
      BY SMT
    <3> HIDE DEF from
    <3> QED
      BY <3>1, SyncedSet, Zenon
  <2>3. OneRowEach(done)
    BY <2>2 DEF OneRowEach
  <2> HIDE DEF done, from
  <2>4. /\ TableOK(channels') /\ Followed' = Followed /\ channels'[c] = done
        /\ \A d \in Followed : d # c => channels'[d] = channels[d]
    BY <1>0, <2>1, <2>2, <2>3, TableStep DEF ScanInv
  <2>5. ScansOK'
    BY <1>0, <2>1, <2>4, ScansStep DEF ScanInv, ScansOK, Ended, Restrict, Scanning
  <2>6. \A d \in Followed : channels[d].cursor <= channels'[d].cursor
    <3>1. \A d \in Followed : channels[d].cursor \in Nat
      BY DEF ScanInv, TableOK, Followed, ChannelRecords
    <3> QED
      BY <2>2, <2>4, <3>1
  <2>7. FileOK' /\ CursorsGrow
    <3>1. saved' = [gateways |-> gateways, channels |-> channels']
      BY <2>1 DEF StateFile
    <3> QED
      BY <2>4, <2>6, <3>1, FileStep DEF ScanInv, GatewaysOK
  <2>8. syncedOnce' \subseteq Channel /\ chained' \subseteq Channel
    BY <1>0, <2>1, FinishedStep DEF ScanInv
  <2> QED
    BY <2>4, <2>5, <2>7, <2>8
<1>2. CASE ~(from > top \/ left = 0)
  <2>1. /\ channels' = [channels EXCEPT ![c] = ch]
        /\ scan' = [scan EXCEPT ![c] = PageRequest(gw, top, left, from)]
        /\ UNCHANGED <<saved, syncedOnce, chained>>
    BY <1>2 DEF ScanNextPage
  <2>2. from <= top /\ left \in 1..MaxPages
    BY <1>2, Bounds DEF NextSlot, ChannelRecords
  <2>3. /\ TableOK(channels') /\ Followed' = Followed /\ channels'[c] = ch
        /\ \A d \in Followed : d # c => channels'[d] = channels[d]
    BY <1>0, <2>1, TableStep DEF ScanInv
  <2>4. RequestOK(c, PageRequest(gw, top, left, from), ch)
    BY <2>2, SentPage DEF ScanInv
  <2> HIDE DEF from
  <2>5. ScansOK'
    BY <1>0, <2>1, <2>3, <2>4, ScansStep DEF ScanInv, ScansOK, Scanning
  <2>6. \A d \in Followed : channels[d].cursor <= channels'[d].cursor
    <3>1. \A d \in Followed : channels[d].cursor \in Nat
      BY DEF ScanInv, TableOK, Followed, ChannelRecords
    <3> QED
      BY <2>3, <3>1
  <2>7. FileOK' /\ CursorsGrow
    BY <2>1, <2>3, <2>6, FileStep DEF ScanInv, GatewaysOK
  <2> QED
    BY <2>1, <2>3, <2>5, <2>7 DEF ScanInv, RestOK
<1> QED
  BY <1>1, <1>2

-----------------------------------------------------------------------------
(* Steps that leave the channels and the state file alone.                   *)

\* What the invariant says of one channel and of one scan.
LEMMA TypesOfScanInv ==
    ASSUME ScanInv
    PROVE  /\ GatewaysOK /\ RestOK /\ TableOK(channels) /\ ScansOK /\ FileOK
           /\ active \in Nat \ {0}
           /\ \A c \in Followed : /\ c \in Channel /\ channels[c] \in ChannelRecords
                                  /\ channels[c].cursor \in Nat
                                  /\ OneRowEach(channels[c])
           /\ \A c \in Scanning : /\ c \in Followed /\ c \in Channel
                                  /\ scan[c] \in ScanRecords /\ scan[c].gw \in Nat \ {0}
                                  /\ RequestOK(c, scan[c], channels[c])
<1>1. active \in Nat \ {0}
  BY LenProperties DEF ScanInv, GatewaysOK
<1>2. \A c \in Followed : /\ c \in Channel /\ channels[c] \in ChannelRecords
                          /\ channels[c].cursor \in Nat /\ OneRowEach(channels[c])
  BY DEF ScanInv, TableOK, Followed, ChannelRecords
<1>3. \A c \in Scanning : c \in Followed /\ RequestOK(c, scan[c], channels[c])
  BY DEF ScanInv, ScansOK
<1>4. \A c \in Scanning : scan[c] \in ScanRecords /\ scan[c].gw \in Nat \ {0}
  BY <1>3 DEF RequestOK, ScanRecords
<1> QED
  BY <1>1, <1>2, <1>3, <1>4 DEF ScanInv

\* The channels stay as they are, and the state file too or as they are.
LEMMA QuietStep ==
    ASSUME ScanInv, GatewaysOK', RestOK', ScansOK', UNCHANGED channels,
           saved' = saved \/ saved' = StateFile(channels)
    PROVE  ScanInv' /\ CursorsGrow
<1>1. TableOK(channels') /\ Followed' = Followed
  BY DEF ScanInv, TableOK, Followed
<1>2. \A c \in Followed : channels[c].cursor <= channels'[c].cursor
  BY TypesOfScanInv
<1>3. saved' = saved \/ saved' = [gateways |-> gateways, channels |-> channels']
  BY DEF StateFile
<1>4. FileOK' /\ CursorsGrow
  BY <1>1, <1>2, <1>3, FileStep DEF ScanInv, GatewaysOK
<1> QED
  BY <1>1, <1>4 DEF ScanInv, TableOK

\* Failing over stays on the list.
LEMMA FailOverStep ==
    ASSUME GatewaysOK, FailOver, UNCHANGED gateways
    PROVE  GatewaysOK'
<1>1. Len(gateways) \in Nat \ {0} /\ active \in Nat
  BY EmptySeq, LenProperties DEF GatewaysOK
<1>2. (active % Len(gateways)) + 1 \in 1..Len(gateways)
  BY <1>1
<1> QED
  BY <1>2 DEF GatewaysOK, FailOver

\* The counters stay under their bounds.
LEMMA Counted ==
    ASSUME RestOK
    PROVE  /\ calls' = calls \/ (calls < MaxCalls /\ calls' = calls + 1)
                => calls' \in 0..MaxCalls
           /\ faults' = faults \/ (faults < MaxFaults /\ faults' = faults + 1)
                => faults' \in 0..MaxFaults
BY Bounds DEF RestOK

\* Polls, their answers, and the chain.
LEMMA PollStep ==
    ASSUME ScanInv,
           \/ HealthTick
           \/ \E n \in Node : PollEnds(n) \/ Finalize(n)
    PROVE  ScanInv' /\ CursorsGrow
<1>1. UNCHANGED <<gateways, channels, scan, saved, syncedOnce, chained>>
  BY DEF HealthTick, PollEnds, PollFails, PollReply, Finalize, lezVars, pluginVars
<1>2. ScansOK'
  BY <1>1 DEF ScanInv, ScansOK, Scanning, Followed
<1>3. GatewaysOK'
  <2>1. CASE UNCHANGED <<active, gatewayState>>
    BY <1>1, <2>1 DEF ScanInv, GatewaysOK
  <2>2. CASE FailOver
    BY <1>1, <2>2, FailOverStep DEF ScanInv
  <2>3. CASE active' = active /\ gatewayState' \in {"ready", "degraded"}
    BY <1>1, <2>3 DEF ScanInv, GatewaysOK
  <2> QED
    BY <2>1, <2>2, <2>3 DEF HealthTick, PollEnds, PollFails, PollReply, Finalize, lezVars
<1>4. RestOK'
  <2>0. /\ polls \in [Node -> Nat] /\ lib \in [Node -> 0..MaxSlot]
        /\ calls \in 0..MaxCalls /\ faults \in 0..MaxFaults
    BY DEF ScanInv, RestOK
  <2>1. CASE HealthTick
    <3>1. gateways[active] \in Node
      BY LenProperties, ElementOfSeq DEF ScanInv, GatewaysOK
    <3> QED
      BY <1>1, <2>0, <2>1, <3>1 DEF ScanInv, RestOK, HealthTick, Poll, outside
  <2>2. ASSUME NEW n \in Node, PollEnds(n) PROVE RestOK'
    BY <1>1, <2>0, <2>2, Bounds
       DEF ScanInv, RestOK, PollEnds, PollFails, PollReply, Fails, outside
  <2>3. ASSUME NEW n \in Node, Finalize(n) PROVE RestOK'
    BY <1>1, <2>0, <2>3, Bounds DEF ScanInv, RestOK, Finalize, lezVars
  <2> QED
    BY <2>1, <2>2, <2>3
<1> QED
  BY <1>1, <1>2, <1>3, <1>4, QuietStep

\* New scans start with a request that fits.
LEMMA StartedStep ==
    ASSUME ScanInv, NEW cs, cs \subseteq Followed', scan' = Started(channels', cs),
           \A c \in Followed : c \in Followed' /\ channels'[c] = channels[c]
    PROVE  ScansOK'
<1>1. /\ Scanning' = Scanning \cup cs
      /\ \A c \in Scanning : scan'[c] = scan[c]
      /\ \A c \in cs \ Scanning : scan'[c] = FirstRequest(channels'[c])
  BY DEF Started, Scanning
<1>2. ASSUME NEW c \in cs
      PROVE  RequestOK(c, FirstRequest(channels'[c]), channels'[c])
  <2>1. \E step \in {"channel", "info"} : FirstRequest(channels'[c]) = Request(step, active)
    BY DEF FirstRequest
  <2> QED
    BY <2>1, SentRequest, TypesOfScanInv
<1> QED
  BY <1>1, <1>2, ScansStep, TypesOfScanInv

\* A scan that ends leaves the others alone.
LEMMA EndedStep ==
    ASSUME ScanInv, NEW c, scan' = Ended(c), UNCHANGED channels
    PROVE  ScansOK'
BY ScansStep, TypesOfScanInv DEF Ended, Restrict, Scanning, Followed

\* Timers and the user start scans.
LEMMA RefreshStep ==
    ASSUME ScanInv,
           RefreshTick \/ \E c \in Channel : ChainedRefresh(c) \/ UserRefresh(c)
    PROVE  ScanInv' /\ CursorsGrow
<1>1. /\ UNCHANGED <<gateways, active, gatewayState, channels, polls, syncedOnce, saved, lib,
                     faults>>
      /\ chained' \subseteq chained
      /\ calls' = calls \/ (calls < MaxCalls /\ calls' = calls + 1)
  BY DEF RefreshTick, ChainedRefresh, UserRefresh, Call, pluginVars, outside
<1>2. ScansOK'
  <2>1. CASE UNCHANGED scan
    BY <1>1, <2>1 DEF ScanInv, ScansOK, Scanning, Followed
  <2>2. ASSUME NEW cs, Refresh(cs) PROVE ScansOK'
    <3>1. scan' = Started(channels', cs \cap Followed)
      BY <1>1, <2>2 DEF Refresh
    <3> QED
      BY <1>1, <3>1, StartedStep DEF Followed
  <2> QED
    BY <2>1, <2>2 DEF RefreshTick, ChainedRefresh, UserRefresh
<1>3. GatewaysOK' /\ RestOK'
  BY <1>1, Counted DEF ScanInv, GatewaysOK, RestOK
<1> QED
  BY <1>1, <1>2, <1>3, QuietStep

\* A request that fails ends its scan and rotates the list.
LEMMA RequestFailsStep ==
    ASSUME ScanInv, NEW c \in Channel, InfoFails(c) \/ PageFails(c)
    PROVE  ScanInv' /\ CursorsGrow
<1>1. /\ UNCHANGED <<gateways, channels, polls, lib, calls>> /\ scan' = Ended(c) /\ FailOver
      /\ ScanFinished(c, FALSE, gatewayState')
      /\ faults' = faults \/ (faults < MaxFaults /\ faults' = faults + 1)
      /\ saved' = saved \/ saved' = StateFile(channels)
  BY DEF InfoFails, PageFails, Fails
<1>2. syncedOnce' \subseteq Channel /\ chained' \subseteq Channel
  BY <1>1, FinishedStep DEF ScanInv
<1>3. RestOK'
  BY <1>1, <1>2, Counted DEF ScanInv, RestOK
<1> QED
  BY <1>1, <1>3, EndedStep, FailOverStep, QuietStep DEF ScanInv

\* Any save of the plugin.
LEMMA SaveStateStep ==
    ASSUME ScanInv, SaveState
    PROVE  ScanInv' /\ CursorsGrow
<1>1. /\ UNCHANGED <<gateways, active, gatewayState, channels, scan, polls, syncedOnce,
                     chained, lib, calls, faults>>
      /\ saved' = StateFile(channels)
  BY DEF SaveState, lezVars, pluginVars, outside
<1> QED
  BY <1>1, QuietStep DEF ScanInv, GatewaysOK, RestOK, ScansOK, Scanning, Followed

\* The explorer knows the channel, or not.
LEMMA ExplorerChannelStep ==
    ASSUME ScanInv, NEW c \in Channel, ExplorerChannelReply(c)
    PROVE  ScanInv' /\ CursorsGrow
<1>1. UNCHANGED <<gateways, active, gatewayState, channels, polls, syncedOnce, chained, saved,
                  lib, calls, faults>>
  BY DEF ExplorerChannelReply, pluginVars, outside
<1>2. c \in Scanning /\ scan[c] \in ScanRecords /\ scan[c].gw \in Nat \ {0}
  BY TypesOfScanInv DEF ExplorerChannelReply
<1>3. PICK r : scan' = [scan EXCEPT ![c] = r] /\ RequestOK(c, r, channels[c])
  <2>1. CASE OnChain(c) # {} /\ scan' = [scan EXCEPT ![c].step = "block"]
    <3>1. RequestOK(c, [scan[c] EXCEPT !.step = "block"], channels[c])
      BY <1>2, <2>1 DEF RequestOK, ScanRecords
    <3> QED
      BY <2>1, <3>1
  <2>2. CASE scan' = [scan EXCEPT ![c] = Request("info", scan[c].gw)]
    BY <1>2, <2>2, SentRequest DEF ScanInv
  <2> QED
    BY <2>1, <2>2 DEF ExplorerChannelReply
<1>4. ScansOK'
  BY <1>1, <1>2, <1>3, ScansStep, TypesOfScanInv DEF Scanning, Followed
<1> QED
  BY <1>1, <1>4, QuietStep DEF ScanInv, GatewaysOK, RestOK

-----------------------------------------------------------------------------
(* Steps that change the channels.                                           *)

\* A channel that is on the chain has a first slot there.
LEMMA FirstSeenIs ==
    ASSUME NEW c, OnChain(c) # {}
    PROVE  FirstSeen(c) \in 1..MaxSlot /\ \A i \in OnChain(c) : FirstSeen(c) <= i.slot
<1> DEFINE S == {i.slot : i \in OnChain(c)}
<1>1. S \subseteq Nat /\ S # {}
  BY Bounds DEF OnChain
<1>2. \A s \in S : s \in 1..MaxSlot
  BY Bounds DEF OnChain
<1> HIDE DEF S
<1>3. PICK s \in S : \A t \in S : ~(<<t, s>> \in OpToRel(<, Nat))
  BY <1>1, NatLessThanWellFounded, WFMin
<1>4. \A t \in S : s <= t
  <2>1. \A t \in Nat : t < s => <<t, s>> \in OpToRel(<, Nat)
    BY <1>1 DEF OpToRel
  <2>2. \A t \in S : ~(t < s)
    BY <1>1, <1>3, <2>1
  <2> QED
    BY <1>1, <2>2
<1>5. \A i \in OnChain(c) : s <= i.slot
  BY <1>4 DEF S
<1>6. FirstSeen(c) \in S /\ \A i \in OnChain(c) : FirstSeen(c) <= i.slot
  BY <1>3, <1>5 DEF FirstSeen, S
<1> QED
  BY <1>2, <1>6

\* One channel is replaced by a record that is no less far, its scan starts over.
LEMMA ExplorerBlockStep ==
    ASSUME ScanInv, NEW c \in Channel, ExplorerBlockReply(c)
    PROVE  ScanInv' /\ CursorsGrow
<1>1. /\ UNCHANGED <<gateways, active, gatewayState, polls, syncedOnce, chained, lib, calls, faults>>
      /\ scan' = [scan EXCEPT ![c] = Request("info", scan[c].gw)]
  BY DEF ExplorerBlockReply, pluginVars, outside
<1>2. c \in Scanning /\ c \in Followed /\ scan[c].gw \in Nat \ {0} /\ OnChain(c) # {}
  BY TypesOfScanInv DEF ExplorerBlockReply, RequestOK
<1>3. CASE UNCHANGED <<channels, saved>>
  <2>1. RequestOK(c, Request("info", scan[c].gw), channels'[c])
    BY <1>2, SentRequest DEF ScanInv
  <2>2. ScansOK'
    BY <1>1, <1>2, <1>3, <2>1, ScansStep, TypesOfScanInv DEF Scanning, Followed
  <2> QED
    BY <1>1, <1>3, <2>2, QuietStep DEF ScanInv, GatewaysOK, RestOK
<1>4. CASE /\ channels' = [channels EXCEPT ![c].startSlot = FirstSeen(c)]
           /\ saved' = StateFile(channels')
  <2> DEFINE ch == [channels[c] EXCEPT !.startSlot = FirstSeen(c)]
  <2>1. /\ ch \in ChannelRecords /\ ch.items = channels[c].items
        /\ ch.cursor = channels[c].cursor
    BY <1>2, FirstSeenIs, TypesOfScanInv DEF ChannelRecords
  <2>2. OneRowEach(ch) /\ channels' = [channels EXCEPT ![c] = ch]
    BY <1>2, <1>4, <2>1, TypesOfScanInv DEF OneRowEach
  <2> HIDE DEF ch
  <2>3. /\ TableOK(channels') /\ Followed' = Followed /\ channels'[c] = ch
        /\ \A d \in Followed : d # c => channels'[d] = channels[d]
    BY <1>2, <2>1, <2>2, TableStep DEF ScanInv
  <2>4. RequestOK(c, Request("info", scan[c].gw), channels'[c])
    BY <1>2, SentRequest DEF ScanInv
  <2>5. ScansOK'
    BY <1>1, <1>2, <2>3, <2>4, ScansStep, TypesOfScanInv DEF Scanning
  <2>6. \A d \in Followed : channels[d].cursor <= channels'[d].cursor
    BY <2>1, <2>3, TypesOfScanInv
  <2>7. FileOK' /\ CursorsGrow
    BY <1>4, <2>3, <2>6, FileStep DEF ScanInv, GatewaysOK, StateFile
  <2> QED
    BY <1>1, <2>3, <2>5, <2>7 DEF ScanInv, GatewaysOK, RestOK
<1> QED
  BY <1>3, <1>4 DEF ExplorerBlockReply

\* The node tells its height, and the pages begin.
LEMMA InfoReplyStep ==
    ASSUME ScanInv, NEW c \in Channel, InfoReply(c)
    PROVE  ScanInv' /\ CursorsGrow
<1>1. UNCHANGED <<gateways, active, gatewayState, polls, lib, calls, faults>>
  BY DEF InfoReply, outside
<1>2. /\ c \in Scanning /\ c \in Followed /\ scan[c].gw \in Nat \ {0}
      /\ scan[c].node \in Node
  BY TypesOfScanInv DEF InfoReply, ScanRecords
<1>3. /\ TableOK(channels') /\ ScansOK' /\ FileOK' /\ CursorsGrow
      /\ syncedOnce' \subseteq Channel /\ chained' \subseteq Channel
  <2>1. lib[scan[c].node] \in 0..MaxSlot /\ MaxPages \in 0..MaxPages
    BY <1>2, Bounds DEF ScanInv, RestOK
  <2>2. channels[c].cursor <= channels[c].cursor
    BY <1>2, TypesOfScanInv
  <2>3. ScanNextPage(c, channels[c], scan[c].gw, lib[scan[c].node], MaxPages)
    BY DEF InfoReply
  <2> QED
    BY <1>1, <1>2, <2>1, <2>2, <2>3, NextPageStep, TypesOfScanInv
<1> QED
  BY <1>1, <1>3 DEF ScanInv, GatewaysOK, RestOK

\* A channel after a page up to slot "to" that held the inscriptions found.
Appended(ch, found, to) ==
    [ch EXCEPT !.items = @ \cup NewRows(ch.items, found), !.cursor = to]

\* The rows a page appends keep one row per id, and are the channel's own.
LEMMA NewRowsAre ==
    ASSUME NEW c \in Channel, NEW ch \in ChannelRecords, OneRowEach(ch), NEW found \in SUBSET OnChain(c),
           NEW to \in 0..MaxSlot
    PROVE  /\ Appended(ch, found, to) \in ChannelRecords /\ OneRowEach(Appended(ch, found, to))
           /\ Appended(ch, found, to).items = ch.items \cup NewRows(ch.items, found)
           /\ Appended(ch, found, to).cursor = to
           /\ Appended(ch, found, to).startSlot = ch.startSlot
<1> DEFINE rows == NewRows(ch.items, found)
           new == Appended(ch, found, to)
<1>1. rows \subseteq Inscription
  BY DEF NewRows, OnChain
<1>2. ch.items \subseteq Inscription
  BY DEF ChannelRecords
<1>3. /\ new \in ChannelRecords /\ new.items = ch.items \cup rows /\ new.cursor = to
      /\ new.startSlot = ch.startSlot
  <2>1. new = [ch EXCEPT !.items = ch.items \cup rows, !.cursor = to]
    BY DEF Appended
  <2> HIDE DEF rows, new
  <2>2. /\ ch.startSlot \in Nat /\ ch.synced \in BOOLEAN
        /\ ch = [startSlot |-> ch.startSlot, cursor |-> ch.cursor, synced |-> ch.synced,
                items |-> ch.items]
    BY DEF ChannelRecords
  <2>3. new = [startSlot |-> ch.startSlot, cursor |-> to, synced |-> ch.synced,
               items |-> ch.items \cup rows]
    BY <2>1, <2>2
  <2>4. ch.items \cup rows \in SUBSET Inscription
    BY <1>1, <1>2
  <2> QED
    BY <2>2, <2>3, <2>4 DEF ChannelRecords
<1>4. \A r, q \in rows : r.id = q.id => r = q
  <2>1. TAKE r, q \in rows
  <2>2. HAVE r.id = q.id
  <2>3. r \in found /\ q \in found /\ r.slot <= q.slot /\ q.slot <= r.slot
    BY <2>2 DEF NewRows
  <2>4. /\ r \in [channel : Channel, slot : 1..MaxSlot, id : STRING] /\ r.channel = c
        /\ q \in [channel : Channel, slot : 1..MaxSlot, id : STRING] /\ q.channel = c
    BY <2>3, ScanAssumption DEF ScanAssumption, OnChain
  <2>5. r.slot = q.slot
    BY <2>3, <2>4, Bounds
  <2> QED
    BY <2>2, <2>4, <2>5
<1>5. \A r \in ch.items, q \in rows : r.id # q.id
  BY DEF NewRows
<1>6. OneRowEach(new)
  <2> HIDE DEF rows, new
  <2> QED
    BY <1>3, <1>4, <1>5 DEF OneRowEach
<1> QED
  BY <1>3, <1>6

\* A page answers: its rows are appended, the cursor moves to its end.
LEMMA PageReplyStep ==
    ASSUME ScanInv, NEW c \in Channel, PageReply(c)
    PROVE  ScanInv' /\ CursorsGrow
<1>1. UNCHANGED <<gateways, active, gatewayState, polls, lib, calls, faults>>
  BY DEF PageReply, outside
<1>2. c \in Scanning /\ scan[c].step = "page"
  BY DEF PageReply
<1>3. /\ c \in Followed /\ scan[c] \in ScanRecords
      /\ scan[c].from = NextSlot(channels[c]) /\ scan[c].from <= scan[c].to
      /\ scan[c].left # 0
  BY <1>2, TypesOfScanInv DEF RequestOK
<1>4. /\ scan[c].gw \in Nat \ {0} /\ scan[c].top \in 0..MaxSlot /\ scan[c].to \in 0..MaxSlot
      /\ scan[c].left - 1 \in 0..MaxPages
  BY <1>3, Bounds DEF ScanRecords
<1>5. channels[c].cursor <= scan[c].to
  <2>1. channels[c].cursor \in Nat /\ channels[c].startSlot \in Nat
    BY <1>3, TypesOfScanInv DEF ChannelRecords
  <2> QED
    BY <1>3, <1>4, <2>1, Bounds DEF NextSlot
<1>6. PICK found \in {Served(c)} \cup (IF Malformed THEN {{}} ELSE {}) :
         ScanNextPage(c, Appended(channels[c], Extracted(found, scan[c].top), scan[c].to),
                      scan[c].gw, scan[c].top, scan[c].left - 1)
  <2>1. PICK f \in {Served(c)} \cup (IF Malformed THEN {{}} ELSE {}) :
          LET rows == NewRows(channels[c].items, Extracted(f, scan[c].top))
              ch == [channels[c] EXCEPT !.items = @ \cup rows, !.cursor = scan[c].to]
          IN  ScanNextPage(c, ch, scan[c].gw, scan[c].top, scan[c].left - 1)
    BY Zenon DEF PageReply
  <2> QED
    BY <2>1, Zenon DEF Appended
<1> DEFINE ch == Appended(channels[c], Extracted(found, scan[c].top), scan[c].to)
<1>7. Extracted(found, scan[c].top) \subseteq OnChain(c)
  BY DEF Extracted, Served
<1>8. ch \in ChannelRecords /\ OneRowEach(ch) /\ ch.cursor = scan[c].to
  <2>1. channels[c] \in ChannelRecords /\ OneRowEach(channels[c])
    BY <1>3, TypesOfScanInv
  <2> DEFINE F == Extracted(found, scan[c].top)
             old == channels[c]
             to == scan[c].to
  <2>2. /\ c \in Channel /\ to \in 0..MaxSlot /\ F \in SUBSET OnChain(c)
        /\ old \in ChannelRecords /\ OneRowEach(old)
    BY <1>4, <1>7, <2>1
  <2> HIDE DEF F, old, to
  <2>3. /\ Appended(old, F, to) \in ChannelRecords /\ OneRowEach(Appended(old, F, to))
        /\ Appended(old, F, to).cursor = to
    BY ONLY <2>2, NewRowsAre
  <2> QED
    BY <2>3 DEF F, old, to
<1>9. ScanNextPage(c, ch, scan[c].gw, scan[c].top, scan[c].left - 1)
  BY <1>6
<1> HIDE DEF ch
<1>10. /\ TableOK(channels') /\ ScansOK' /\ FileOK' /\ CursorsGrow
       /\ syncedOnce' \subseteq Channel /\ chained' \subseteq Channel
  BY <1>1, <1>2, <1>4, <1>5, <1>8, <1>9, NextPageStep
<1> QED
  BY <1>1, <1>10 DEF ScanInv, GatewaysOK, RestOK

\* A new follow: a fresh channel and its first request.
LEMMA FollowStep ==
    ASSUME ScanInv, NEW c \in Channel, NEW hint \in Hints, Follow(c, hint)
    PROVE  ScanInv' /\ CursorsGrow
<1>1. /\ UNCHANGED <<gateways, active, gatewayState, polls, syncedOnce, chained, lib, faults>>
      /\ c \notin Followed /\ calls < MaxCalls /\ calls' = calls + 1
      /\ channels' = [d \in Followed \cup {c} |-> IF d = c THEN NewChannel(hint) ELSE channels[d]]
      /\ saved' = StateFile(channels') /\ scan' = Started(channels', {c})
  BY DEF Follow, Call, pluginVars
<1>2. NewChannel(hint) \in ChannelRecords /\ OneRowEach(NewChannel(hint))
  BY Bounds DEF NewChannel, ChannelRecords, OneRowEach
<1>3. /\ Followed' = Followed \cup {c} /\ channels'[c] = NewChannel(hint)
      /\ \A d \in Followed : channels'[d] = channels[d]
  BY <1>1 DEF Followed
<1>4. TableOK(channels')
  BY <1>2, <1>3, TypesOfScanInv DEF TableOK, Followed
<1>5. ScansOK'
  BY <1>1, <1>3, StartedStep
<1>6. FileOK' /\ CursorsGrow
  <2>1. \A d \in Followed : channels[d].cursor <= channels'[d].cursor
    BY <1>3, TypesOfScanInv
  <2>2. saved' = [gateways |-> gateways, channels |-> channels']
    BY <1>1 DEF StateFile
  <2> QED
    BY <1>4, <2>1, <2>2, FileStep DEF ScanInv, GatewaysOK
<1>7. GatewaysOK' /\ RestOK'
  BY <1>1, Counted DEF ScanInv, GatewaysOK, RestOK
<1> QED
  BY <1>4, <1>5, <1>6, <1>7 DEF ScanInv

\* Unfollowed channels leave with their scans.
LEMMA UnfollowStep ==
    ASSUME ScanInv, NEW cs, Unfollow(cs)
    PROVE  ScanInv' /\ CursorsGrow
<1>1. /\ UNCHANGED <<gateways, active, gatewayState, polls, syncedOnce, chained, lib, faults>>
      /\ calls < MaxCalls /\ calls' = calls + 1
      /\ channels' = Restrict(channels, Followed \ cs) /\ scan' = Restrict(scan, Scanning \ cs)
      /\ saved' = StateFile(channels')
  BY DEF Unfollow, Call, pluginVars
<1>2. Followed' = Followed \ cs /\ \A d \in Followed' : channels'[d] = channels[d]
  BY <1>1 DEF Followed, Restrict
<1>3. Scanning' = Scanning \ cs /\ \A d \in Scanning' : scan'[d] = scan[d]
  BY <1>1 DEF Scanning, Restrict
<1>4. TableOK(channels')
  BY <1>2, TypesOfScanInv DEF TableOK, Followed
<1>5. ScansOK'
  BY <1>2, <1>3, ScansStep, TypesOfScanInv
<1>6. FileOK' /\ CursorsGrow
  <2>1. \A d \in Followed \cap Followed' : channels[d].cursor <= channels'[d].cursor
    BY <1>2, TypesOfScanInv
  <2>2. saved' = [gateways |-> gateways, channels |-> channels']
    BY <1>1 DEF StateFile
  <2> QED
    BY <1>4, <2>1, <2>2, FileStep DEF ScanInv, GatewaysOK
<1>7. GatewaysOK' /\ RestOK'
  BY <1>1, Counted DEF ScanInv, GatewaysOK, RestOK
<1> QED
  BY <1>4, <1>5, <1>6, <1>7 DEF ScanInv

\* A new list starts at its first node, and is saved at once.
LEMMA SetGatewaysStep ==
    ASSUME ScanInv, NEW list \in OtherGateways, SetGateways(list)
    PROVE  ScanInv' /\ CursorsGrow
<1>1. /\ UNCHANGED <<gatewayState, channels, scan, syncedOnce, chained, lib, faults>>
      /\ calls < MaxCalls /\ calls' = calls + 1
      /\ gateways' = list /\ active' = 1
      /\ saved' = [gateways |-> list, channels |-> channels']
      /\ polls' = [polls EXCEPT ![list[1]] = @ + 1]
  BY DEF SetGateways, Call, Poll, pluginVars
<1>2. list \in Seq(Node) \ {<<>>}
  BY ScanAssumption DEF ScanAssumption
<1>3. 1 \in 1..Len(list) /\ list[1] \in Node
  BY <1>2, EmptySeq, LenProperties, ElementOfSeq
<1>4. GatewaysOK'
  BY <1>1, <1>2, <1>3 DEF ScanInv, GatewaysOK
<1>5. RestOK'
  BY <1>1, <1>3, Counted DEF ScanInv, RestOK
<1>6. TableOK(channels') /\ ScansOK' /\ Followed' = Followed
  BY <1>1 DEF ScanInv, ScansOK, TableOK, Scanning, Followed
<1>7. FileOK' /\ CursorsGrow
  BY <1>1, <1>2, <1>6, FileStep, TypesOfScanInv
<1> QED
  BY <1>4, <1>5, <1>6, <1>7 DEF ScanInv

\* A row the user removes.
LEMMA RemoveItemStep ==
    ASSUME ScanInv, NEW c \in Followed, NEW row, RemoveItem(c, row)
    PROVE  ScanInv' /\ CursorsGrow
<1> DEFINE ch == [channels[c] EXCEPT !.items = @ \ {row}]
<1>1. /\ UNCHANGED <<gateways, active, gatewayState, scan, polls, syncedOnce, chained, lib, faults>>
      /\ calls < MaxCalls /\ calls' = calls + 1
      /\ channels' = [channels EXCEPT ![c] = ch] /\ saved' = StateFile(channels')
  BY DEF RemoveItem, Call, pluginVars
<1>2. /\ ch \in ChannelRecords /\ ch.items = channels[c].items \ {row}
      /\ ch.cursor = channels[c].cursor /\ ch.startSlot = channels[c].startSlot
  BY TypesOfScanInv DEF ChannelRecords
<1> HIDE DEF ch
<1>3. OneRowEach(ch)
  BY <1>2, TypesOfScanInv DEF OneRowEach
<1>4. /\ TableOK(channels') /\ Followed' = Followed /\ channels'[c] = ch
      /\ \A d \in Followed : d # c => channels'[d] = channels[d]
  BY <1>1, <1>2, <1>3, TableStep DEF ScanInv
<1>5. ScansOK'
  <2>1. NextSlot(channels'[c]) = NextSlot(channels[c])
    BY <1>2, <1>4 DEF NextSlot
  <2> QED
    BY <1>1, <1>4, <2>1, ScansStep, TypesOfScanInv DEF Scanning, RequestOK
<1>6. FileOK' /\ CursorsGrow
  <2>1. \A d \in Followed : channels[d].cursor <= channels'[d].cursor
    BY <1>2, <1>4, TypesOfScanInv
  <2> QED
    BY <1>1, <1>4, <2>1, FileStep, TypesOfScanInv DEF GatewaysOK, StateFile
<1>7. GatewaysOK' /\ RestOK'
  BY <1>1, Counted DEF ScanInv, GatewaysOK, RestOK
<1> QED
  BY <1>4, <1>5, <1>6, <1>7 DEF ScanInv

\* A restart reads the table and the list of the state file.
LEMMA RestartStep ==
    ASSUME ScanInv, Restart
    PROVE  ScanInv' /\ CursorsGrow
<1>1. /\ UNCHANGED <<saved, lib, faults>> /\ calls < MaxCalls /\ calls' = calls + 1
      /\ gateways' = saved.gateways /\ active' = 1 /\ gatewayState' = "offline"
      /\ channels' = saved.channels /\ scan' = <<>> /\ polls' = [n \in Node |-> 0]
      /\ syncedOnce' = {} /\ chained' = {}
  BY DEF Restart, Call
<1>2. GatewaysOK'
  <2>1. 1 \in 1..Len(saved.gateways) /\ saved.gateways \in Seq(Node) \ {<<>>}
    BY EmptySeq, LenProperties DEF ScanInv, FileOK
  <2> QED
    BY <1>1, <2>1 DEF GatewaysOK
<1>3. RestOK'
  BY <1>1, Counted DEF ScanInv, RestOK
<1>4. TableOK(channels') /\ ScansOK'
  BY <1>1 DEF ScanInv, FileOK, TableOK, ScansOK, Scanning
<1>5. FileOK' /\ CursorsGrow
  BY <1>1 DEF ScanInv, FileOK, TableOK, ChannelRecords, Followed, CursorsGrow
<1> QED
  BY <1>2, <1>3, <1>4, <1>5 DEF ScanInv

-----------------------------------------------------------------------------
(* The invariant, and what it gives.                                         *)

\* Nothing is followed at the start, in memory or in the file.
LEMMA ScanStart == Init => ScanInv
<1> SUFFICES ASSUME Init PROVE ScanInv
  OBVIOUS
<1>1. FirstGateways \in Seq(Node) \ {<<>>}
  BY ScanAssumption DEF ScanAssumption
<1>2. 1 \in 1..Len(FirstGateways)
  BY <1>1, EmptySeq, LenProperties
<1>3. channels = <<>> /\ saved.channels = <<>> /\ saved.gateways = FirstGateways
  BY DEF Init
<1> QED
  BY <1>1, <1>2, <1>3, Bounds
     DEF Init, ScanInv, GatewaysOK, RestOK, TableOK, ScansOK, FileOK, Scanning, Followed

\* Every step keeps the invariant, and no step takes a saved cursor back.
LEMMA ScanStep ==
    ASSUME ScanInv, [Next]_vars
    PROVE  ScanInv' /\ CursorsGrow
<1>1. CASE UNCHANGED vars
  <2>1. /\ UNCHANGED <<gateways, active, gatewayState, channels, scan, polls, syncedOnce>>
        /\ UNCHANGED <<chained, saved, lib, calls, faults>>
    BY <1>1 DEF vars, lezVars, pluginVars, outside
  <2> QED
    BY <2>1, QuietStep DEF ScanInv, GatewaysOK, RestOK, ScansOK, Scanning, Followed
<1>2. ASSUME NEW c \in Channel, NEW hint \in Hints, Follow(c, hint)
      PROVE  ScanInv' /\ CursorsGrow
  BY <1>2, FollowStep
<1>3. ASSUME NEW cs, Unfollow(cs) PROVE ScanInv' /\ CursorsGrow
  BY <1>3, UnfollowStep
<1>4. ASSUME NEW list \in OtherGateways, SetGateways(list) PROVE ScanInv' /\ CursorsGrow
  BY <1>4, SetGatewaysStep
<1>5. ASSUME NEW c \in Followed, NEW row, RemoveItem(c, row) PROVE ScanInv' /\ CursorsGrow
  BY <1>5, RemoveItemStep
<1>6. ASSUME NEW c \in Channel, Reply(c) PROVE ScanInv' /\ CursorsGrow
  BY <1>6, ExplorerChannelStep, ExplorerBlockStep, InfoReplyStep, RequestFailsStep, PageReplyStep
     DEF Reply
<1>7. ASSUME RefreshTick \/ \E c \in Channel : ChainedRefresh(c) \/ UserRefresh(c)
      PROVE  ScanInv' /\ CursorsGrow
  BY <1>7, RefreshStep
<1>8. ASSUME HealthTick \/ \E n \in Node : PollEnds(n) \/ Finalize(n)
      PROVE  ScanInv' /\ CursorsGrow
  BY <1>8, PollStep
<1> QED
  BY <1>1, <1>2, <1>3, <1>4, <1>5, <1>6, <1>7, <1>8, SaveStateStep, RestartStep
     DEF Next, UserCall

\* The invariant holds in every reachable state.
LEMMA ScanInvariant == Spec => []ScanInv
<1>1. ScanInv /\ [Next]_vars => ScanInv'
  BY ScanStep
<1> QED
  BY <1>1, ScanStart, PTL DEF Spec

\* The scanner's state has its types, whatever the instance: in particular the
\* position in the gateway list stays on the list (onHealthFinished and the
\* failures of a scan rotate it, setGateways replaces the list under both).
THEOREM ScannerTypes == Spec => []TypeOK
<1>1. ScanInv => TypeOK
  BY DEF ScanInv, GatewaysOK, RestOK, TableOK, ScansOK, RequestOK, FileOK, TypeOK, Followed
<1> QED
  BY <1>1, ScanInvariant, PTL

\* A reply is applied to the follow and to the cursor it was asked for, and
\* stays under the height of its scan (the Q_ASSERT of scanNextPage).
THEOREM RepliesAreCurrent == Spec => []ScanIsCurrent
<1>1. ScanInv => ScanIsCurrent
  BY DEF ScanInv, ScansOK, RequestOK, ScanIsCurrent
<1> QED
  BY <1>1, ScanInvariant, PTL

\* No item has two rows under a channel, whatever is inscribed again and
\* whatever a crash makes the scanner read again.
THEOREM NoSecondRow == Spec => []OneRowPerId
<1>1. ScanInv => OneRowPerId
  BY DEF ScanInv, TableOK, OneRowEach, OneRowPerId, Followed
<1> QED
  BY <1>1, ScanInvariant, PTL

\* What a restart resumes from is never behind an earlier save, whichever
\* gateway the scans failed over to.
THEOREM NoRetreat == Spec => CursorNeverRetreats
<1>1. ScanInv /\ [Next]_vars => [CursorsGrow]_vars
  BY ScanStep
<1> QED
  BY <1>1, ScanInvariant, PTL DEF Spec, CursorNeverRetreats, CursorsGrow
=============================================================================

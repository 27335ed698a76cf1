----------------------------- MODULE Inscriptions -----------------------------
(***************************************************************************)
(* What becomes of every operation of a page of blocks: extractItems and   *)
(* the reply handler of scanNextPage that appends the rows it finds.  The  *)
(* page is read block by block and operation by operation; what the node   *)
(* sends is arbitrary.                                                     *)
(***************************************************************************)
EXTENDS Naturals, Sequences, FiniteSets

CONSTANTS
  Id,                   \* values of an id in a manifest or a label, "" when absent
  TxHash,               \* hashes of transactions
  MaxOps,               \* bound on the operations and blocks read
  MaxPages              \* bound on the pages

VARIABLES
  read,                 \* history: the blocks and operations read so far
  pageStats,            \* ScanStats of this page
  found,                \* the items of this page, in order
  lastScan,             \* ScanStats of the scan: the pages before
  table,                \* the ids of the channel's rows, in order
  pages                 \* pages of the scan

pageVars == <<read, pageStats, found, lastScan, table, pages>>

Counters == {"matched", "skippedNotFinalized", "skippedNonJson", "skippedOversized",
             "skippedNoCid", "skippedDuplicate", "otherChannelOps"}
NoStats == [c \in Counters |-> 0]
Plus(a, b) == [c \in Counters |-> a[c] + b[c]]
Count(stats, c) == [stats EXCEPT ![c] = @ + 1]

(***************************************************************************)
(* An operation, as far as the checks look: its opcode, the channel and    *)
(* the size of its payload, whether that is a JSON object, and the type,   *)
(* id and content id of the manifest (labelId: the id in keeper's label).  *)
(***************************************************************************)
OpOf(opcode, channel, payload) ==
  [opcode |-> opcode, channel |-> channel, payload |-> payload, tx |-> "",
   type |-> "", id |-> "", labelId |-> "", cid |-> FALSE]
Foreign ==
  {OpOf("transfer", "ours", "json"), OpOf("inscribe", "theirs", "json"),
   OpOf("inscribe", "ours", "oversized"), OpOf("inscribe", "ours", "garbage")}
Manifests ==
  [opcode : {"inscribe"}, channel : {"ours"}, payload : {"json"}, tx : TxHash,
   type : {"ia_item", "cid_pin"}, id : Id, labelId : Id, cid : BOOLEAN]
Op == Foreign \cup {m \in Manifests : m.type = "ia_item" => m.labelId = "" /\ m.tx = CHOOSE t \in TxHash : TRUE}

PageInit ==
  /\ read = <<>>
  /\ pageStats = NoStats
  /\ found = <<>>
  /\ lastScan = NoStats
  /\ table = <<>>
  /\ pages = 0

Reads(what) ==
  /\ Len(read) < MaxOps
  /\ read' = Append(read, what)
  /\ UNCHANGED <<lastScan, table, pages>>

Skip(c) == pageStats' = Count(pageStats, c) /\ UNCHANGED found

\* A block above the height of the scan is skipped whole.
UnfinalizedBlock ==
  /\ Reads(OpOf("block", "", ""))
  /\ Skip("skippedNotFinalized")

\* The row of an operation whose manifest names content.
RowId(op) ==
  IF op.type = "ia_item" THEN op.id
  ELSE IF op.id # "" THEN op.id
  ELSE IF op.labelId # "" THEN op.labelId
  ELSE op.tx

\* Faulty variant: an ia_item without an id is dropped and not counted.
ReadOpSilently(op) ==
  /\ Reads(op)
  /\ IF op.opcode # "inscribe" THEN UNCHANGED <<pageStats, found>>
     ELSE IF op.channel # "ours" THEN Skip("otherChannelOps")
     ELSE IF op.payload = "oversized" THEN Skip("skippedOversized")
     ELSE IF op.payload = "garbage" THEN Skip("skippedNonJson")
     ELSE IF ~op.cid /\ op.type # "ia_item" THEN Skip("skippedNoCid")
     ELSE IF RowId(op) = "" THEN UNCHANGED <<pageStats, found>>
     ELSE pageStats' = Count(pageStats, "matched") /\ found' = Append(found, RowId(op))

ReadOp(op) ==
  /\ Reads(op)
  /\ IF op.opcode # "inscribe" THEN UNCHANGED <<pageStats, found>>
     ELSE IF op.channel # "ours" THEN Skip("otherChannelOps")
     ELSE IF op.payload = "oversized" THEN Skip("skippedOversized")
     ELSE IF op.payload = "garbage" THEN Skip("skippedNonJson")
     ELSE IF ~op.cid /\ op.type # "ia_item" THEN Skip("skippedNoCid")
     ELSE IF op.type = "ia_item" /\ op.id = "" THEN Skip("skippedNoCid")
     ELSE pageStats' = Count(pageStats, "matched") /\ found' = Append(found, RowId(op))

(***************************************************************************)
(* The end of the page: one row per id, whether its first inscription is   *)
(* on this page or an earlier one.                                         *)
(***************************************************************************)
Ids(rows) == {rows[k] : k \in DOMAIN rows}

\* Rows after the first k items of the page.
Appended ==
  LET after[k \in 0..Len(found)] ==
        IF k = 0 THEN table
        ELSE IF found[k] \in Ids(after[k - 1]) THEN after[k - 1]
        ELSE Append(after[k - 1], found[k])
  IN after[Len(found)]

EndPage ==
  /\ pages < MaxPages
  /\ pages' = pages + 1
  /\ table' = Appended
  /\ LET duplicates == Len(found) - (Len(table') - Len(table))
     IN lastScan' = Plus(lastScan, [pageStats EXCEPT !.skippedDuplicate = @ + duplicates,
                                                    !.matched = @ - duplicates])
  /\ pageStats' = NoStats
  /\ found' = <<>>
  /\ UNCHANGED read

PageNext == UnfinalizedBlock \/ EndPage \/ \E op \in Op : ReadOp(op)

PageSpec == PageInit /\ [][PageNext]_pageVars

-----------------------------------------------------------------------------
ReadOf(P(_)) == Cardinality({k \in DOMAIN read : P(read[k])})
Inscribed(op) == op.opcode = "inscribe"
NamesContent(op) ==
  /\ Inscribed(op) /\ op.channel = "ours" /\ op.payload = "json"
  /\ IF op.type = "ia_item" THEN op.id # "" ELSE op.cid

\* No inscription disappears silently: every one that was read, and every block that
\* was refused, is in exactly one counter; rows are as many as "matched" says; and
\* every manifest that names content has its row, or will at the end of the page
\* (lez_client.h: "every defensive skip in the read path is counted, never silent").
SkipsAreCounted ==
  LET all == Plus(lastScan, pageStats)
      IsBlock(op) == op.opcode = "block"
  IN /\ all.skippedNotFinalized = ReadOf(IsBlock)
     /\ all.matched + all.skippedNonJson + all.skippedOversized + all.skippedNoCid
          + all.skippedDuplicate + all.otherChannelOps = ReadOf(Inscribed)
     /\ Len(table) = lastScan.matched /\ Cardinality(Ids(table)) = Len(table)
     /\ Ids(table) \cup Ids(found) = {RowId(read[k]) : k \in {j \in DOMAIN read : NamesContent(read[j])}}
==============================================================================

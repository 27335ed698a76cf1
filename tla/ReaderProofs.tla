----------------------------- MODULE ReaderProofs -----------------------------
(***************************************************************************)
(* Proofs about the readers of what comes from outside, for every value of *)
(* their constants and texts of any length: the counters of a scan         *)
(* (Inscriptions), the channel reference the user pastes (ChannelRef), the *)
(* manifest of an Internet Archive item (IaFiles) and the label that says  *)
(* where a CID row's content comes from (SourceRef).                       *)
(***************************************************************************)
EXTENDS IaFiles, ChannelRef, Inscriptions, SourceRef, SequenceTheorems,
        FiniteSetTheorems, WellFoundedInduction, TLAPS

-----------------------------------------------------------------------------
(* Sequences of any kind.                                                   *)

LEMMA AppendIs ==
  ASSUME NEW S, NEW s \in Seq(S), NEW x \in S
  PROVE  /\ Append(s, x) \in Seq(S) /\ Len(Append(s, x)) = Len(s) + 1 /\ Len(s) \in Nat
         /\ DOMAIN Append(s, x) = DOMAIN s \cup {Len(s) + 1} /\ Len(s) + 1 \notin DOMAIN s
         /\ DOMAIN s = 1..Len(s)
         /\ Append(s, x)[Len(s) + 1] = x
         /\ \A k \in DOMAIN s : Append(s, x)[k] = s[k]
<1>1. /\ Append(s, x) \in Seq(S) /\ Len(Append(s, x)) = Len(s) + 1 /\ Len(s) \in Nat
      /\ \A k \in 1..Len(s) : Append(s, x)[k] = s[k]
      /\ Append(s, x)[Len(s) + 1] = x
  BY AppendProperties, LenProperties
<1>2. DOMAIN s = 1..Len(s) /\ DOMAIN Append(s, x) = 1..Len(s) + 1
  BY <1>1, LenProperties
<1> QED
  BY <1>1, <1>2

\* The places of a sequence that hold one of some elements.
At(s, some) == {k \in DOMAIN s : s[k] \in some}

LEMMA AppendAt ==
  ASSUME NEW S, NEW s \in Seq(S), NEW x \in S, NEW some
  PROVE  /\ IsFiniteSet(At(s, some)) /\ Cardinality(At(s, some)) \in Nat
         /\ x \in some => Cardinality(At(Append(s, x), some)) = Cardinality(At(s, some)) + 1
         /\ x \notin some => At(Append(s, x), some) = At(s, some)
<1>1. /\ DOMAIN Append(s, x) = DOMAIN s \cup {Len(s) + 1} /\ Len(s) + 1 \notin DOMAIN s
      /\ DOMAIN s = 1..Len(s) /\ Len(s) \in Nat
      /\ Append(s, x)[Len(s) + 1] = x
      /\ \A k \in DOMAIN s : Append(s, x)[k] = s[k]
  BY AppendIs
<1>2. IsFiniteSet(At(s, some)) /\ Cardinality(At(s, some)) \in Nat
  <2>1. At(s, some) \subseteq 1..Len(s)
    BY <1>1 DEF At
  <2>2. IsFiniteSet(1..Len(s))
    <3>1. 1 \in Int /\ Len(s) \in Int
      BY <1>1
    <3> QED
      BY <3>1, FS_Interval
  <2>3. IsFiniteSet(At(s, some))
    BY <2>1, <2>2, FS_Subset
  <2> QED
    BY <2>3, FS_CardinalityType
<1>3. x \in some => /\ At(Append(s, x), some) = At(s, some) \cup {Len(s) + 1}
                    /\ Len(s) + 1 \notin At(s, some)
  BY <1>1 DEF At
<1>4. x \notin some => At(Append(s, x), some) = At(s, some)
  BY <1>1 DEF At
<1> QED
  BY <1>2, <1>3, <1>4, FS_AddElement

\* What holds for some natural number holds for a least one.
LEMMA LeastNumber ==
  ASSUME NEW T \in SUBSET Nat, T # {}
  PROVE  \E n \in T : \A m \in T : n <= m
<1>1. PICK n \in T : \A m \in T : ~(<<m, n>> \in OpToRel(<, Nat))
  BY NatLessThanWellFounded, WFMin
<1>2. \A m \in Nat : m < n => <<m, n>> \in OpToRel(<, Nat)
  BY DEF OpToRel
<1>3. \A m \in T : ~(m < n)
  BY <1>1, <1>2
<1> QED
  BY <1>3

-----------------------------------------------------------------------------
(* Inscriptions: the parts of the invariant.                                *)

Block == OpOf("block", "", "")
PageOp == Op \cup {Block}
Blocks == {op \in PageOp : op.opcode = "block"}
Inscribing == {op \in PageOp : Inscribed(op)}
Naming == {op \in PageOp : NamesContent(op)}
RowIds == {RowId(op) : op \in Op}
\* The rows that the operations of s call for.
RowsOf(s) == {RowId(s[k]) : k \in At(s, Naming)}

\* The inscriptions that a set of counters accounts for.
Total(s) ==
  s["matched"] + s["skippedNonJson"] + s["skippedOversized"] + s["skippedNoCid"]
    + s["skippedDuplicate"] + s["otherChannelOps"]
Stats == [Counters -> Nat]

\* The counters of the pages before and of this page account for what was read; a match
\* of this page is in the list of its items, one of a page before in the table.
PageInv ==
  /\ read \in Seq(PageOp) /\ found \in Seq(RowIds) /\ table \in Seq(RowIds)
  /\ pageStats \in Stats /\ lastScan \in Stats
  /\ pageStats["matched"] = Len(found) /\ lastScan["matched"] = Len(table)
  /\ Cardinality(Ids(table)) = Len(table)
  /\ lastScan["skippedNotFinalized"] + pageStats["skippedNotFinalized"] = Cardinality(At(read, Blocks))
  /\ Total(lastScan) + Total(pageStats) = Cardinality(At(read, Inscribing))
  /\ Ids(table) \cup Ids(found) = RowsOf(read)

-----------------------------------------------------------------------------
(* Counting.                                                                *)

LEMMA CountIs ==
  ASSUME NEW s \in Stats, NEW c \in Counters
  PROVE  /\ Count(s, c) \in Stats /\ Count(s, c)[c] = s[c] + 1
         /\ \A d \in Counters : d # c => Count(s, c)[d] = s[d]
BY DEF Stats, Count

LEMMA TotalIs ==
  ASSUME NEW s \in Stats, NEW c \in Counters
  PROVE  /\ Total(s) \in Nat
         /\ c # "skippedNotFinalized" => Total(Count(s, c)) = Total(s) + 1
         /\ c = "skippedNotFinalized" => Total(Count(s, c)) = Total(s)
<1>1. \A d \in Counters : s[d] \in Nat
  BY DEF Stats
<1>2. Count(s, c)[c] = s[c] + 1 /\ \A d \in Counters : d # c => Count(s, c)[d] = s[d]
  BY CountIs
<1> QED
  BY <1>1, <1>2 DEF Total, Counters

LEMMA PlusIs ==
  ASSUME NEW a \in Stats, NEW b \in Stats
  PROVE  /\ Plus(a, b) \in Stats /\ \A c \in Counters : Plus(a, b)[c] = a[c] + b[c]
         /\ Total(Plus(a, b)) = Total(a) + Total(b)
<1>1. \A d \in Counters : a[d] \in Nat /\ b[d] \in Nat
  BY DEF Stats
<1>2. Plus(a, b) \in Stats /\ \A c \in Counters : Plus(a, b)[c] = a[c] + b[c]
  BY <1>1 DEF Plus, Stats
<1> QED
  BY <1>1, <1>2 DEF Total, Counters

\* What a new operation adds to the rows called for.
LEMMA RowsOfRead ==
  ASSUME NEW s \in Seq(PageOp), NEW op \in PageOp
  PROVE  /\ op \in Naming => RowsOf(Append(s, op)) = RowsOf(s) \cup {RowId(op)}
         /\ op \notin Naming => RowsOf(Append(s, op)) = RowsOf(s)
<1>1. PICK t : t = Append(s, op)
  OBVIOUS
<1>2. /\ DOMAIN t = DOMAIN s \cup {Len(s) + 1} /\ Len(s) + 1 \notin DOMAIN s
      /\ t[Len(s) + 1] = op /\ \A k \in DOMAIN s : t[k] = s[k]
  BY <1>1, AppendIs
<1>3. op \in Naming => At(t, Naming) = At(s, Naming) \cup {Len(s) + 1}
  BY <1>2 DEF At
<1>4. op \notin Naming => At(t, Naming) = At(s, Naming)
  BY <1>2 DEF At
<1>5. \A k \in At(s, Naming) : t[k] = s[k]
  BY <1>2 DEF At
<1> HIDE DEF At
<1>6. op \in Naming => RowsOf(t) = RowsOf(s) \cup {RowId(op)}
  BY <1>2, <1>3, <1>5 DEF RowsOf
<1>7. op \notin Naming => RowsOf(t) = RowsOf(s)
  BY <1>4, <1>5 DEF RowsOf
<1> QED
  BY <1>1, <1>6, <1>7

\* An operation that is counted where it is skipped.
LEMMA SkipStep ==
  ASSUME PageInv, NEW op \in PageOp, Reads(op), op \notin Naming,
         NEW c \in Counters \ {"matched"}, Skip(c),
         IF c = "skippedNotFinalized" THEN op \in Blocks /\ op \notin Inscribing
         ELSE op \in Inscribing /\ op \notin Blocks
  PROVE  PageInv'
<1>1. /\ read' = Append(read, op) /\ pageStats' = Count(pageStats, c)
      /\ UNCHANGED <<found, lastScan, table>>
  BY DEF Reads, Skip
<1>2. /\ read \in Seq(PageOp) /\ pageStats \in Stats /\ lastScan \in Stats
  BY DEF PageInv
<1>3. read' \in Seq(PageOp)
  BY <1>1, <1>2, AppendIs
<1>4. /\ pageStats' \in Stats /\ pageStats'["matched"] = pageStats["matched"]
      /\ pageStats'[c] = pageStats[c] + 1
      /\ \A d \in Counters : d # c => pageStats'[d] = pageStats[d]
  BY <1>1, <1>2, CountIs DEF Counters
<1>5. lastScan["skippedNotFinalized"] + pageStats'["skippedNotFinalized"]
        = Cardinality(At(read', Blocks))
  <2>1. Cardinality(At(read, Blocks)) = lastScan["skippedNotFinalized"] + pageStats["skippedNotFinalized"]
    BY DEF PageInv
  <2>2. lastScan["skippedNotFinalized"] \in Nat /\ pageStats["skippedNotFinalized"] \in Nat
    BY <1>2 DEF Stats, Counters
  <2>3. CASE c = "skippedNotFinalized"
    BY <1>1, <1>2, <1>4, <2>1, <2>2, <2>3, AppendAt
  <2>4. CASE c # "skippedNotFinalized"
    BY <1>1, <1>2, <1>4, <2>1, <2>4, AppendAt DEF Counters
  <2> QED
    BY <2>3, <2>4
<1>6. Total(lastScan) + Total(pageStats') = Cardinality(At(read', Inscribing))
  <2>1. Cardinality(At(read, Inscribing)) = Total(lastScan) + Total(pageStats)
    BY DEF PageInv
  <2>2. Total(lastScan) \in Nat /\ Total(pageStats) \in Nat
    BY <1>2, TotalIs
  <2>3. CASE c = "skippedNotFinalized"
    BY <1>1, <1>2, <2>1, <2>3, AppendAt, TotalIs
  <2>4. CASE c # "skippedNotFinalized"
    BY <1>1, <1>2, <2>1, <2>2, <2>4, AppendAt, TotalIs
  <2> QED
    BY <2>3, <2>4
<1>7. Ids(table) \cup Ids(found) = RowsOf(read')
  BY <1>1, <1>2, RowsOfRead DEF PageInv
<1>8. /\ At(read, Blocks)' = At(read', Blocks) /\ At(read, Inscribing)' = At(read', Inscribing)
      /\ RowsOf(read)' = RowsOf(read') /\ Total(lastScan)' = Total(lastScan)
      /\ Total(pageStats)' = Total(pageStats') /\ Ids(table)' = Ids(table) /\ Ids(found)' = Ids(found)
  BY <1>1 DEF At, Total, Ids, RowsOf
<1> QED
  BY <1>1, <1>2, <1>3, <1>4, <1>5, <1>6, <1>7, <1>8 DEF PageInv

\* An operation that is none of the scan's business.
LEMMA PassStep ==
  ASSUME PageInv, NEW op \in PageOp, Reads(op),
         op \notin Blocks /\ op \notin Inscribing /\ op \notin Naming,
         UNCHANGED <<pageStats, found>>
  PROVE  PageInv'
<1>1. read' = Append(read, op) /\ UNCHANGED <<lastScan, table>>
  BY DEF Reads
<1>2. read \in Seq(PageOp)
  BY DEF PageInv
<1>3. read' \in Seq(PageOp)
  BY <1>1, <1>2, AppendIs
<1>4. At(read', Blocks) = At(read, Blocks) /\ At(read', Inscribing) = At(read, Inscribing)
  BY <1>1, <1>2, AppendAt
<1>5. RowsOf(read') = RowsOf(read)
  BY <1>1, <1>2, RowsOfRead
<1>6. /\ At(read, Blocks)' = At(read', Blocks) /\ At(read, Inscribing)' = At(read', Inscribing)
      /\ RowsOf(read)' = RowsOf(read') /\ Total(lastScan)' = Total(lastScan)
      /\ Total(pageStats)' = Total(pageStats) /\ Ids(table)' = Ids(table) /\ Ids(found)' = Ids(found)
  BY <1>1 DEF At, Total, Ids, RowsOf
<1> QED
  BY <1>1, <1>3, <1>4, <1>5, <1>6 DEF PageInv

\* An operation that names content.
LEMMA MatchStep ==
  ASSUME PageInv, NEW op \in Op, Reads(op), op \in Naming, op \notin Blocks,
         pageStats' = Count(pageStats, "matched"), found' = Append(found, RowId(op))
  PROVE  PageInv'
<1>1. /\ read' = Append(read, op) /\ UNCHANGED <<lastScan, table>>
  BY DEF Reads
<1>2. /\ op \in PageOp /\ op \in Inscribing /\ RowId(op) \in RowIds
      /\ read \in Seq(PageOp) /\ pageStats \in Stats /\ lastScan \in Stats /\ found \in Seq(RowIds)
  BY DEF PageInv, PageOp, Naming, Inscribing, NamesContent, RowIds
<1>3. read' \in Seq(PageOp) /\ found' \in Seq(RowIds) /\ Len(found') = Len(found) + 1
  BY <1>1, <1>2, AppendIs
<1>4. /\ pageStats' \in Stats /\ pageStats'["matched"] = Len(found')
      /\ pageStats'["skippedNotFinalized"] = pageStats["skippedNotFinalized"]
  BY <1>2, <1>3, CountIs DEF Counters, PageInv
<1>5. Cardinality(At(read', Blocks)) = Cardinality(At(read, Blocks))
  BY <1>1, <1>2, AppendAt
<1>6. Total(lastScan) + Total(pageStats') = Cardinality(At(read', Inscribing))
  <2>1. Cardinality(At(read, Inscribing)) = Total(lastScan) + Total(pageStats)
    BY DEF PageInv
  <2>2. /\ Total(lastScan) \in Nat /\ Total(pageStats) \in Nat
        /\ Total(pageStats') = Total(pageStats) + 1
    BY <1>2, TotalIs DEF Counters
  <2> QED
    BY <1>1, <1>2, <2>1, <2>2, AppendAt
<1>7. Ids(found') = Ids(found) \cup {RowId(op)}
  <2>1. /\ DOMAIN found' = DOMAIN found \cup {Len(found) + 1} /\ found'[Len(found) + 1] = RowId(op)
        /\ \A k \in DOMAIN found : found'[k] = found[k]
    BY <1>2, AppendIs
  <2> QED
    BY <2>1 DEF Ids
<1>8. RowsOf(read') = RowsOf(read) \cup {RowId(op)}
  BY <1>1, <1>2, RowsOfRead
<1>9. /\ At(read, Blocks)' = At(read', Blocks) /\ At(read, Inscribing)' = At(read', Inscribing)
      /\ RowsOf(read)' = RowsOf(read') /\ Total(lastScan)' = Total(lastScan)
      /\ Total(pageStats)' = Total(pageStats') /\ Ids(table)' = Ids(table) /\ Ids(found)' = Ids(found')
  BY <1>1 DEF At, Total, Ids, RowsOf
<1>10. Ids(table) \cup Ids(found') = RowsOf(read')
  BY <1>7, <1>8 DEF PageInv
<1> QED
  BY <1>1, <1>3, <1>4, <1>5, <1>6, <1>9, <1>10 DEF PageInv

\* The operations there are.
LEMMA OpKinds ==
  ASSUME NEW op \in Op
  PROVE  /\ op.opcode \in {"inscribe", "transfer"}
         /\ op.payload \in {"json", "oversized", "garbage"}
<1>1. CASE op \in Foreign
  <2>1. PICK opcode \in {"inscribe", "transfer"}, channel \in {"ours", "theirs"},
             payload \in {"json", "oversized", "garbage"} : op = OpOf(opcode, channel, payload)
    BY <1>1 DEF Foreign
  <2>2. op.opcode = opcode /\ op.payload = payload
    BY <2>1 DEF OpOf
  <2> QED
    BY <2>2
<1>2. CASE op \in Manifests
  BY <1>2 DEF Manifests
<1> QED
  BY <1>1, <1>2 DEF Op

LEMMA ReadOpStep ==
  ASSUME PageInv, NEW op \in Op, ReadOp(op)
  PROVE  PageInv'
<1>1. op \in PageOp /\ Reads(op) /\ op \notin Blocks
  BY OpKinds DEF PageOp, ReadOp, Blocks
<1>2. CASE op.opcode # "inscribe"
  <2>1. UNCHANGED <<pageStats, found>> /\ op \notin Inscribing /\ op \notin Naming
    BY <1>2 DEF ReadOp, Inscribing, Naming, NamesContent, Inscribed
  <2> QED
    BY <1>1, <2>1, PassStep
<1>3. CASE op.opcode = "inscribe" /\ op \notin Naming
  <2>1. op \in Inscribing
    BY <1>1, <1>3 DEF Inscribing, Inscribed
  <2>2. \E c \in Counters \ {"matched", "skippedNotFinalized"} : Skip(c)
    BY <1>1, <1>3, OpKinds DEF ReadOp, Naming, NamesContent, Inscribed, Counters
  <2> QED
    BY <1>1, <1>3, <2>1, <2>2, SkipStep
<1>4. CASE op \in Naming
  <2>1. pageStats' = Count(pageStats, "matched") /\ found' = Append(found, RowId(op))
    BY <1>4 DEF ReadOp, Naming, NamesContent, Inscribed
  <2> QED
    BY <1>1, <1>4, <2>1, MatchStep
<1> QED
  BY <1>2, <1>3, <1>4

LEMMA BlockStep ==
  ASSUME PageInv, UnfinalizedBlock
  PROVE  PageInv'
<1>1. Block \in PageOp /\ Reads(Block) /\ Skip("skippedNotFinalized")
  BY DEF PageOp, UnfinalizedBlock, Block
<1>2. Block.opcode = "block"
  BY DEF Block, OpOf
<1>3. Block \in Blocks /\ Block \notin Inscribing /\ Block \notin Naming
  BY <1>1, <1>2 DEF Blocks, Inscribing, Naming, NamesContent, Inscribed
<1>4. "skippedNotFinalized" \in Counters \ {"matched"}
  BY DEF Counters
<1> QED
  BY <1>1, <1>3, <1>4, SkipStep

-----------------------------------------------------------------------------
(* The end of a page.  Appended is defined by recursion; that a function of *)
(* this recursion exists, and what its values are, goes from one item to    *)
(* the next, by a least one that would fail.                                *)

\* f has the rows after each of the first n items.
Merges(f, n) ==
  f = [k \in 0..n |->
         IF k = 0 THEN table
         ELSE IF found[k] \in Ids(f[k - 1]) THEN f[k - 1]
         ELSE Append(f[k - 1], found[k])]

LEMMA MergeValues ==
  ASSUME NEW n \in Nat, NEW f, Merges(f, n)
  PROVE  /\ DOMAIN f = 0..n /\ f[0] = table
         /\ \A k \in 1..n : f[k] = IF found[k] \in Ids(f[k - 1]) THEN f[k - 1]
                                   ELSE Append(f[k - 1], found[k])
<1>1. PICK e : e = [k \in 0..n |-> IF k = 0 THEN table
                                 ELSE IF found[k] \in Ids(f[k - 1]) THEN f[k - 1]
                                 ELSE Append(f[k - 1], found[k])]
  OBVIOUS
<1>2. e = f
  BY <1>1 DEF Merges
<1>3. /\ DOMAIN e = 0..n /\ e[0] = table
      /\ \A k \in 1..n : e[k] = IF found[k] \in Ids(f[k - 1]) THEN f[k - 1]
                                ELSE Append(f[k - 1], found[k])
  BY <1>1
<1> QED
  BY <1>2, <1>3

LEMMA MergeExists ==
  ASSUME NEW m \in Nat
  PROVE  \E f : Merges(f, m)
<1> DEFINE T == {n \in Nat : ~\E f : Merges(f, n)}
<1>1. SUFFICES ASSUME T # {} PROVE FALSE
  OBVIOUS
<1>2. PICK n \in T : \A k \in T : n <= k
  BY <1>1, LeastNumber
<1>3. CASE n = 0
  <2>1. PICK f : f = [k \in 0..0 |-> table]
    OBVIOUS
  <2>2. Merges(f, 0)
    BY <2>1 DEF Merges
  <2> QED
    BY <1>2, <1>3, <2>2
<1>4. CASE n > 0
  <2>1. n - 1 \in Nat /\ n - 1 \notin T
    BY <1>2, <1>4
  <2>2. PICK f : Merges(f, n - 1)
    BY <2>1
  <2>3. PICK last : last = IF found[n] \in Ids(f[n - 1]) THEN f[n - 1] ELSE Append(f[n - 1], found[n])
    OBVIOUS
  <2>4. PICK g : g = [k \in 0..n |-> IF k = n THEN last ELSE f[k]]
    OBVIOUS
  <2>5. \A k \in 0..n - 1 : g[k] = f[k]
    BY <1>2, <2>4
  <2>6. g[n] = last /\ DOMAIN g = 0..n
    BY <1>2, <2>4
  <2>7. ASSUME NEW k \in 0..n
        PROVE  g[k] = IF k = 0 THEN table
                      ELSE IF found[k] \in Ids(g[k - 1]) THEN g[k - 1]
                      ELSE Append(g[k - 1], found[k])
    <3>1. CASE k = 0
      BY <1>2, <1>4, <2>1, <2>2, <2>5, <3>1, MergeValues
    <3>2. CASE k = n
      BY <1>2, <1>4, <2>3, <2>5, <2>6, <3>2
    <3>3. CASE k \in 1..n - 1
      BY <1>2, <2>1, <2>2, <2>5, <3>3, MergeValues
    <3> QED
      BY <1>2, <3>1, <3>2, <3>3
  <2>8. Merges(g, n)
    BY <2>4, <2>7 DEF Merges
  <2> QED
    BY <1>2, <2>8
<1> QED
  BY <1>2, <1>3, <1>4

LEMMA AppendedIs ==
  ASSUME NEW n \in Nat, n = Len(found)
  PROVE  \E f : Merges(f, n) /\ Appended = f[n]
<1>1. PICK f : f = CHOOSE g : Merges(g, n)
  OBVIOUS
<1>2. Merges(f, n)
  BY <1>1, MergeExists
<1>3. Appended = f[n]
  BY <1>1 DEF Appended, Merges
<1> QED
  BY <1>2, <1>3

LEMMA IdsAreFinite ==
  ASSUME NEW S, NEW s \in Seq(S)
  PROVE  IsFiniteSet(Ids(s)) /\ Cardinality(Ids(s)) \in Nat
<1>1. IsFiniteSet(DOMAIN s)
  BY LenProperties, FS_Interval
<1>2. s \in Surjection(DOMAIN s, Ids(s))
  <2>1. s \in [DOMAIN s -> Ids(s)]
    BY LenProperties DEF Ids
  <2> QED
    BY <2>1 DEF Surjection, Ids
<1> QED
  BY <1>1, <1>2, FS_Surjection, FS_CardinalityType

\* One row per id: after k items of the page the table has the rows it had, those of the
\* k items and no others, each once.
LEMMA MergeKeeps ==
  ASSUME NEW n \in Nat, n = Len(found), found \in Seq(RowIds), table \in Seq(RowIds),
         Cardinality(Ids(table)) = Len(table), NEW f, Merges(f, n), NEW m \in 0..n
  PROVE  /\ f[m] \in Seq(RowIds) /\ Cardinality(Ids(f[m])) = Len(f[m])
         /\ Len(table) <= Len(f[m]) /\ Len(f[m]) <= Len(table) + m
         /\ Ids(f[m]) = Ids(table) \cup {found[j] : j \in 1..m}
<1> DEFINE Good(k) ==
             /\ f[k] \in Seq(RowIds) /\ Cardinality(Ids(f[k])) = Len(f[k])
             /\ Len(table) <= Len(f[k]) /\ Len(f[k]) <= Len(table) + k
             /\ Ids(f[k]) = Ids(table) \cup {found[j] : j \in 1..k}
           T == {k \in 0..n : ~Good(k)}
<1> HIDE DEF Good
<1>1. SUFFICES ASSUME T # {} PROVE FALSE
  BY DEF Good
<1>2. PICK k \in T : \A j \in T : k <= j
  <2>1. T \subseteq Nat
    OBVIOUS
  <2> QED
    BY <1>1, <2>1, LeastNumber
<1>3. CASE k = 0
  <2>1. f[0] = table /\ Len(table) \in Nat
    BY MergeValues, LenProperties
  <2>2. {found[j] : j \in 1..0} = {}
    OBVIOUS
  <2>3. Good(0)
    BY <2>1, <2>2 DEF Good
  <2> QED
    BY <1>2, <1>3, <2>3
<1>4. CASE k # 0
  <2> DEFINE before == f[k - 1]
             now == f[k]
  <2>1. k \in 1..n /\ k - 1 \in 0..n /\ Good(k - 1)
    <3>1. k \in 1..n /\ k - 1 \in 0..n /\ k - 1 < k
      BY <1>2, <1>4
    <3>2. k - 1 \notin T
      BY <1>2, <3>1
    <3> QED
      BY <3>1, <3>2
  <2>2. /\ before \in Seq(RowIds) /\ Cardinality(Ids(before)) = Len(before)
        /\ Len(table) <= Len(before) /\ Len(before) <= Len(table) + (k - 1)
        /\ Ids(before) = Ids(table) \cup {found[j] : j \in 1..k - 1}
    BY <2>1 DEF Good
  <2>3. now = IF found[k] \in Ids(before) THEN before ELSE Append(before, found[k])
    BY <2>1, MergeValues
  <2>4. found[k] \in RowIds /\ Len(table) \in Nat /\ Len(before) \in Nat
    BY <2>1, <2>2, LenProperties, ElementOfSeq
  <2>5. {found[j] : j \in 1..k} = {found[j] : j \in 1..k - 1} \cup {found[k]}
    <3>1. 1..k = (1..k - 1) \cup {k}
      BY <2>1
    <3> QED
      BY <3>1
  <2> HIDE DEF before, now
  <2>6. CASE found[k] \in Ids(before)
    <3>1. now = before /\ Ids(now) = Ids(table) \cup {found[j] : j \in 1..k}
      BY <2>2, <2>3, <2>5, <2>6
    <3>2. Len(now) <= Len(table) + k
      BY <2>1, <2>2, <2>4, <3>1
    <3>3. Good(k)
      BY <2>2, <3>1, <3>2 DEF now, Good
    <3> QED
      BY <1>2, <3>3
  <2>7. CASE found[k] \notin Ids(before)
    <3>1. /\ now \in Seq(RowIds) /\ Len(now) = Len(before) + 1
          /\ DOMAIN now = DOMAIN before \cup {Len(before) + 1} /\ now[Len(before) + 1] = found[k]
          /\ \A j \in DOMAIN before : now[j] = before[j]
          /\ DOMAIN before = 1..Len(before)
      <4>1. now = Append(before, found[k])
        BY <2>3, <2>7
      <4>2. PICK s, x : s = before /\ x = found[k]
        OBVIOUS
      <4>3. s \in Seq(RowIds) /\ x \in RowIds
        BY <2>2, <2>4, <4>2
      <4>4. /\ Append(s, x) \in Seq(RowIds) /\ Len(Append(s, x)) = Len(s) + 1
            /\ DOMAIN Append(s, x) = DOMAIN s \cup {Len(s) + 1} /\ Append(s, x)[Len(s) + 1] = x
            /\ \A j \in DOMAIN s : Append(s, x)[j] = s[j]
            /\ DOMAIN s = 1..Len(s)
        BY <4>3, AppendIs
      <4> QED
        BY <4>1, <4>2, <4>4
    <3>2. Ids(now) = Ids(before) \cup {found[k]}
      BY <3>1 DEF Ids
    <3>3. IsFiniteSet(Ids(before))
      BY <2>2, IdsAreFinite
    <3>4. Cardinality(Ids(now)) = Len(now)
      <4>1. Cardinality(Ids(before) \cup {found[k]}) = Cardinality(Ids(before)) + 1
        BY <2>7, <3>3, FS_AddElement
      <4>2. Cardinality(Ids(before)) = Len(before) /\ Len(now) = Len(before) + 1
        BY <2>2, <3>1
      <4> QED
        BY <3>2, <4>1, <4>2
    <3>5. Ids(now) = Ids(table) \cup {found[j] : j \in 1..k}
      BY <2>2, <2>5, <3>2
    <3>6. Len(table) <= Len(now) /\ Len(now) <= Len(table) + k
      BY <2>1, <2>2, <2>4, <3>1
    <3>7. Good(k)
      BY <3>1, <3>4, <3>5, <3>6 DEF now, Good
    <3> QED
      BY <1>2, <3>7
  <2> QED
    BY <2>6, <2>7
<1> QED
  BY <1>3, <1>4

\* The rows after the page.
LEMMA MergeIs ==
  ASSUME PageInv
  PROVE  /\ Appended \in Seq(RowIds) /\ Cardinality(Ids(Appended)) = Len(Appended)
         /\ Len(Appended) \in Nat /\ Len(table) \in Nat /\ Len(found) \in Nat
         /\ Len(table) <= Len(Appended) /\ Len(Appended) <= Len(table) + Len(found)
         /\ Ids(Appended) = Ids(table) \cup Ids(found)
<1>1. /\ found \in Seq(RowIds) /\ table \in Seq(RowIds)
      /\ Cardinality(Ids(table)) = Len(table)
  BY DEF PageInv
<1>2. Len(found) \in Nat /\ DOMAIN found = 1..Len(found)
  BY <1>1, LenProperties
<1>3. PICK n \in Nat : n = Len(found)
  BY <1>2
<1>4. PICK f : Merges(f, n) /\ Appended = f[n]
  BY <1>3, AppendedIs
<1>5. /\ f[n] \in Seq(RowIds) /\ Cardinality(Ids(f[n])) = Len(f[n])
      /\ Len(table) <= Len(f[n]) /\ Len(f[n]) <= Len(table) + n
      /\ Ids(f[n]) = Ids(table) \cup {found[j] : j \in 1..n}
  <2>1. n \in 0..n
    OBVIOUS
  <2> QED
    BY <1>1, <1>3, <1>4, <2>1, MergeKeeps
<1>6. Ids(found) = {found[j] : j \in 1..n}
  BY <1>2, <1>3 DEF Ids
<1>7. Len(f[n]) \in Nat /\ Len(table) \in Nat
  BY <1>1, <1>5, LenProperties
<1> QED
  BY <1>2, <1>3, <1>4, <1>5, <1>6, <1>7

LEMMA EndPageStep ==
  ASSUME PageInv, EndPage
  PROVE  PageInv'
<1>1. PICK duplicates, s : /\ duplicates = Len(found) - (Len(Appended) - Len(table))
                           /\ s = [pageStats EXCEPT !["skippedDuplicate"] = @ + duplicates,
                                                    !["matched"] = @ - duplicates]
  OBVIOUS
<1>2. /\ table' = Appended /\ lastScan' = Plus(lastScan, s) /\ pageStats' = NoStats /\ found' = <<>>
      /\ read' = read
  BY <1>1 DEF EndPage
<1>3. /\ Appended \in Seq(RowIds) /\ Cardinality(Ids(Appended)) = Len(Appended)
      /\ Len(Appended) \in Nat /\ Len(table) \in Nat /\ Len(found) \in Nat
      /\ Len(table) <= Len(Appended) /\ Len(Appended) <= Len(table) + Len(found)
      /\ Ids(Appended) = Ids(table) \cup Ids(found)
  BY MergeIs
<1>4. /\ duplicates \in Nat /\ Len(found) - duplicates = Len(Appended) - Len(table)
      /\ Len(found) - duplicates \in Nat
  BY <1>1, <1>3
<1>5. /\ pageStats \in Stats /\ lastScan \in Stats /\ \A c \in Counters : pageStats[c] \in Nat
      /\ pageStats["matched"] = Len(found) /\ lastScan["matched"] = Len(table)
  BY DEF PageInv, Stats
<1>6. /\ s \in Stats /\ s["matched"] = Len(found) - duplicates
      /\ s["skippedDuplicate"] = pageStats["skippedDuplicate"] + duplicates
      /\ \A c \in Counters \ {"matched", "skippedDuplicate"} : s[c] = pageStats[c]
  <2>1. PICK t : t = [pageStats EXCEPT !["skippedDuplicate"] = pageStats["skippedDuplicate"] + duplicates]
    OBVIOUS
  <2>2. /\ t \in Stats /\ t["skippedDuplicate"] = pageStats["skippedDuplicate"] + duplicates
        /\ \A c \in Counters : c # "skippedDuplicate" => t[c] = pageStats[c]
    <3>1. "skippedDuplicate" \in Counters
      BY DEF Counters
    <3>2. PICK more \in Nat : more = pageStats["skippedDuplicate"] + duplicates
      BY <1>4, <1>5, <3>1
    <3>3. t = [pageStats EXCEPT !["skippedDuplicate"] = more]
      BY <2>1, <3>2
    <3> QED
      BY <1>5, <3>1, <3>2, <3>3 DEF Stats
  <2>3. s = [t EXCEPT !["matched"] = t["matched"] - duplicates]
    BY <1>1, <2>1
  <2> QED
    BY <1>4, <1>5, <2>2, <2>3 DEF Stats, Counters
<1>7. Total(s) = Total(pageStats)
  <2>1. /\ s["skippedNonJson"] = pageStats["skippedNonJson"]
        /\ s["skippedOversized"] = pageStats["skippedOversized"]
        /\ s["skippedNoCid"] = pageStats["skippedNoCid"]
        /\ s["otherChannelOps"] = pageStats["otherChannelOps"]
        /\ pageStats["skippedNonJson"] \in Nat /\ pageStats["skippedOversized"] \in Nat
        /\ pageStats["skippedNoCid"] \in Nat /\ pageStats["otherChannelOps"] \in Nat
        /\ pageStats["matched"] \in Nat /\ pageStats["skippedDuplicate"] \in Nat
    BY <1>5, <1>6 DEF Counters
  <2>2. s["matched"] + duplicates = pageStats["matched"]
    BY <1>3, <1>4, <1>5, <1>6
  <2>3. s["skippedDuplicate"] = pageStats["skippedDuplicate"] + duplicates
    BY <1>6
  <2>4. s["matched"] \in Nat /\ duplicates \in Nat
    BY <1>4, <1>6
  <2> QED
    BY <2>1, <2>2, <2>3, <2>4 DEF Total
<1>8. /\ lastScan' \in Stats /\ Total(lastScan') = Total(lastScan) + Total(pageStats)
      /\ lastScan'["matched"] = Len(Appended)
      /\ lastScan'["skippedNotFinalized"]
           = lastScan["skippedNotFinalized"] + pageStats["skippedNotFinalized"]
  <2>1. /\ lastScan' \in Stats /\ Total(lastScan') = Total(lastScan) + Total(s)
        /\ \A c \in Counters : lastScan'[c] = lastScan[c] + s[c]
    BY <1>2, <1>5, <1>6, PlusIs
  <2>2. lastScan["matched"] + s["matched"] = Len(Appended)
    BY <1>3, <1>4, <1>5, <1>6
  <2> QED
    BY <1>6, <1>7, <2>1, <2>2 DEF Counters
<1>9. /\ NoStats \in Stats /\ NoStats["matched"] = 0 /\ NoStats["skippedNotFinalized"] = 0
      /\ Total(NoStats) = 0
  BY DEF NoStats, Stats, Total, Counters
<1>10. /\ found' \in Seq(RowIds) /\ Len(found') = 0 /\ Ids(found') = {}
  BY <1>2 DEF Ids
<1>11. /\ Total(lastScan) \in Nat /\ Total(pageStats) \in Nat
       /\ lastScan["skippedNotFinalized"] \in Nat /\ pageStats["skippedNotFinalized"] \in Nat
  BY <1>5, TotalIs DEF Stats, Counters
<1>12. /\ At(read, Blocks)' = At(read, Blocks) /\ At(read, Inscribing)' = At(read, Inscribing)
       /\ RowsOf(read)' = RowsOf(read) /\ Total(lastScan)' = Total(lastScan')
       /\ Total(pageStats)' = Total(NoStats) /\ Ids(table)' = Ids(Appended) /\ Ids(found)' = Ids(found')
  BY <1>2 DEF At, Total, Ids, RowsOf
<1>13. read' \in Seq(PageOp) /\ table' \in Seq(RowIds) /\ pageStats' \in Stats
  BY <1>2, <1>3, <1>9 DEF PageInv
<1>14. Total(lastScan') + Total(NoStats) = Cardinality(At(read, Inscribing))
  BY <1>8, <1>9, <1>11 DEF PageInv
<1>15. lastScan'["skippedNotFinalized"] + NoStats["skippedNotFinalized"] = Cardinality(At(read, Blocks))
  BY <1>8, <1>9, <1>11 DEF PageInv
<1>16. Ids(Appended) \cup Ids(found') = RowsOf(read)
  BY <1>3, <1>10 DEF PageInv
<1> QED
  BY <1>2, <1>3, <1>8, <1>9, <1>10, <1>12, <1>13, <1>14, <1>15, <1>16 DEF PageInv

-----------------------------------------------------------------------------
(* Together.                                                                *)

LEMMA PageStart ==
  ASSUME PageInit
  PROVE  PageInv
<1>1. /\ NoStats \in Stats /\ NoStats["matched"] = 0 /\ NoStats["skippedNotFinalized"] = 0
      /\ Total(NoStats) = 0
  BY DEF NoStats, Stats, Total, Counters
<1>2. /\ \A some : At(<<>>, some) = {}
      /\ Ids(<<>>) = {} /\ RowsOf(<<>>) = {} /\ Cardinality({}) = 0
  BY FS_EmptySet DEF At, Ids, RowsOf
<1>3. /\ Cardinality(At(read, Blocks)) = 0 /\ Cardinality(At(read, Inscribing)) = 0
      /\ Ids(table) = {} /\ Ids(found) = {} /\ RowsOf(read) = {}
  BY <1>2 DEF PageInit
<1>4. /\ read \in Seq(PageOp) /\ found \in Seq(RowIds) /\ table \in Seq(RowIds)
      /\ Len(found) = 0 /\ Len(table) = 0
  BY DEF PageInit
<1>5. Cardinality(Ids(table)) = 0
  BY <1>2, <1>3
<1>6. pageStats = NoStats /\ lastScan = NoStats
  BY DEF PageInit
<1> QED
  BY <1>1, <1>3, <1>4, <1>5, <1>6 DEF PageInv

LEMMA PageStep ==
  ASSUME PageInv, [PageNext]_pageVars
  PROVE  PageInv'
<1>1. CASE UNCHANGED pageVars
  <2>1. /\ At(read, Blocks)' = At(read, Blocks) /\ At(read, Inscribing)' = At(read, Inscribing)
        /\ RowsOf(read)' = RowsOf(read) /\ Total(lastScan)' = Total(lastScan)
        /\ Total(pageStats)' = Total(pageStats) /\ Ids(table)' = Ids(table) /\ Ids(found)' = Ids(found)
    BY <1>1 DEF pageVars, At, Total, Ids, RowsOf
  <2> QED
    BY <1>1, <2>1 DEF pageVars, PageInv
<1> QED
  BY <1>1, BlockStep, EndPageStep, ReadOpStep DEF PageNext

\* Every inscription that was read and every block that was refused is in exactly one
\* counter, there are as many rows as "matched" says, and a row for every manifest that
\* names content, whatever the node sends and however it is cut into pages
\* (lez_client.h: "every defensive skip in the read path is counted, never silent").
THEOREM EverySkipIsCounted == PageSpec => []SkipsAreCounted
<1>1. ASSUME PageInv PROVE SkipsAreCounted
  <2> DEFINE all == Plus(lastScan, pageStats)
             IsBlock(op) == op.opcode = "block"
  <2>1. /\ pageStats \in Stats /\ lastScan \in Stats /\ read \in Seq(PageOp)
        /\ \A k \in DOMAIN read : read[k] \in PageOp
    BY <1>1, ElementOfSeq, LenProperties DEF PageInv
  <2>2. \A c \in Counters : all[c] = lastScan[c] + pageStats[c]
    BY <2>1, PlusIs
  <2>3. Total(all) = Total(lastScan) + Total(pageStats)
    BY <2>1, PlusIs
  <2>4. {k \in DOMAIN read : IsBlock(read[k])} = At(read, Blocks)
    BY <2>1 DEF At, Blocks
  <2>5. {k \in DOMAIN read : Inscribed(read[k])} = At(read, Inscribing)
    BY <2>1 DEF At, Inscribing
  <2>6. {k \in DOMAIN read : NamesContent(read[k])} = At(read, Naming)
    BY <2>1 DEF At, Naming
  <2>7. all.skippedNotFinalized = ReadOf(IsBlock)
    BY <1>1, <2>2, <2>4 DEF PageInv, ReadOf, Counters
  <2>8. Total(all) = ReadOf(Inscribed)
    BY <1>1, <2>3, <2>5 DEF PageInv, ReadOf
  <2>9. all.matched + all.skippedNonJson + all.skippedOversized + all.skippedNoCid
          + all.skippedDuplicate + all.otherChannelOps = Total(all)
    BY DEF Total
  <2>10. Len(table) = lastScan.matched /\ Cardinality(Ids(table)) = Len(table)
    BY <1>1 DEF PageInv
  <2>11. Ids(table) \cup Ids(found) = {RowId(read[k]) : k \in {j \in DOMAIN read : NamesContent(read[j])}}
    BY <1>1, <2>6 DEF PageInv, RowsOf
  <2> QED
    BY <2>7, <2>8, <2>9, <2>10, <2>11 DEF SkipsAreCounted
<1> QED
  BY <1>1, PageStart, PageStep, PTL DEF PageSpec

-----------------------------------------------------------------------------
(* ChannelRef: where the match is, in terms of the text read so far.        *)

\* No id yet; the match may have begun with the hex digits the text ends in.
Seeking ==
  /\ IdPlaces = {} /\ digits = <<>>
  /\ Len(run) < IdLength /\ Len(run) <= Len(text)
  /\ \A k \in 1..Len(run) : /\ text[Len(text) - Len(run) + k] \in Hex
                            /\ run[k] = Lower(text[Len(text) - Len(run) + k])
  /\ Len(run) = Len(text) \/ text[Len(text) - Len(run)] \notin Hex

\* The first id begins at p, and is what was remembered of it.
IsId(p) ==
  /\ p \in IdPlaces /\ \A q \in IdPlaces : p <= q
  /\ Len(run) = IdLength /\ \A k \in 1..IdLength : run[k] = Lower(text[p + k - 1])

\* What follows the id, from the place at.
AfterIs(at) ==
  \/ matcher = "id" /\ at = Len(text) + 1 /\ digits = <<>>
  \/ matcher = "done" /\ at \in DOMAIN text /\ text[at] # "@" /\ digits = <<>>
  \/ /\ matcher \in {"at", "digits", "done"} /\ at \in DOMAIN text /\ text[at] = "@"
     /\ at + Len(digits) <= Len(text)
     /\ \A k \in 1..Len(digits) : digits[k] = text[at + k]
     /\ IF matcher = "done"
        THEN at + Len(digits) < Len(text) /\ text[at + Len(digits) + 1] \notin Decimal
        ELSE at + Len(digits) = Len(text)

RefInv ==
  /\ text \in Seq(Char) /\ run \in Seq(Char) /\ digits \in Seq(Decimal)
  /\ \/ matcher = "seek" /\ Seeking
     \/ matcher # "seek" /\ \E p \in IdPlaces : IsId(p) /\ AfterIs(p + IdLength)

\* A place of an id is all in the text.
LEMMA PlaceIs ==
  ASSUME text \in Seq(Char), NEW p \in IdPlaces
  PROVE  /\ p \in Nat \ {0} /\ p + IdLength - 1 <= Len(text) /\ Len(text) \in Nat
         /\ \A k \in p..p + IdLength - 1 : k \in DOMAIN text /\ text[k] \in Hex
<1>1. DOMAIN text = 1..Len(text) /\ Len(text) \in Nat
  BY LenProperties
<1>2. p \in DOMAIN text /\ \A k \in p..p + IdLength - 1 : k \in DOMAIN text /\ text[k] \in Hex
  BY DEF IdPlaces
<1>3. p + IdLength - 1 \in p..p + IdLength - 1
  BY <1>1, <1>2, RefAssumption DEF RefAssumption
<1> QED
  BY <1>1, <1>2, <1>3, RefAssumption DEF RefAssumption

\* One more character: what was a place stays one, and a new place ends with it.
LEMMA OneMore ==
  ASSUME text \in Seq(Char), NEW ch \in Char, Typed(ch)
  PROVE  /\ text' \in Seq(Char) /\ Len(text') = Len(text) + 1 /\ Len(text) \in Nat
         /\ DOMAIN text = 1..Len(text) /\ DOMAIN text' = 1..Len(text) + 1
         /\ text'[Len(text) + 1] = ch /\ \A k \in DOMAIN text : text'[k] = text[k]
         /\ IdPlaces \subseteq IdPlaces'
         /\ \A q \in IdPlaces' : \/ q \in IdPlaces
                                 \/ /\ q \in Nat \ {0} /\ q + IdLength - 1 = Len(text) + 1
                                    /\ \A k \in q..Len(text) + 1 : text'[k] \in Hex
<1>1. text' = Append(text, ch)
  BY DEF Typed
<1>2. /\ text' \in Seq(Char) /\ Len(text') = Len(text) + 1 /\ Len(text) \in Nat
      /\ DOMAIN text = 1..Len(text) /\ DOMAIN text' = 1..Len(text) + 1
      /\ text'[Len(text) + 1] = ch /\ \A k \in DOMAIN text : text'[k] = text[k]
  BY <1>1, AppendIs, LenProperties
<1>3. IdPlaces \subseteq IdPlaces'
  BY <1>2 DEF IdPlaces
<1>4. ASSUME NEW q \in IdPlaces', q \notin IdPlaces
      PROVE  /\ q \in Nat \ {0} /\ q + IdLength - 1 = Len(text) + 1
             /\ \A k \in q..Len(text) + 1 : text'[k] \in Hex
  <2>1. /\ q \in 1..Len(text) + 1
        /\ \A k \in q..q + IdLength - 1 : k \in 1..Len(text) + 1 /\ text'[k] \in Hex
    BY <1>2, <1>4 DEF IdPlaces
  <2>2. q + IdLength - 1 \in q..q + IdLength - 1
    BY <2>1, RefAssumption DEF RefAssumption
  <2>3. q + IdLength - 1 <= Len(text) + 1
    BY <1>2, <2>1, <2>2
  <2>4. CASE q + IdLength - 1 <= Len(text)
    <3>1. \A k \in q..q + IdLength - 1 : k \in DOMAIN text /\ text[k] \in Hex
      BY <1>2, <2>1, <2>4, RefAssumption DEF RefAssumption
    <3>2. q \in DOMAIN text
      BY <1>2, <2>1, <2>4, RefAssumption DEF RefAssumption
    <3> QED
      BY <1>4, <3>1, <3>2 DEF IdPlaces
  <2>5. CASE q + IdLength - 1 = Len(text) + 1
    BY <2>1, <2>5
  <2> QED
    BY <1>2, <2>1, <2>3, <2>4, <2>5, RefAssumption DEF RefAssumption
<1> QED
  BY <1>2, <1>3, <1>4

\* The id that was found is not found anew.
LEMMA IdStays ==
  ASSUME text \in Seq(Char), NEW ch \in Char, Typed(ch), UNCHANGED run, NEW p \in IdPlaces, IsId(p)
  PROVE  IsId(p)'
<1>1. /\ p \in Nat \ {0} /\ p + IdLength - 1 <= Len(text)
      /\ \A k \in p..p + IdLength - 1 : k \in DOMAIN text
  BY PlaceIs
<1>2. p \in IdPlaces'
  BY OneMore
<1>3. ASSUME NEW q \in IdPlaces' PROVE p <= q
  <2>1. CASE q \in IdPlaces
    BY <2>1 DEF IsId
  <2>2. CASE q \in Nat \ {0} /\ q + IdLength - 1 = Len(text) + 1
    BY <1>1, <2>2, OneMore, RefAssumption DEF RefAssumption
  <2> QED
    BY <2>1, <2>2, OneMore
<1>4. \A k \in 1..IdLength : text'[p + k - 1] = text[p + k - 1]
  <2>1. ASSUME NEW k \in 1..IdLength PROVE p + k - 1 \in p..p + IdLength - 1
    BY <1>1, <2>1, RefAssumption DEF RefAssumption
  <2> QED
    BY <1>1, <2>1, OneMore
<1> QED
  BY <1>2, <1>3, <1>4 DEF IsId

LEMMA Difference ==
  ASSUME NEW m \in Nat, NEW n \in Nat, n <= m
  PROVE  m - n \in Nat /\ m - n + 1 \in Nat \ {0}
OBVIOUS

\* The leftmost run of hex digits that is long enough is the id.
LEMMA SeekStep ==
  ASSUME RefInv, NEW ch \in Char, Seek(ch)
  PROVE  RefInv'
<1>1. /\ text \in Seq(Char) /\ run \in Seq(Char) /\ digits' = digits /\ digits = <<>>
      /\ Typed(ch) /\ Seeking
      /\ run' = IF ch \in Hex THEN Append(run, Lower(ch)) ELSE <<>>
      /\ matcher' = IF Len(run') = IdLength THEN "id" ELSE "seek"
  BY DEF RefInv, Seek, Seeking
<1>2. /\ text' \in Seq(Char) /\ Len(text') = Len(text) + 1 /\ Len(text) \in Nat
      /\ DOMAIN text = 1..Len(text) /\ DOMAIN text' = 1..Len(text) + 1
      /\ text'[Len(text) + 1] = ch /\ \A k \in DOMAIN text : text'[k] = text[k]
      /\ \A q \in IdPlaces' : \/ q \in IdPlaces
                              \/ /\ q \in Nat \ {0} /\ q + IdLength - 1 = Len(text) + 1
                                 /\ \A k \in q..Len(text) + 1 : text'[k] \in Hex
  BY <1>1, OneMore
<1>3. Len(run) \in Nat /\ IdLength \in Nat \ {0}
  BY <1>1, RefAssumption, LenProperties DEF RefAssumption
\* The hex digits that the new text ends in.
<1>4. /\ run' \in Seq(Char) /\ Len(run') \in Nat /\ Len(run') <= IdLength /\ Len(run') <= Len(text')
      /\ \A k \in 1..Len(run') : /\ text'[Len(text') - Len(run') + k] \in Hex
                                 /\ run'[k] = Lower(text'[Len(text') - Len(run') + k])
      /\ Len(run') = Len(text') \/ text'[Len(text') - Len(run')] \notin Hex
  <2>1. CASE ch \in Hex
    <3>1. Lower(ch) \in Char
      BY <2>1 DEF Char, Hex, Lower
    <3>2. /\ run' \in Seq(Char) /\ Len(run') = Len(run) + 1 /\ run'[Len(run) + 1] = Lower(ch)
          /\ \A k \in 1..Len(run) : run'[k] = run[k]
      BY <1>1, <2>1, <3>1, AppendIs
    <3>3. Len(run) < IdLength /\ Len(run) <= Len(text)
      BY <1>1 DEF Seeking
    <3>4. PICK from \in Nat : from = Len(text) - Len(run)
      <4>1. Len(text) \in Nat /\ Len(run) \in Nat /\ Len(run) <= Len(text)
        BY <1>2, <1>3, <3>3
      <4> QED
        BY <4>1, Difference
    <3>5. Len(text') - Len(run') = from /\ from + Len(run') = Len(text) + 1
      BY <1>2, <1>3, <3>2, <3>4
    <3>6. ASSUME NEW k \in 1..Len(run')
          PROVE  text'[from + k] \in Hex /\ run'[k] = Lower(text'[from + k])
      <4>1. CASE k = Len(run) + 1
        BY <1>2, <1>3, <2>1, <3>2, <3>4, <4>1
      <4>2. CASE k \in 1..Len(run)
        <5>1. text[from + k] \in Hex /\ run[k] = Lower(text[from + k])
          BY <1>1, <3>4, <4>2 DEF Seeking
        <5>2. from + k \in 1..Len(text)
          BY <1>2, <1>3, <3>4, <4>2
        <5> QED
          BY <1>2, <3>2, <4>2, <5>1, <5>2
      <4> QED
        BY <1>3, <3>2, <4>1, <4>2
    <3>7. from = 0 \/ text'[from] \notin Hex
      <4>1. Len(run) = Len(text) \/ text[from] \notin Hex
        BY <1>1, <3>4 DEF Seeking
      <4>2. from = 0 \/ from \in 1..Len(text)
        BY <1>2, <1>3, <3>4
      <4> QED
        BY <1>2, <1>3, <3>4, <4>1, <4>2
    <3>8. from = 0 => Len(run') = Len(text')
      BY <1>2, <1>3, <3>2, <3>5
    <3>9. Len(run') \in Nat /\ Len(run') <= IdLength /\ Len(run') <= Len(text')
      <4>1. Len(text') = Len(text) + 1 /\ Len(run') = Len(run) + 1
        BY <1>2, <3>2
      <4>2. /\ Len(text) \in Nat /\ Len(run) \in Nat /\ IdLength \in Nat
            /\ Len(run) < IdLength /\ Len(run) <= Len(text)
        BY <1>2, <1>3, <3>3
      <4> QED
        BY <4>1, <4>2
    <3> QED
      BY <3>2, <3>5, <3>6, <3>7, <3>8, <3>9
  <2>2. CASE ch \notin Hex
    BY <1>1, <1>2, <1>3, <2>2
  <2> QED
    BY <2>1, <2>2
\* A place in the new text is where they begin.
<1>5. ASSUME NEW q \in IdPlaces'
      PROVE  Len(run') = IdLength /\ q = Len(text') - IdLength + 1
  <2>1. /\ q \in Nat \ {0} /\ q + IdLength - 1 = Len(text')
        /\ \A k \in q..Len(text') : text'[k] \in Hex
    BY <1>1, <1>2 DEF Seeking
  <2>2. ~(q <= Len(text') - Len(run'))
    BY <1>2, <1>4, <2>1
  <2> QED
    BY <1>2, <1>3, <1>4, <2>1, <2>2
<1>6. CASE Len(run') # IdLength
  <2>1. IdPlaces' = {}
    BY <1>5, <1>6
  <2>2. digits' = <<>> /\ Len(run') < IdLength
    BY <1>1, <1>3, <1>4, <1>6
  <2>3. Seeking'
    BY <1>4, <2>1, <2>2 DEF Seeking
  <2> QED
    BY <1>1, <1>2, <1>4, <1>6, <2>3 DEF RefInv
<1>7. CASE Len(run') = IdLength
  <2>1. PICK p \in Nat \ {0} : p = Len(text') - IdLength + 1
    <3>1. Len(text') \in Nat /\ IdLength \in Nat /\ IdLength <= Len(text')
      BY <1>2, <1>3, <1>4, <1>7
    <3> QED
      BY <3>1, Difference
  <2>2. ASSUME NEW k \in p..p + IdLength - 1 PROVE k \in DOMAIN text' /\ text'[k] \in Hex
    <3>1. k \in DOMAIN text' /\ k - p + 1 \in 1..Len(run')
          /\ Len(text') - Len(run') + (k - p + 1) = k
      BY <1>2, <1>3, <1>7, <2>1
    <3> QED
      BY <1>4, <3>1
  <2>3. p \in IdPlaces'
    <3>1. p \in DOMAIN text'
      BY <1>3, <2>1, <2>2
    <3> QED
      BY <2>2, <3>1 DEF IdPlaces
  <2>4. ASSUME NEW q \in IdPlaces' PROVE p <= q
    BY <1>5, <2>1
  <2>5. \A k \in 1..IdLength : run'[k] = Lower(text'[p + k - 1])
    <3>1. ASSUME NEW k \in 1..IdLength PROVE Len(text') - Len(run') + k = p + k - 1
      BY <1>2, <1>3, <1>7, <2>1
    <3> QED
      BY <1>4, <1>7, <3>1
  <2>6. IsId(p)'
    BY <1>7, <2>3, <2>4, <2>5 DEF IsId
  <2>7. p + IdLength = Len(text') + 1 /\ matcher' = "id"
    BY <1>1, <1>2, <1>3, <1>7, <2>1
  <2>8. AfterIs(p + IdLength)'
    BY <1>1, <2>7 DEF AfterIs
  <2> QED
    BY <1>1, <1>2, <1>4, <2>3, <2>6, <2>7, <2>8 DEF RefInv
<1> QED
  BY <1>6, <1>7

\* Behind the id.
LEMMA BehindStep ==
  ASSUME RefInv, NEW ch \in Char, AfterId(ch) \/ Hint(ch) \/ Rest(ch)
  PROVE  RefInv'
<1>1. /\ text \in Seq(Char) /\ run \in Seq(Char) /\ digits \in Seq(Decimal)
      /\ matcher # "seek" /\ matcher' # "seek" /\ Typed(ch) /\ UNCHANGED run
  BY DEF RefInv, AfterId, Hint, Rest
<1>2. PICK p \in IdPlaces : IsId(p) /\ AfterIs(p + IdLength)
  BY <1>1 DEF RefInv
<1>3. /\ text' \in Seq(Char) /\ Len(text') = Len(text) + 1 /\ Len(text) \in Nat
      /\ DOMAIN text = 1..Len(text) /\ DOMAIN text' = 1..Len(text) + 1
      /\ text'[Len(text) + 1] = ch /\ \A k \in DOMAIN text : text'[k] = text[k]
      /\ p \in IdPlaces'
  BY <1>1, OneMore
<1>4. IsId(p)'
  BY <1>1, <1>2, IdStays
<1>5. PICK at \in Nat \ {0} : at = p + IdLength
  BY <1>1, PlaceIs, RefAssumption DEF RefAssumption
<1>6. AfterIs(at) /\ Len(digits) \in Nat
  BY <1>1, <1>2, <1>5, LenProperties
<1>7. digits' \in Seq(Decimal) /\ AfterIs(at)'
  <2>1. CASE AfterId(ch)
    <3>1. at = Len(text) + 1 /\ digits = <<>> /\ digits' = digits
          /\ matcher' = IF ch = "@" THEN "at" ELSE "done"
      BY <1>6, <2>1 DEF AfterId, AfterIs
    <3> QED
      BY <1>3, <3>1 DEF AfterIs
  <2>2. CASE Hint(ch)
    <3>1. /\ at \in DOMAIN text /\ text[at] = "@" /\ at + Len(digits) = Len(text)
          /\ \A k \in 1..Len(digits) : digits[k] = text[at + k]
      BY <1>6, <2>2 DEF Hint, AfterIs
    <3>2. \A k \in 1..Len(digits) : digits[k] = text'[at + k]
      <4>1. \A k \in 1..Len(digits) : at + k \in 1..Len(text)
        BY <1>3, <1>6, <3>1
      <4> QED
        BY <1>3, <3>1, <4>1
    <3>3. CASE ch \in Decimal
      <4>1. matcher' = "digits" /\ digits' = Append(digits, ch)
        BY <2>2, <3>3 DEF Hint
      <4>2. /\ digits' \in Seq(Decimal) /\ Len(digits') = Len(digits) + 1
            /\ digits'[Len(digits) + 1] = ch /\ \A k \in 1..Len(digits) : digits'[k] = digits[k]
        BY <1>1, <3>3, <4>1, AppendIs
      <4>3. \A k \in 1..Len(digits') : digits'[k] = text'[at + k]
        <5>1. at + (Len(digits) + 1) = Len(text) + 1
          BY <1>3, <1>6, <3>1
        <5>2. digits'[Len(digits) + 1] = text'[at + (Len(digits) + 1)]
          BY <1>3, <4>2, <5>1
        <5>3. \A k \in 1..Len(digits') : k \in 1..Len(digits) \/ k = Len(digits) + 1
          BY <1>6, <4>2
        <5> QED
          BY <3>2, <4>2, <5>2, <5>3
      <4>4. at + Len(digits') = Len(text')
        <5>1. at + (Len(digits) + 1) = at + Len(digits) + 1
          BY <1>6
        <5>2. Len(text') = Len(text) + 1 /\ at + Len(digits) = Len(text) /\ Len(digits') = Len(digits) + 1
          BY <1>3, <3>1, <4>2
        <5> QED
          BY <5>1, <5>2
      <4>5. at \in DOMAIN text' /\ text'[at] = "@" /\ Len(text') \in Nat
        BY <1>3, <3>1
      <4> QED
        BY <4>1, <4>2, <4>3, <4>4, <4>5 DEF AfterIs
    <3>4. CASE ch \notin Decimal
      <4>1. matcher' = "done" /\ digits' = digits
        BY <2>2, <3>4 DEF Hint
      <4>2. at + Len(digits) + 1 = Len(text) + 1 /\ at + Len(digits) < Len(text')
        BY <1>3, <1>6, <3>1
      <4>3. text'[at + Len(digits) + 1] \notin Decimal
        BY <1>3, <3>4, <4>2
      <4>4. at \in DOMAIN text' /\ text'[at] = "@" /\ at + Len(digits) <= Len(text')
        BY <1>3, <1>6, <3>1
      <4> QED
        BY <1>1, <3>2, <4>1, <4>2, <4>3, <4>4 DEF AfterIs
    <3> QED
      BY <3>3, <3>4
  <2>3. CASE Rest(ch)
    <3>1. matcher = "done" /\ matcher' = "done" /\ digits' = digits
      BY <2>3 DEF Rest
    <3>2. CASE at \in DOMAIN text /\ text[at] # "@" /\ digits = <<>>
      BY <1>3, <3>1, <3>2 DEF AfterIs
    <3>3. CASE /\ at \in DOMAIN text /\ text[at] = "@" /\ at + Len(digits) < Len(text)
               /\ \A k \in 1..Len(digits) : digits[k] = text[at + k]
               /\ text[at + Len(digits) + 1] \notin Decimal
      <4>1. \A k \in 1..Len(digits) + 1 : at + k \in 1..Len(text)
        BY <1>3, <1>6, <3>3
      <4>2. \A k \in 1..Len(digits) : digits[k] = text'[at + k]
        <5>1. \A k \in 1..Len(digits) : at + k \in DOMAIN text
          BY <1>3, <1>6, <4>1
        <5>2. \A k \in DOMAIN text : text'[k] = text[k]
          BY <1>3
        <5>3. \A k \in 1..Len(digits) : digits[k] = text[at + k]
          BY <3>3
        <5> QED
          BY <5>1, <5>2, <5>3
      <4>3. at + Len(digits) + 1 \in 1..Len(text)
        BY <1>3, <1>6, <3>3
      <4>4. text'[at + Len(digits) + 1] \notin Decimal
        BY <1>3, <3>3, <4>3
      <4>5. at + Len(digits) < Len(text') /\ at + Len(digits) <= Len(text')
        BY <1>3, <1>6, <3>3
      <4> QED
        BY <1>1, <1>3, <3>1, <3>3, <4>2, <4>4, <4>5 DEF AfterIs
    <3> QED
      BY <1>6, <3>1, <3>2, <3>3 DEF AfterIs
  <2> QED
    BY <2>1, <2>2, <2>3
<1>8. AfterIs(p + IdLength)'
  BY <1>5, <1>7
<1> QED
  BY <1>1, <1>3, <1>4, <1>7, <1>8 DEF RefInv

LEMMA RefStart ==
  ASSUME RefInit
  PROVE  RefInv
<1>1. text = <<>> /\ run = <<>> /\ digits = <<>> /\ matcher = "seek"
  BY DEF RefInit
<1>2. IdPlaces = {}
  BY <1>1 DEF IdPlaces
<1>3. Seeking
  BY <1>1, <1>2, RefAssumption DEF Seeking, RefAssumption
<1> QED
  BY <1>1, <1>3 DEF RefInv

LEMMA RefStep ==
  ASSUME RefInv, [RefNext]_refVars
  PROVE  RefInv'
<1>1. CASE UNCHANGED refVars
  <2>1. /\ text' = text /\ run' = run /\ digits' = digits /\ matcher' = matcher
        /\ IdPlaces' = IdPlaces
    BY <1>1 DEF refVars, IdPlaces
  <2>2. Seeking' <=> Seeking
    BY <2>1 DEF Seeking
  <2>3. \A p \in IdPlaces : (IsId(p)' <=> IsId(p)) /\ (AfterIs(p + IdLength)' <=> AfterIs(p + IdLength))
    BY <2>1 DEF IsId, AfterIs
  <2> QED
    BY <2>1, <2>2, <2>3 DEF RefInv
<1> QED
  BY <1>1, SeekStep, BehindStep DEF RefNext

\* The decimal digits behind an "@" are those that were read.
LEMMA HintPlacesAre ==
  ASSUME text \in Seq(Char), digits \in Seq(Decimal), NEW at \in DOMAIN text,
         at + Len(digits) <= Len(text),
         \A k \in 1..Len(digits) : digits[k] = text[at + k],
         \/ at + Len(digits) = Len(text)
         \/ at + Len(digits) < Len(text) /\ text[at + Len(digits) + 1] \notin Decimal
  PROVE  HintPlaces(at) = at + 1..at + Len(digits)
<1>1. /\ DOMAIN text = 1..Len(text) /\ Len(text) \in Nat /\ Len(digits) \in Nat /\ at \in Nat \ {0}
      /\ \A k \in 1..Len(digits) : digits[k] \in Decimal
  BY LenProperties, ElementOfSeq
<1>2. ASSUME NEW k \in HintPlaces(at) PROVE k \in at + 1..at + Len(digits)
  <2>1. k \in 1..Len(text) /\ k > at /\ \A j \in at + 1..k : text[j] \in Decimal
    BY <1>1 DEF HintPlaces
  <2>2. CASE k > at + Len(digits)
    <3>1. at + Len(digits) + 1 \in at + 1..k /\ at + Len(digits) < Len(text)
      BY <1>1, <2>1, <2>2
    <3>2. text[at + Len(digits) + 1] \in Decimal
      BY <2>1, <3>1
    <3>3. at + Len(digits) # Len(text)
      BY <1>1, <3>1
    <3> QED
      BY <3>2, <3>3
  <2> QED
    BY <1>1, <2>1, <2>2
<1>3. ASSUME NEW k \in at + 1..at + Len(digits) PROVE k \in HintPlaces(at)
  <2>1. k \in DOMAIN text /\ k > at
    BY <1>1
  <2>2. ASSUME NEW j \in at + 1..k PROVE text[j] \in Decimal
    <3>1. PICK i \in 1..Len(digits) : j = at + i
      <4>1. j - at \in 1..Len(digits) /\ j = at + (j - at)
        BY <1>1
      <4> QED
        BY <4>1
    <3> QED
      BY <1>1, <3>1
  <2> QED
    BY <2>1, <2>2 DEF HintPlaces
<1> QED
  BY <1>2, <1>3

\* A text names the first channel id in it, in lower case, and a slot counts only when
\* it stands right behind that id, for ids, hints and texts of any length (the comment in
\* parseChannelRef: "an unrelated @123 elsewhere in a pasted URL must not become a slot
\* hint").
THEOREM AnchoredHint == RefSpec => []HintIsAnchored
<1>1. ASSUME RefInv PROVE HintIsAnchored
  <2>1. /\ text \in Seq(Char) /\ run \in Seq(Char) /\ digits \in Seq(Decimal)
        /\ Len(digits) \in Nat /\ IdLength \in Nat \ {0} /\ MaxDigits \in Nat \ {0}
    BY <1>1, RefAssumption, LenProperties DEF RefInv, RefAssumption
  <2>2. CASE matcher = "seek"
    BY <1>1, <2>2 DEF RefInv, Seeking, HintIsAnchored, Parsed
  <2>3. CASE matcher # "seek"
    <3>1. PICK p \in IdPlaces : IsId(p) /\ AfterIs(p + IdLength)
      BY <1>1, <2>3 DEF RefInv
    <3>2. IdPlaces \subseteq Nat
      BY <2>1, PlaceIs
    <3>3. IdPlace = p
      <4>1. \A x \in IdPlaces : (\A q \in IdPlaces : x <= q) <=> x = p
        BY <3>1, <3>2 DEF IsId
      <4> QED
        BY <4>1 DEF IdPlace
    <3>4. [k \in 1..IdLength |-> Lower(text[p + k - 1])] = run
      <4>1. run = [k \in 1..IdLength |-> run[k]]
        BY <2>1, <3>1, LenProperties DEF IsId
      <4> QED
        BY <3>1, <4>1 DEF IsId
    <3> DEFINE at == p + IdLength
               hint == IF at \in DOMAIN text /\ text[at] = "@" THEN HintPlaces(at) ELSE {}
               slot == IF hint = {} \/ \E k \in hint : k > at + MaxDigits THEN <<>>
                       ELSE [k \in 1..(CHOOSE n \in 1..MaxDigits :
                                         at + n \in hint /\ at + n + 1 \notin hint) |-> text[at + k]]
    <3>5. slot = IF Len(digits) <= MaxDigits THEN digits ELSE <<>>
      <4>1. at \in Nat /\ DOMAIN text = 1..Len(text) /\ Len(text) \in Nat
        BY <2>1, <3>2, LenProperties
      <4>2. AfterIs(at)
        BY <3>1
      <4> HIDE DEF at
      <4>3. CASE digits = <<>> /\ (at = Len(text) + 1 \/ text[at] # "@")
        <5>1. hint = {}
          BY <4>1, <4>3
        <5>2. Len(digits) = 0
          BY <4>3
        <5> QED
          BY <2>1, <4>3, <5>1, <5>2
      <4>4. CASE /\ at \in DOMAIN text /\ text[at] = "@" /\ at + Len(digits) <= Len(text)
                 /\ \A k \in 1..Len(digits) : digits[k] = text[at + k]
                 /\ \/ at + Len(digits) = Len(text)
                    \/ at + Len(digits) < Len(text) /\ text[at + Len(digits) + 1] \notin Decimal
        <5>1. hint = at + 1..at + Len(digits)
          BY <2>1, <4>4, HintPlacesAre
        <5> HIDE DEF hint
        <5>2. PICK n \in Nat : n = Len(digits)
          BY <2>1
        <5>3. CASE n = 0
          <6>1. hint = {}
            BY <4>1, <5>1, <5>2, <5>3
          <6>2. digits = <<>>
            BY <2>1, <5>2, <5>3, EmptySeq
          <6> QED
            BY <6>1, <6>2
        <5>4. CASE n > MaxDigits
          <6>1. at + n \in hint /\ at + n > at + MaxDigits
            BY <2>1, <4>1, <5>1, <5>2, <5>4
          <6> QED
            BY <2>1, <5>2, <5>4, <6>1
        <5>5. CASE n \in 1..MaxDigits
          <6>1. hint # {} /\ ~\E k \in hint : k > at + MaxDigits
            <7>1. at + n \in hint
              BY <4>1, <5>1, <5>2, <5>5
            <7>2. \A k \in hint : ~(k > at + MaxDigits)
              BY <2>1, <4>1, <5>1, <5>2, <5>5
            <7> QED
              BY <7>1, <7>2
          <6>2. (CHOOSE m \in 1..MaxDigits : at + m \in hint /\ at + m + 1 \notin hint) = n
            <7>1. \A m \in 1..MaxDigits : at + m \in hint /\ at + m + 1 \notin hint <=> m = n
              BY <2>1, <4>1, <5>1, <5>2, <5>5
            <7> QED
              BY <5>5, <7>1
          <6>3. digits = [k \in 1..n |-> text[at + k]]
            <7>1. digits = [k \in 1..n |-> digits[k]]
              BY <2>1, <5>2, LenProperties
            <7> QED
              BY <4>4, <5>2, <7>1
          <6>4. slot = [k \in 1..n |-> text[at + k]]
            BY <6>1, <6>2
          <6> HIDE DEF slot
          <6>5. slot = digits /\ Len(digits) <= MaxDigits
            BY <2>1, <5>2, <5>5, <6>3, <6>4
          <6> QED
            BY <6>5
        <5> QED
          BY <2>1, <5>3, <5>4, <5>5
      <4> QED
        BY <4>1, <4>2, <4>3, <4>4 DEF AfterIs
    <3>6. IdPlaces # {}
      BY <3>1
    <3> HIDE DEF slot
    <3>7. Parsed = [channel |-> [k \in 1..IdLength |-> Lower(text[p + k - 1])], hint |-> slot]
      BY <2>3, <3>4, <3>5 DEF Parsed
    <3> QED
      BY <3>3, <3>6, <3>7 DEF HintIsAnchored, slot
  <2> QED
    BY <2>2, <2>3
<1> QED
  BY <1>1, RefStart, RefStep, PTL DEF RefSpec

-----------------------------------------------------------------------------
(* IaFiles: the document.                                                   *)

\* A set of places has a last one.
LEMMA LastPlace ==
  ASSUME NEW n \in Nat, NEW ks \in SUBSET (1..n), ks # {}
  PROVE  \E k \in ks : \A j \in ks : j <= k
<1> DEFINE T == {d \in Nat : \E k \in ks : d = n - k}
<1>1. T \in SUBSET Nat /\ T # {}
  <2>1. PICK k \in ks : TRUE
    OBVIOUS
  <2>2. n - k \in Nat
    BY <2>1
  <2> QED
    BY <2>1, <2>2 DEF T
<1>2. PICK d \in T : \A m \in T : d <= m
  <2> HIDE DEF T
  <2> QED
    BY <1>1, LeastNumber
<1>3. PICK k \in ks : d = n - k
  BY <1>2
<1>4. ASSUME NEW j \in ks PROVE j <= k
  <2>1. n - j \in T
    BY DEF T
  <2>2. n - k <= n - j
    BY <1>2, <1>3, <2>1
  <2> QED
    BY <1>3, <2>2
<1> QED
  BY <1>4

LEMMA SameEntry ==
  ASSUME NEW S, NEW f \in [name : S, md5 : S, sha1 : S], NEW g \in [name : S, md5 : S, sha1 : S],
         f.name = g.name, f.md5 = g.md5, f.sha1 = g.sha1
  PROVE  f = g
OBVIOUS

LEMMA NewEntry ==
  ASSUME NEW v
  PROVE  [name |-> v, md5 |-> "", sha1 |-> ""] = [Entry EXCEPT !.name = v]
<1> DEFINE S == {v, ""}
<1>1. PICK e : e = Entry
  OBVIOUS
<1>2. e \in [name : S, md5 : S, sha1 : S] /\ e.md5 = "" /\ e.sha1 = ""
  BY <1>1 DEF Entry
<1>3. PICK f : f = [e EXCEPT !.name = v]
  OBVIOUS
<1>4. PICK g : g = [name |-> v, md5 |-> "", sha1 |-> ""]
  OBVIOUS
<1>5. f \in [name : S, md5 : S, sha1 : S] /\ f.name = v /\ f.md5 = "" /\ f.sha1 = ""
  BY <1>2, <1>3
<1>6. g \in [name : S, md5 : S, sha1 : S] /\ g.name = v /\ g.md5 = "" /\ g.sha1 = ""
  BY <1>4
<1> HIDE DEF S
<1>7. f = g
  BY <1>5, <1>6, SameEntry
<1> QED
  BY <1>1, <1>3, <1>4, <1>7

\* A read element: the document as it was, and one more.
Grown(x) == doc \in Seq(Element) /\ doc' = Append(doc, x)

LEMMA GrownIs ==
  ASSUME NEW x \in Element, Grown(x)
  PROVE  /\ doc' \in Seq(Element) /\ Len(doc) \in Nat /\ Len(doc') = Len(doc) + 1
         /\ DOMAIN doc = 1..Len(doc) /\ DOMAIN doc' = 1..Len(doc) + 1
         /\ doc'[Len(doc) + 1] = x /\ \A k \in 1..Len(doc) : doc'[k] = doc[k]
<1>1. /\ Append(doc, x) \in Seq(Element) /\ Len(Append(doc, x)) = Len(doc) + 1 /\ Len(doc) \in Nat
      /\ DOMAIN doc = 1..Len(doc)
      /\ Append(doc, x)[Len(doc) + 1] = x
      /\ \A k \in DOMAIN doc : Append(doc, x)[k] = doc[k]
  BY AppendIs DEF Grown
<1>2. DOMAIN Append(doc, x) = 1..Len(doc) + 1
  BY <1>1, LenProperties
<1> QED
  BY <1>1, <1>2 DEF Grown

\* A checksum that an element holds is that of one of its places.
LEMMA LastOfIs ==
  ASSUME doc \in Seq(Element), NEW e, NEW tag, Within(e, tag) # {}
  PROVE  \E k \in Within(e, tag) : /\ \A j \in Within(e, tag) : j <= k
                                   /\ LastOf(e, tag) = doc[k].value
<1>1. Len(doc) \in Nat /\ DOMAIN doc = 1..Len(doc)
  BY LenProperties
<1>2. Within(e, tag) \subseteq 1..Len(doc)
  BY <1>1 DEF Within, Between
<1> HIDE DEF Within
<1>3. \E k \in Within(e, tag) : \A j \in Within(e, tag) : j <= k
  BY <1>1, <1>2, LastPlace
<1> DEFINE last == CHOOSE k \in Within(e, tag) : \A j \in Within(e, tag) : j <= k
<1>4. last \in Within(e, tag) /\ \A j \in Within(e, tag) : j <= last
  BY <1>3
<1>5. LastOf(e, tag) = doc[last].value
  BY DEF LastOf
<1> HIDE DEF last
<1> QED
  BY <1>4, <1>5

\* The last place of a checksum has its value.
LastOfIsAt ==
  doc \in Seq(Element) =>
    \A e, tag : \A k \in Within(e, tag) :
      (\A j \in Within(e, tag) : j <= k) => LastOf(e, tag) = doc[k].value

LEMMA LastOfAt == LastOfIsAt
<1> SUFFICES ASSUME doc \in Seq(Element), NEW e, NEW tag, NEW k \in Within(e, tag),
                    \A j \in Within(e, tag) : j <= k
             PROVE  LastOf(e, tag) = doc[k].value
  BY DEF LastOfIsAt
<1>1. Len(doc) \in Nat /\ DOMAIN doc = 1..Len(doc)
  BY LenProperties
<1>2. Within(e, tag) \subseteq 1..Len(doc)
  BY <1>1 DEF Within, Between
<1>3. PICK i \in Within(e, tag) : (\A j \in Within(e, tag) : j <= i) /\ LastOf(e, tag) = doc[i].value
  BY LastOfIs
<1>4. i <= k /\ k <= i /\ i \in Nat /\ k \in Nat
  BY <1>1, <1>2, <1>3
<1> QED
  BY <1>3, <1>4

\* What stands before a place is not changed by what is read behind it.
LEMMA Stays ==
  ASSUME NEW x \in Element, Grown(x), NEW e \in 1..Len(doc) + 1
  PROVE  /\ StartOf(e)' = StartOf(e) /\ Inside(e)' = Inside(e)
         /\ \A tag : Within(e, tag)' = Within(e, tag)
         /\ StartOf(e) # {} => doc'[Inside(e)] = doc[Inside(e)] /\ Described(e)' = Described(e)
<1>1. /\ Len(doc) \in Nat /\ DOMAIN doc = 1..Len(doc) /\ DOMAIN doc' = 1..Len(doc) + 1
      /\ \A k \in 1..Len(doc) : doc'[k] = doc[k]
  BY GrownIs
<1>2. \A s : Between(s, e)' = Between(s, e) /\ Between(s, e) \subseteq 1..Len(doc)
  BY <1>1 DEF Between
<1>3. \A s \in 1..e - 1 : doc'[s] = doc[s]
  BY <1>1
<1>4. StartOf(e)' = StartOf(e)
  <2> HIDE DEF Between
  <2>1. \A s : \A k \in Between(s, e) : doc'[k] = doc[k]
    BY <1>1, <1>2
  <2>2. StartOf(e) \subseteq 1..e - 1 /\ StartOf(e)' \subseteq 1..e - 1
    BY DEF StartOf
  <2>3. ASSUME NEW s \in 1..e - 1 PROVE s \in StartOf(e)' <=> s \in StartOf(e)
    BY <1>2, <1>3, <2>1 DEF StartOf
  <2> QED
    BY <2>2, <2>3
<1>5. Inside(e)' = Inside(e)
  BY <1>4 DEF Inside
<1>6. \A tag : Within(e, tag)' = Within(e, tag) /\ Within(e, tag) \subseteq 1..Len(doc)
  <2> HIDE DEF Between, Inside
  <2>1. \A tag : Within(e, tag)' = {k \in Between(Inside(e), e) : doc'[k].tag = tag}
    BY <1>2, <1>5 DEF Within
  <2>2. \A k \in Between(Inside(e), e) : doc'[k] = doc[k]
    BY <1>1, <1>2
  <2>3. \A tag : Within(e, tag) \subseteq 1..Len(doc)
    BY <1>2 DEF Within
  <2> QED
    BY <2>1, <2>2, <2>3 DEF Within
<1>7. \A tag : LastOf(e, tag)' = LastOf(e, tag)
  <2> SUFFICES ASSUME NEW tag PROVE LastOf(e, tag)' = LastOf(e, tag)
    OBVIOUS
  <2>1. CASE Within(e, tag) = {}
    <3> HIDE DEF Within
    <3> QED
      BY <1>6, <2>1 DEF LastOf
  <2>2. CASE Within(e, tag) # {}
    <3> HIDE DEF Within
    <3>1. doc \in Seq(Element)
      BY DEF Grown
    <3>2. PICK k \in Within(e, tag) : /\ \A j \in Within(e, tag) : j <= k
                                      /\ LastOf(e, tag) = doc[k].value
      BY <2>2, <3>1, LastOfIs
    <3>3. PICK i \in Within(e, tag) : i = CHOOSE k0 \in Within(e, tag) : \A j \in Within(e, tag) : j <= k0
      BY <3>2
    <3>4. LastOf(e, tag) = doc[i].value /\ LastOf(e, tag)' = doc'[i].value
      BY <1>6, <2>2, <3>3 DEF LastOf
    <3>5. doc'[i] = doc[i]
      BY <1>1, <1>6
    <3> QED
      BY <3>4, <3>5
  <2> QED
    BY <2>1, <2>2
<1>8. ASSUME StartOf(e) # {}
      PROVE  doc'[Inside(e)] = doc[Inside(e)] /\ Described(e)' = Described(e)
  <2>1. Inside(e) \in 1..e - 1
    BY <1>8 DEF Inside, StartOf
  <2>2. doc'[Inside(e)] = doc[Inside(e)]
    BY <1>3, <2>1
  <2> QED
    BY <1>5, <1>7, <2>2 DEF Described
<1> QED
  BY <1>4, <1>5, <1>6, <1>8

\* The files that are closed: one that ends where the document ended is new.
LEMMA ListedGrows ==
  ASSUME NEW x \in Element, Grown(x), NEW a \in Nat, a = Len(doc) + 1
  PROVE  /\ Listed \subseteq 1..a - 1 /\ \A e \in Listed : Described(e)' = Described(e)
         /\ Listed' = Listed \cup
                        (IF /\ x.tag = "/file" /\ StartOf(a) # {}
                            /\ doc[Inside(a)].value # "" /\ Within(a, "summation") = {}
                         THEN {a} ELSE {})
<1>1. /\ Len(doc) \in Nat /\ DOMAIN doc = 1..Len(doc) /\ DOMAIN doc' = 1..Len(doc) + 1
      /\ doc'[a] = x /\ \A k \in 1..Len(doc) : doc'[k] = doc[k]
  BY GrownIs
<1>2. ASSUME NEW e \in 1..Len(doc) + 1
      PROVE  /\ StartOf(e)' = StartOf(e)
             /\ Within(e, "summation")' = Within(e, "summation")
             /\ StartOf(e) # {} => /\ doc'[Inside(e)'] = doc[Inside(e)]
                                   /\ Described(e)' = Described(e)
  BY Stays
<1>3. Listed \subseteq Closed /\ Closed \subseteq 1..Len(doc) /\ \A e \in Closed : StartOf(e) # {}
  BY <1>1 DEF Listed, Closed
<1>4. ASSUME NEW e \in 1..Len(doc) + 1
      PROVE  e \in Listed' <=>
               /\ doc'[e].tag = "/file" /\ StartOf(e) # {}
               /\ doc[Inside(e)].value # "" /\ Within(e, "summation") = {}
  <2> HIDE DEF StartOf, Inside, Within
  <2>1. e \in Closed' <=> doc'[e].tag = "/file" /\ StartOf(e) # {}
    BY <1>1, <1>2 DEF Closed
  <2>2. e \in Listed' <=> e \in Closed' /\ doc'[Inside(e)'].value # "" /\ Within(e, "summation")' = {}
    BY DEF Listed
  <2> QED
    BY <1>2, <2>1, <2>2
<1>5. ASSUME NEW e \in 1..Len(doc)
      PROVE  e \in Listed <=>
               /\ doc[e].tag = "/file" /\ StartOf(e) # {}
               /\ doc[Inside(e)].value # "" /\ Within(e, "summation") = {}
  BY <1>1 DEF Closed, Listed
<1>6. Listed' \subseteq 1..Len(doc) + 1
  BY <1>1 DEF Closed, Listed
<1>7. \A e \in Listed : Described(e)' = Described(e)
  BY <1>1, <1>2, <1>3
<1>8. ASSUME NEW e \in 1..Len(doc) PROVE e \in Listed' <=> e \in Listed
  <2>1. e \in 1..Len(doc) + 1 /\ doc'[e] = doc[e]
    BY <1>1
  <2> HIDE DEF Listed, StartOf, Inside, Within
  <2> QED
    BY <1>4, <1>5, <2>1
<1>9. a \in Listed' <=> /\ x.tag = "/file" /\ StartOf(a) # {}
                        /\ doc[Inside(a)].value # "" /\ Within(a, "summation") = {}
  <2>1. a \in 1..Len(doc) + 1 /\ doc'[a] = x
    BY <1>1
  <2> HIDE DEF Listed, StartOf, Inside, Within
  <2> QED
    BY <1>4, <2>1
<1>10. Listed \subseteq 1..a - 1
  <2>1. a - 1 = Len(doc)
    BY <1>1
  <2> HIDE DEF Listed, Closed
  <2> QED
    BY <1>3, <2>1
<1>11. \A e \in 1..Len(doc) + 1 : e = a \/ e \in 1..Len(doc)
  BY <1>1
<1> QED
  <2> HIDE DEF Listed
  <2>1. a \notin Listed /\ a - 1 = Len(doc)
    BY <1>1, <1>10
  <2> QED
    BY <1>6, <1>7, <1>8, <1>9, <1>10, <1>11, <2>1

\* An element inside a file.
LEMMA InsideGrows ==
  ASSUME NEW x \in Element, Grown(x), x.tag \notin {"file", "/file"},
         NEW a \in Nat, a = Len(doc) + 1
  PROVE  /\ StartOf(a + 1)' = StartOf(a)
         /\ StartOf(a) # {} =>
              /\ \A tag : Within(a + 1, tag)' = Within(a, tag) \cup (IF x.tag = tag THEN {a} ELSE {})
              /\ doc'[Inside(a + 1)'] = doc[Inside(a)]
              /\ \A tag : LastOf(a + 1, tag)' = IF x.tag = tag THEN x.value ELSE LastOf(a, tag)
<1>1. /\ doc' \in Seq(Element)
      /\ Len(doc) \in Nat /\ DOMAIN doc = 1..Len(doc) /\ DOMAIN doc' = 1..Len(doc) + 1
      /\ doc'[a] = x /\ \A k \in 1..Len(doc) : doc'[k] = doc[k]
  BY GrownIs
<1>2. \A s \in 1..Len(doc) : Between(s, a + 1)' = Between(s, a) \cup {a}
  BY <1>1 DEF Between
<1>3. StartOf(a + 1)' = StartOf(a)
  <2>1. StartOf(a + 1)' \subseteq 1..a /\ a \notin StartOf(a + 1)'
    BY <1>1 DEF StartOf
  <2>2. StartOf(a) \subseteq 1..Len(doc)
    BY <1>1 DEF StartOf
  <2>3. \A s : Between(s, a) \subseteq 1..Len(doc)
    BY <1>1 DEF Between
  <2>4. ASSUME NEW s \in 1..Len(doc) PROVE s \in StartOf(a + 1)' <=> s \in StartOf(a)
    <3>1. s \in 1..(a + 1) - 1 /\ s \in 1..a - 1
      BY <1>1
    <3> HIDE DEF Between
    <3>2. s \in StartOf(a + 1)' <=> /\ doc'[s].tag = "file"
                                   /\ \A k \in Between(s, a) \cup {a} : doc'[k].tag \notin {"file", "/file"}
      BY <1>2, <3>1 DEF StartOf
    <3>3. s \in StartOf(a) <=> /\ doc[s].tag = "file"
                               /\ \A k \in Between(s, a) : doc[k].tag \notin {"file", "/file"}
      BY <3>1 DEF StartOf
    <3> QED
      BY <1>1, <2>3, <3>2, <3>3
  <2>5. \A s \in 1..a : s = a \/ s \in 1..Len(doc)
    BY <1>1
  <2> HIDE DEF StartOf
  <2> QED
    BY <2>1, <2>2, <2>4, <2>5
<1>4. Inside(a + 1)' = Inside(a)
  <2> HIDE DEF StartOf
  <2> QED
    BY <1>3 DEF Inside
<1> SUFFICES ASSUME StartOf(a) # {}
             PROVE  /\ \A tag : Within(a + 1, tag)' = Within(a, tag) \cup (IF x.tag = tag THEN {a} ELSE {})
                    /\ doc'[Inside(a + 1)'] = doc[Inside(a)]
                    /\ \A tag : LastOf(a + 1, tag)' = IF x.tag = tag THEN x.value ELSE LastOf(a, tag)
  BY <1>3
<1>5. Inside(a) \in 1..Len(doc)
  BY <1>1 DEF Inside, StartOf
<1>6. \A tag : /\ Within(a + 1, tag)' = Within(a, tag) \cup (IF x.tag = tag THEN {a} ELSE {})
               /\ Within(a, tag) \subseteq 1..Len(doc)
  <2>1. Between(Inside(a), a) \subseteq 1..Len(doc)
    BY <1>1 DEF Between
  <2>2. \A tag : Within(a + 1, tag)' = {k \in Between(Inside(a), a) \cup {a} : doc'[k].tag = tag}
    BY <1>2, <1>4, <1>5 DEF Within
  <2>3. \A tag : Within(a, tag) = {k \in Between(Inside(a), a) : doc[k].tag = tag}
    BY DEF Within
  <2> HIDE DEF Between, Within, Inside
  <2> SUFFICES ASSUME NEW tag
               PROVE  /\ Within(a + 1, tag)' = Within(a, tag) \cup (IF x.tag = tag THEN {a} ELSE {})
                      /\ Within(a, tag) \subseteq 1..Len(doc)
    OBVIOUS
  <2>4. \A k \in Between(Inside(a), a) : doc'[k] = doc[k]
    BY <1>1, <2>1
  <2> QED
    BY <1>1, <2>1, <2>2, <2>3, <2>4
<1>7. ASSUME NEW tag
      PROVE  LastOf(a + 1, tag)' = IF x.tag = tag THEN x.value ELSE LastOf(a, tag)
  <2> HIDE DEF Within
  <2>1. LastOfIsAt'
    BY LastOfAt, PTL
  <2>2. \A k \in Within(a + 1, tag)' :
          (\A j \in Within(a + 1, tag)' : j <= k) => LastOf(a + 1, tag)' = doc'[k].value
    BY <1>1, <2>1 DEF LastOfIsAt
  <2>3. CASE x.tag = tag
    <3>1. a \in Within(a + 1, tag)' /\ \A j \in Within(a + 1, tag)' : j <= a
      BY <1>1, <1>6, <2>3
    <3> QED
      BY <1>1, <2>2, <2>3, <3>1
  <2>4. CASE x.tag # tag /\ Within(a, tag) = {}
    <3>1. Within(a + 1, tag)' = {}
      BY <1>6, <2>4
    <3> QED
      BY <2>4, <3>1 DEF LastOf
  <2>5. CASE x.tag # tag /\ Within(a, tag) # {}
    <3>1. doc \in Seq(Element)
      BY DEF Grown
    <3>2. PICK k \in Within(a, tag) : /\ \A j \in Within(a, tag) : j <= k
                                      /\ LastOf(a, tag) = doc[k].value
      BY <2>5, <3>1, LastOfIs
    <3>3. Within(a + 1, tag)' = Within(a, tag)
      BY <1>6, <2>5
    <3>4. doc'[k] = doc[k]
      BY <1>1, <1>6
    <3> QED
      BY <2>2, <2>5, <3>2, <3>3, <3>4
  <2> QED
    BY <2>3, <2>4, <2>5
<1>8. doc'[Inside(a + 1)'] = doc[Inside(a)]
  BY <1>1, <1>4, <1>5
<1> QED
  BY <1>6, <1>7, <1>8

\* The start and the end of a file.
LEMMA EdgeGrows ==
  ASSUME NEW x \in Element, Grown(x), NEW a \in Nat, a = Len(doc) + 1
  PROVE  /\ x.tag = "/file" => StartOf(a + 1)' = {}
         /\ x.tag = "file" => /\ StartOf(a + 1)' # {} /\ Within(a + 1, "summation")' = {}
                              /\ Described(a + 1)' = [Entry EXCEPT !.name = x.value]
<1>1. /\ Len(doc) \in Nat /\ DOMAIN doc = 1..Len(doc) /\ DOMAIN doc' = 1..Len(doc) + 1
      /\ doc'[a] = x
  BY GrownIs
<1>2. \A s \in 1..Len(doc) : a \in Between(s, a + 1)'
  BY <1>1 DEF Between
<1>3. Between(a, a + 1)' = {}
  BY <1>1 DEF Between
<1>4. ASSUME NEW s \in StartOf(a + 1)', x.tag \in {"file", "/file"} PROVE s = a /\ x.tag = "file"
  <2>1. s \in 1..a /\ doc'[s].tag = "file" /\ \A k \in Between(s, a + 1)' : doc'[k].tag \notin {"file", "/file"}
    BY DEF StartOf
  <2>2. s \notin 1..Len(doc)
    BY <1>1, <1>2, <1>4, <2>1
  <2> QED
    BY <1>1, <2>1, <2>2
<1>5. ASSUME x.tag = "file"
      PROVE  /\ StartOf(a + 1)' # {} /\ Within(a + 1, "summation")' = {}
             /\ Described(a + 1)' = [Entry EXCEPT !.name = x.value]
  <2>1. a \in 1..(a + 1) - 1
    BY <1>1
  <2>2. a \in StartOf(a + 1)'
    BY <1>1, <1>3, <1>5, <2>1 DEF StartOf
  <2>3. StartOf(a + 1)' = {a}
    BY <1>4, <1>5, <2>2
  <2>4. Inside(a + 1)' = a
    <3> HIDE DEF StartOf
    <3> QED
      BY <2>3 DEF Inside
  <2>5. \A tag : Within(a + 1, tag)' = {}
    BY <1>3, <2>4 DEF Within
  <2>6. \A tag : LastOf(a + 1, tag)' = ""
    <3> HIDE DEF Within
    <3> QED
      BY <2>5 DEF LastOf
  <2>7. Described(a + 1)' = [name |-> x.value, md5 |-> "", sha1 |-> ""]
    BY <1>1, <2>4, <2>6 DEF Described
  <2>8. [name |-> x.value, md5 |-> "", sha1 |-> ""] = [Entry EXCEPT !.name = x.value]
    BY NewEntry
  <2> HIDE DEF StartOf, Within, Described
  <2> QED
    BY <2>2, <2>5, <2>7, <2>8
<1>6. ASSUME x.tag = "/file" PROVE StartOf(a + 1)' = {}
  BY <1>4, <1>6
<1> QED
  BY <1>5, <1>6

-----------------------------------------------------------------------------
(* IaFiles: the parts of the invariant.                                     *)

Texts == FileName \cup Sum \cup {""}
Entries == [name : Texts, md5 : Texts, sha1 : Texts]
\* The files that were listed are those the document closes.
OutIs ==
  \E ends \in [DOMAIN out -> Listed] :
    /\ \A e \in Listed : \E k \in DOMAIN ends : ends[k] = e
    /\ \A j, k \in DOMAIN ends : j < k => ends[j] < ends[k]
    /\ \A k \in DOMAIN ends : out[k] = Described(ends[k])

\* The reader is in the file that would end at a, and holds what stands in it so far.
CurIs(a) ==
  /\ inFile <=> StartOf(a) # {}
  /\ inFile => /\ cur = Described(a)
               /\ isSummation <=> Within(a, "summation") # {}

ManifestInv ==
  /\ doc \in Seq(Element) /\ out \in Seq(Entries) /\ cur \in Entries
  /\ inFile \in BOOLEAN /\ isSummation \in BOOLEAN /\ open \in Nat
  /\ Cardinality(Tagged("file")) = Cardinality(Tagged("/file")) + open
  /\ OutIs /\ \E a \in Nat : a = Len(doc) + 1 /\ CurIs(a)

-----------------------------------------------------------------------------
(* IaFiles: every step keeps the invariant.                                 *)

\* The elements with a tag ...
LEMMA TaggedIs ==
  ASSUME doc \in Seq(Element), NEW tag
  PROVE  Cardinality(Tagged(tag)) \in Nat
<1>1. Len(doc) \in Nat /\ DOMAIN doc = 1..Len(doc)
  BY LenProperties
<1>2. Tagged(tag) \subseteq 1..Len(doc)
  BY <1>1 DEF Tagged
<1>3. IsFiniteSet(1..Len(doc))
  BY <1>1, FS_Interval
<1> QED
  BY <1>2, <1>3, FS_Subset, FS_CardinalityType

\* ... and one more.
LEMMA TaggedGrows ==
  ASSUME NEW x \in Element, Grown(x)
  PROVE  /\ \A tag : Cardinality(Tagged(tag)) \in Nat
         /\ \A tag : Cardinality(Tagged(tag)') = Cardinality(Tagged(tag)) + (IF x.tag = tag THEN 1 ELSE 0)
<1> SUFFICES ASSUME NEW tag
             PROVE  /\ Cardinality(Tagged(tag)) \in Nat
                    /\ Cardinality(Tagged(tag)')
                         = Cardinality(Tagged(tag)) + (IF x.tag = tag THEN 1 ELSE 0)
  OBVIOUS
<1> DEFINE some == {el \in Element : el.tag = tag}
<1>1. doc \in Seq(Element) /\ doc' = Append(doc, x)
  BY DEF Grown
<1>2. \A k \in DOMAIN doc : doc[k] \in Element
  BY <1>1
<1>3. \A k \in DOMAIN doc' : doc'[k] \in Element
  BY <1>1, AppendIs
<1>4. Tagged(tag) = At(doc, some) /\ Tagged(tag)' = At(doc', some)
  <2>1. Tagged(tag) = At(doc, some)
    BY <1>2 DEF Tagged, At
  <2>2. Tagged(tag)' = At(doc', some)
    BY <1>3 DEF Tagged, At
  <2> QED
    BY <2>1, <2>2
<1>5. x \in some <=> x.tag = tag
  OBVIOUS
<1> HIDE DEF some
<1>6. /\ Cardinality(At(doc, some)) \in Nat
      /\ x \in some => Cardinality(At(Append(doc, x), some)) = Cardinality(At(doc, some)) + 1
      /\ x \notin some => At(Append(doc, x), some) = At(doc, some)
  BY <1>1, AppendAt
<1> QED
  BY <1>1, <1>4, <1>5, <1>6

\* A step that closes no listed file.
LEMMA OutKept ==
  ASSUME OutIs, NEW x \in Element, Grown(x), out' = out, NEW a \in Nat, a = Len(doc) + 1,
         ~ /\ x.tag = "/file" /\ StartOf(a) # {}
           /\ doc[Inside(a)].value # "" /\ Within(a, "summation") = {}
  PROVE  OutIs'
<1>1. Listed' = Listed /\ \A e \in Listed : Described(e)' = Described(e)
  BY ListedGrows
<1>2. PICK ends \in [DOMAIN out -> Listed] :
        /\ \A e \in Listed : \E k \in DOMAIN ends : ends[k] = e
        /\ \A j, k \in DOMAIN ends : j < k => ends[j] < ends[k]
        /\ \A k \in DOMAIN ends : out[k] = Described(ends[k])
  BY DEF OutIs
<1> HIDE DEF Listed, Described
<1>3. /\ ends \in [DOMAIN out' -> Listed']
      /\ \A e \in Listed' : \E k \in DOMAIN ends : ends[k] = e
  BY <1>1, <1>2
<1>4. \A k \in DOMAIN ends : out'[k] = Described(ends[k])'
  BY <1>1, <1>2
<1> QED
  BY <1>2, <1>3, <1>4 DEF OutIs

\* The places of L in their order.
Enumerates(ends, n, L) ==
  /\ ends \in [1..n -> L]
  /\ \A e \in L : \E k \in 1..n : ends[k] = e
  /\ \A j, k \in 1..n : j < k => ends[j] < ends[k]

\* One place behind them.
Extends(more, ends, n, a) == more[n + 1] = a /\ \A k \in 1..n : more[k] = ends[k]

LEMMA OneMoreEnd ==
  ASSUME NEW n \in Nat, NEW a \in Nat, NEW L, L \subseteq 1..a - 1, NEW M, M = L \cup {a},
         NEW ends, Enumerates(ends, n, L)
  PROVE  \E more : Enumerates(more, n + 1, M) /\ Extends(more, ends, n, a)
<1>0. /\ ends \in [1..n -> L] /\ \A e \in L : \E k \in 1..n : ends[k] = e
      /\ \A j, k \in 1..n : j < k => ends[j] < ends[k]
  BY DEF Enumerates
<1>1. PICK more : more = [k \in 1..n + 1 |-> IF k = n + 1 THEN a ELSE ends[k]]
  OBVIOUS
<1>2. \A k \in 1..n + 1 : k = n + 1 \/ k \in 1..n
  OBVIOUS
<1>3. n + 1 \notin 1..n /\ n + 1 \in 1..n + 1 /\ 1..n \subseteq 1..n + 1
  OBVIOUS
<1>4. \A k \in 1..n : ends[k] \in L /\ ends[k] \in 1..a - 1
  BY <1>0
<1>5. more[n + 1] = a /\ \A k \in 1..n : more[k] = ends[k]
  BY <1>1, <1>3
<1>6. more \in [1..n + 1 -> M]
  BY <1>1, <1>2, <1>4
<1>7. \A e \in M : \E k \in 1..n + 1 : more[k] = e
  BY <1>0, <1>3, <1>5
<1>8. ASSUME NEW j \in 1..n + 1, NEW k \in 1..n + 1, j < k PROVE more[j] < more[k]
  <2>1. j \in 1..n
    BY <1>8
  <2>2. CASE k = n + 1
    BY <1>4, <1>5, <2>1, <2>2
  <2>3. CASE k \in 1..n
    BY <1>0, <1>5, <1>8, <2>1, <2>3
  <2> QED
    BY <1>2, <2>2, <2>3
<1>9. Enumerates(more, n + 1, M)
  BY <1>6, <1>7, <1>8 DEF Enumerates
<1>10. Extends(more, ends, n, a)
  BY <1>5 DEF Extends
<1> QED
  BY <1>9, <1>10

\* The file that was read is listed.
Lists == out \in Seq(Entries) /\ cur \in Entries /\ out' = Append(out, cur)

LEMMA ListsIs ==
  ASSUME Lists
  PROVE  \E n \in Nat : /\ n = Len(out) /\ DOMAIN out = 1..n /\ DOMAIN out' = 1..n + 1
                        /\ out'[n + 1] = cur /\ \A k \in 1..n : out'[k] = out[k]
<1>0. PICK n \in Nat : n = Len(out)
  BY AppendIs DEF Lists
<1>1. /\ DOMAIN out = 1..Len(out) /\ Len(out') = Len(out) + 1 /\ out' \in Seq(Entries)
      /\ out'[Len(out) + 1] = cur /\ \A k \in DOMAIN out : out'[k] = out[k]
  BY AppendIs DEF Lists
<1>2. DOMAIN out' = 1..Len(out')
  BY <1>1, LenProperties
<1>3. DOMAIN out' = 1..n + 1
  BY <1>0, <1>1, <1>2
<1> QED
  BY <1>0, <1>1, <1>3

LEMMA UpTo ==
  ASSUME NEW m \in Nat
  PROVE  m + 1 \in 1..m + 1 /\ \A k \in 1..m + 1 : k = m + 1 \/ k \in 1..m
OBVIOUS

\* A step that lists one more file.
LEMMA OutGrows ==
  ASSUME OutIs, NEW x \in Element, Grown(x), NEW a \in Nat, a = Len(doc) + 1, Lists,
         x.tag = "/file", StartOf(a) # {}, doc[Inside(a)].value # "", Within(a, "summation") = {},
         cur = Described(a)
  PROVE  OutIs'
<1>1. /\ Listed' = Listed \cup {a} /\ Listed \subseteq 1..a - 1
      /\ \A e \in Listed : Described(e)' = Described(e)
  BY ListedGrows
<1>2. Described(a)' = cur
  <2>1. Len(doc) \in Nat
    BY GrownIs
  <2>2. a \in 1..Len(doc) + 1
    BY <2>1, UpTo
  <2> QED
    BY <2>2, Stays
<1>3. PICK n \in Nat : /\ n = Len(out) /\ DOMAIN out = 1..n /\ DOMAIN out' = 1..n + 1
                      /\ out'[n + 1] = cur /\ \A k \in 1..n : out'[k] = out[k]
  BY ListsIs
<1>4. /\ DOMAIN out = 1..n /\ DOMAIN out' = 1..n + 1
      /\ out'[n + 1] = cur /\ \A k \in 1..n : out'[k] = out[k]
  BY <1>3
<1>5. PICK ends : Enumerates(ends, n, Listed) /\ \A k \in 1..n : out[k] = Described(ends[k])
  BY <1>4 DEF OutIs, Enumerates
<1> HIDE DEF Listed, Described
<1>6. PICK more : /\ Enumerates(more, n + 1, Listed')
                  /\ more[n + 1] = a /\ \A k \in 1..n : more[k] = ends[k]
  <2>1. PICK L : L = Listed
    OBVIOUS
  <2>2. PICK M : M = Listed'
    OBVIOUS
  <2>3. L \subseteq 1..a - 1 /\ M = L \cup {a} /\ Enumerates(ends, n, L)
    BY <1>1, <1>5, <2>1, <2>2
  <2>4. \E more : Enumerates(more, n + 1, M) /\ Extends(more, ends, n, a)
    BY <2>3, OneMoreEnd
  <2> QED
    BY <2>2, <2>4 DEF Extends
<1>7. ASSUME NEW k \in 1..n + 1 PROVE out'[k] = Described(more[k])'
  <2>1. CASE k = n + 1
    <3>1. more[k] = a /\ out'[k] = cur
      BY <1>4, <1>6, <2>1
    <3> QED
      BY <1>2, <3>1
  <2>2. CASE k \in 1..n
    <3>1. /\ more[k] = ends[k] /\ ends[k] \in Listed /\ out'[k] = out[k]
          /\ out[k] = Described(ends[k])
      BY <1>4, <1>5, <1>6, <2>2 DEF Enumerates
    <3>2. Described(ends[k])' = Described(ends[k])
      BY <1>1, <3>1
    <3> QED
      BY <3>1, <3>2
  <2>3. k = n + 1 \/ k \in 1..n
    BY UpTo
  <2> QED
    BY <2>1, <2>2, <2>3
<1>8. /\ more \in [DOMAIN out' -> Listed'] /\ DOMAIN more = DOMAIN out'
      /\ \A e \in Listed' : \E k \in DOMAIN more : more[k] = e
      /\ \A j, k \in DOMAIN more : j < k => more[j] < more[k]
  BY <1>4, <1>6 DEF Enumerates
<1>9. \A k \in DOMAIN more : out'[k] = Described(more[k])'
  BY <1>4, <1>7, <1>8
<1> QED
  BY <1>8, <1>9 DEF OutIs

LEMMA ElementIs ==
  ASSUME NEW x \in Element
  PROVE  x.value \in Texts /\ x.tag \in {"file", "md5", "sha1", "summation", "/file"}
BY DEF Element, Opening, Checksum, Bare, Texts

LEMMA EntryIs ==
  ASSUME NEW v \in Texts
  PROVE  [Entry EXCEPT !.name = v] \in Entries /\ [Entry EXCEPT !.name = v].name = v
<1>1. PICK e : e = [name |-> v, md5 |-> "", sha1 |-> ""]
  OBVIOUS
<1>2. e \in Entries /\ e.name = v
  BY <1>1 DEF Entries, Texts
<1> QED
  BY <1>1, <1>2, NewEntry

\* What a checksum does to the file it is read in.
WithSum(c, tag, v) == [c EXCEPT ![tag] = v]

LEMMA SumStep ==
  ASSUME NEW c \in Entries, NEW tag \in {"md5", "sha1"}, NEW v \in Texts,
         NEW d, d = WithSum(c, tag, v)
  PROVE  /\ d \in Entries /\ d.name = c.name
         /\ d.md5 = IF tag = "md5" THEN v ELSE c.md5
         /\ d.sha1 = IF tag = "sha1" THEN v ELSE c.sha1
<1>1. c \in [name : Texts, md5 : Texts, sha1 : Texts]
  BY DEF Entries
<1>2. CASE tag = "md5"
  BY <1>1, <1>2 DEF Entries, WithSum
<1>3. CASE tag = "sha1"
  BY <1>1, <1>3 DEF Entries, WithSum
<1> QED
  BY <1>2, <1>3

\* The reader stands still.
LEMMA ManifestStays ==
  ASSUME ManifestInv, UNCHANGED <<doc, cur, inFile, isSummation, out, open>>
  PROVE  ManifestInv'
<1>1. /\ doc' = doc /\ cur' = cur /\ inFile' = inFile /\ isSummation' = isSummation
      /\ out' = out /\ open' = open
  OBVIOUS
<1>2. \A tag : Tagged(tag)' = Tagged(tag)
  BY <1>1 DEF Tagged
<1>3. Listed' = Listed /\ \A e : /\ StartOf(e)' = StartOf(e) /\ Described(e)' = Described(e)
                                 /\ Within(e, "summation")' = Within(e, "summation")
  BY <1>1 DEF Listed, Closed, StartOf, Described, Within, Inside, Between, LastOf
<1>4. OutIs' <=> OutIs
  BY <1>1, <1>3 DEF OutIs
<1>5. \A a : CurIs(a)' <=> CurIs(a)
  BY <1>1, <1>3 DEF CurIs
<1> QED
  BY <1>1, <1>2, <1>4, <1>5 DEF ManifestInv

\* The number of open elements.
LEMMA OpenCounts ==
  ASSUME ManifestInv, NEW x \in Element, Grown(x),
         open' = IF x.tag = "file" THEN open + 1 ELSE IF x.tag = "/file" THEN open - 1 ELSE open,
         x.tag = "/file" => open > 0
  PROVE  open' \in Nat /\ Cardinality(Tagged("file")') = Cardinality(Tagged("/file")') + open'
<1>1. PICK f \in Nat : f = Cardinality(Tagged("file"))
  BY TaggedGrows
<1>2. PICK c \in Nat : c = Cardinality(Tagged("/file"))
  BY TaggedGrows
<1>3. open \in Nat /\ f = c + open
  BY <1>1, <1>2 DEF ManifestInv
<1>4. Cardinality(Tagged("file")') = f + (IF x.tag = "file" THEN 1 ELSE 0)
  BY <1>1, TaggedGrows
<1>5. Cardinality(Tagged("/file")') = c + (IF x.tag = "/file" THEN 1 ELSE 0)
  BY <1>2, TaggedGrows
<1> QED
  BY <1>3, <1>4, <1>5

LEMMA OpenFileStep ==
  ASSUME ManifestInv, NEW x \in Element, OpenFile(x)
  PROVE  ManifestInv'
<1>1. /\ x.tag = "file" /\ Grown(x) /\ cur' = [Entry EXCEPT !.name = x.value]
      /\ inFile' = TRUE /\ isSummation' = FALSE /\ open' = open + 1 /\ out' = out
  BY DEF OpenFile, More, Grown, ManifestInv
<1>2. PICK a \in Nat : a = Len(doc) + 1
  BY DEF ManifestInv
<1>3. doc' \in Seq(Element) /\ Len(doc') + 1 = a + 1
  BY <1>1, <1>2, GrownIs
<1>4. cur' \in Entries
  BY <1>1, ElementIs, EntryIs
<1>5. CurIs(a + 1)'
  BY <1>1, <1>2, EdgeGrows DEF CurIs
<1>6. OutIs'
  BY <1>1, <1>2, OutKept DEF ManifestInv
<1>7. open' \in Nat /\ Cardinality(Tagged("file")') = Cardinality(Tagged("/file")') + open'
  BY <1>1, OpenCounts
<1>8. a + 1 \in Nat /\ a + 1 = Len(doc') + 1
  BY <1>3
<1> QED
  BY <1>1, <1>3, <1>4, <1>5, <1>6, <1>7, <1>8 DEF ManifestInv

LEMMA ReadChecksumStep ==
  ASSUME ManifestInv, NEW x \in Element, ReadChecksum(x)
  PROVE  ManifestInv'
<1>1. /\ x.tag \in {"md5", "sha1"} /\ Grown(x)
      /\ cur' = IF inFile THEN WithSum(cur, x.tag, x.value) ELSE cur
      /\ UNCHANGED <<inFile, isSummation, out, open>>
  BY DEF ReadChecksum, More, Grown, ManifestInv, WithSum
<1>2. PICK a \in Nat : a = Len(doc) + 1 /\ CurIs(a)
  BY DEF ManifestInv
<1>3. doc' \in Seq(Element) /\ a + 1 \in Nat /\ a + 1 = Len(doc') + 1
  BY <1>1, <1>2, GrownIs
<1>4. cur \in Entries /\ x.value \in Texts
  BY ElementIs DEF ManifestInv
<1>5. inFile => /\ cur' \in Entries /\ cur'.name = cur.name
                /\ cur'.md5 = IF x.tag = "md5" THEN x.value ELSE cur.md5
                /\ cur'.sha1 = IF x.tag = "sha1" THEN x.value ELSE cur.sha1
  BY <1>1, <1>4, SumStep
<1>6. CurIs(a + 1)'
  <2>1. StartOf(a + 1)' = StartOf(a)
    BY <1>1, <1>2, InsideGrows
  <2>2. ASSUME inFile
        PROVE  /\ cur' = Described(a + 1)'
               /\ isSummation <=> Within(a + 1, "summation")' # {}
    <3>1. /\ StartOf(a) # {} /\ cur = Described(a)
          /\ isSummation <=> Within(a, "summation") # {}
      BY <1>2, <2>2 DEF CurIs
    <3>0. /\ doc'[Inside(a + 1)'] = doc[Inside(a)]
          /\ \A tag : Within(a + 1, tag)' = Within(a, tag) \cup (IF x.tag = tag THEN {a} ELSE {})
          /\ \A tag : LastOf(a + 1, tag)' = IF x.tag = tag THEN x.value ELSE LastOf(a, tag)
      BY <1>1, <1>2, <3>1, InsideGrows
    <3>2. /\ Within(a + 1, "summation")' = Within(a, "summation")
          /\ doc'[Inside(a + 1)'] = doc[Inside(a)]
          /\ LastOf(a + 1, "md5")' = IF x.tag = "md5" THEN x.value ELSE LastOf(a, "md5")
          /\ LastOf(a + 1, "sha1")' = IF x.tag = "sha1" THEN x.value ELSE LastOf(a, "sha1")
      BY <1>1, <3>0
    <3>3. /\ cur.name = doc[Inside(a)].value /\ cur.md5 = LastOf(a, "md5")
          /\ cur.sha1 = LastOf(a, "sha1")
      BY <3>1 DEF Described
    <3>4. PICK d : d = Described(a + 1)'
      OBVIOUS
    <3>5. d = [name |-> doc'[Inside(a + 1)'].value, md5 |-> LastOf(a + 1, "md5")',
               sha1 |-> LastOf(a + 1, "sha1")']
      BY <3>4 DEF Described
    <3>6. /\ d.name = doc'[Inside(a + 1)'].value /\ d.md5 = LastOf(a + 1, "md5")'
          /\ d.sha1 = LastOf(a + 1, "sha1")'
      BY <3>5
    <3>7. d.name = cur'.name /\ d.md5 = cur'.md5 /\ d.sha1 = cur'.sha1
      BY <1>5, <2>2, <3>2, <3>3, <3>6
    <3>8. cur' \in [name : Texts, md5 : Texts, sha1 : Texts]
      BY <1>5, <2>2 DEF Entries
    <3>9. cur'.name \in Texts /\ cur'.md5 \in Texts /\ cur'.sha1 \in Texts
      BY <3>8
    <3>10. d = [name |-> cur'.name, md5 |-> cur'.md5, sha1 |-> cur'.sha1]
      BY <3>5, <3>6, <3>7
    <3>11. d \in [name : Texts, md5 : Texts, sha1 : Texts]
      BY <3>9, <3>10
    <3>12. d = cur'
      BY <3>7, <3>8, <3>11, SameEntry
    <3> QED
      BY <3>1, <3>2, <3>4, <3>12
  <2>3. (inFile <=> StartOf(a) # {}) /\ inFile' = inFile /\ isSummation' = isSummation
    BY <1>1, <1>2 DEF CurIs
  <2> QED
    BY <2>1, <2>2, <2>3 DEF CurIs
<1>7. OutIs'
  BY <1>1, <1>2, OutKept DEF ManifestInv
<1>8. open' \in Nat /\ Cardinality(Tagged("file")') = Cardinality(Tagged("/file")') + open'
  BY <1>1, OpenCounts
<1>9. cur' \in Entries
  BY <1>1, <1>4, <1>5
<1> QED
  BY <1>1, <1>3, <1>6, <1>7, <1>8, <1>9 DEF ManifestInv

LEMMA MarkOwnEntryStep ==
  ASSUME ManifestInv, NEW x \in Element, MarkOwnEntry(x)
  PROVE  ManifestInv'
<1>1. /\ x.tag = "summation" /\ Grown(x) /\ isSummation' = (isSummation \/ inFile)
      /\ UNCHANGED <<cur, inFile, out, open>>
  BY DEF MarkOwnEntry, More, Grown, ManifestInv
<1>2. PICK a \in Nat : a = Len(doc) + 1 /\ CurIs(a)
  BY DEF ManifestInv
<1>3. doc' \in Seq(Element) /\ a + 1 \in Nat /\ a + 1 = Len(doc') + 1
  BY <1>1, <1>2, GrownIs
<1>4. CurIs(a + 1)'
  <2>1. StartOf(a + 1)' = StartOf(a)
    BY <1>1, <1>2, InsideGrows
  <2>2. ASSUME inFile
        PROVE  cur = Described(a + 1)' /\ Within(a + 1, "summation")' # {}
    <3>1. StartOf(a) # {} /\ cur = Described(a)
      BY <1>2, <2>2 DEF CurIs
    <3>2. /\ Within(a + 1, "summation")' = Within(a, "summation") \cup {a}
          /\ doc'[Inside(a + 1)'] = doc[Inside(a)]
          /\ LastOf(a + 1, "md5")' = LastOf(a, "md5")
          /\ LastOf(a + 1, "sha1")' = LastOf(a, "sha1")
      BY <1>1, <1>2, <3>1, InsideGrows
    <3> QED
      BY <3>1, <3>2 DEF Described
  <2>3. (inFile <=> StartOf(a) # {}) /\ inFile' = inFile /\ cur' = cur
    BY <1>1, <1>2 DEF CurIs
  <2>4. inFile => isSummation'
    BY <1>1
  <2> QED
    BY <2>1, <2>2, <2>3, <2>4 DEF CurIs
<1>5. OutIs'
  BY <1>1, <1>2, OutKept DEF ManifestInv
<1>6. open' \in Nat /\ Cardinality(Tagged("file")') = Cardinality(Tagged("/file")') + open'
  BY <1>1, OpenCounts
<1>7. isSummation' \in BOOLEAN /\ inFile' \in BOOLEAN /\ cur' \in Entries /\ out' \in Seq(Entries)
  BY <1>1 DEF ManifestInv
<1> QED
  BY <1>3, <1>4, <1>5, <1>6, <1>7 DEF ManifestInv

LEMMA CloseFileStep ==
  ASSUME ManifestInv, NEW x \in Element, CloseFile(x)
  PROVE  ManifestInv'
<1>0. out' = IF inFile /\ cur.name # "" /\ ~isSummation THEN Append(out, cur) ELSE out
  BY DEF CloseFile
<1>1. /\ x.tag = "/file" /\ open > 0 /\ Grown(x) /\ open' = open - 1 /\ inFile' = FALSE
      /\ UNCHANGED <<cur, isSummation>>
  BY DEF CloseFile, More, Grown, ManifestInv
<1>2. PICK a \in Nat : a = Len(doc) + 1 /\ CurIs(a)
  BY DEF ManifestInv
<1>3. doc' \in Seq(Element) /\ a + 1 \in Nat /\ a + 1 = Len(doc') + 1
  BY <1>1, <1>2, GrownIs
<1>4. CurIs(a + 1)'
  BY <1>1, <1>2, EdgeGrows DEF CurIs
<1>5. out \in Seq(Entries) /\ cur \in Entries /\ OutIs
  BY DEF ManifestInv
<1>6. inFile => cur.name = doc[Inside(a)].value
  BY <1>2 DEF CurIs, Described
<1>7. out' \in Seq(Entries) /\ OutIs'
  <2>1. CASE inFile /\ cur.name # "" /\ ~isSummation
    <3>1. out' = Append(out, cur)
      BY <1>0, <2>1
    <3>2. out' \in Seq(Entries) /\ Lists
      BY <1>5, <3>1, AppendIs DEF Lists
    <3>3. /\ StartOf(a) # {} /\ cur = Described(a) /\ Within(a, "summation") = {}
          /\ doc[Inside(a)].value # ""
      BY <1>2, <1>6, <2>1 DEF CurIs
    <3>4. OutIs'
      BY <1>1, <1>2, <1>5, <3>2, <3>3, OutGrows
    <3> QED
      BY <3>2, <3>4
  <2>2. CASE ~(inFile /\ cur.name # "" /\ ~isSummation)
    <3>1. out' = out
      BY <1>0, <2>2
    <3>2. ~ /\ x.tag = "/file" /\ StartOf(a) # {}
            /\ doc[Inside(a)].value # "" /\ Within(a, "summation") = {}
      BY <1>2, <1>6, <2>2 DEF CurIs
    <3> QED
      BY <1>1, <1>2, <1>5, <3>1, <3>2, OutKept
  <2> QED
    BY <2>1, <2>2
<1>8. open' \in Nat /\ Cardinality(Tagged("file")') = Cardinality(Tagged("/file")') + open'
  BY <1>1, OpenCounts
<1>9. isSummation' \in BOOLEAN /\ inFile' \in BOOLEAN /\ cur' \in Entries
  BY <1>1 DEF ManifestInv
<1> QED
  BY <1>3, <1>4, <1>7, <1>8, <1>9 DEF ManifestInv

LEMMA ManifestStart ==
  ASSUME ManifestInit
  PROVE  ManifestInv
<1>1. /\ doc = <<>> /\ cur = Entry /\ inFile = FALSE /\ isSummation = FALSE /\ out = <<>>
      /\ open = 0
  BY DEF ManifestInit
<1>2. DOMAIN doc = {} /\ Len(doc) = 0 /\ DOMAIN out = {}
  BY <1>1
<1>3. Listed = {} /\ \A tag : Tagged(tag) = {}
  BY <1>2 DEF Listed, Closed, Tagged
<1>4. OutIs
  <2>1. PICK ends : ends = [k \in {} |-> k]
    OBVIOUS
  <2>2. ends \in [DOMAIN out -> Listed] /\ DOMAIN ends = {}
    BY <1>2, <1>3, <2>1
  <2> QED
    BY <1>3, <2>2 DEF OutIs
<1>5. StartOf(1) = {}
  BY DEF StartOf
<1>6. CurIs(1) /\ 1 = Len(doc) + 1
  BY <1>1, <1>2, <1>5 DEF CurIs
<1>7. cur \in Entries
  BY <1>1 DEF Entry, Entries, Texts
<1>8. Cardinality(Tagged("file")) = 0 /\ Cardinality(Tagged("/file")) = 0
  BY <1>3, FS_EmptySet
<1>9. doc \in Seq(Element) /\ out \in Seq(Entries)
  BY <1>1
<1>10. \E a \in Nat : a = Len(doc) + 1 /\ CurIs(a)
  BY <1>6
<1>11. Cardinality(Tagged("file")) = Cardinality(Tagged("/file")) + open /\ open \in Nat
  BY <1>1, <1>8
<1> QED
  BY <1>1, <1>4, <1>7, <1>9, <1>10, <1>11 DEF ManifestInv

LEMMA ManifestStep ==
  ASSUME ManifestInv, [ManifestNext]_manifestVars
  PROVE  ManifestInv'
<1>1. CASE UNCHANGED manifestVars \/ Breaks
  BY <1>1, ManifestStays DEF manifestVars, Breaks
<1>2. CASE \E x \in Element : ReadElement(x)
  BY <1>2, OpenFileStep, ReadChecksumStep, MarkOwnEntryStep, CloseFileStep DEF ReadElement
<1> QED
  BY <1>1, <1>2 DEF ManifestNext

\* The files preserved are the files of the manifest, in its order, each with its own
\* checksums, and a manifest that is cut short or broken lists nothing, for documents of
\* any length and of any elements in any order (parseIaFilesXml).
THEOREM ManifestRead == ManifestSpec => []ManifestIsRead
<1>1. ASSUME ManifestInv PROVE ManifestIsRead
  <2>1. PICK f \in Nat : f = Cardinality(Tagged("file"))
    <3>1. doc \in Seq(Element)
      BY <1>1 DEF ManifestInv
    <3> QED
      BY <3>1, TaggedIs
  <2>2. PICK c \in Nat : c = Cardinality(Tagged("/file"))
    <3>1. doc \in Seq(Element)
      BY <1>1 DEF ManifestInv
    <3> QED
      BY <3>1, TaggedIs
  <2>3. open \in Nat /\ f = c + open /\ OutIs
    BY <1>1, <2>1, <2>2 DEF ManifestInv
  <2>4. Cut <=> open > 0
    BY <2>1, <2>2, <2>3 DEF Cut
  <2>5. CASE broken \/ Cut
    BY <2>4, <2>5 DEF ManifestIsRead, Manifest
  <2>6. CASE ~(broken \/ Cut)
    <3>1. Manifest = out
      BY <2>3, <2>4, <2>6 DEF Manifest
    <3> QED
      BY <2>3, <2>6, <3>1 DEF ManifestIsRead, OutIs
  <2> QED
    BY <2>5, <2>6
<1> QED
  BY <1>1, ManifestStart, ManifestStep, PTL DEF ManifestSpec

-----------------------------------------------------------------------------
(* SourceRef.                                                               *)

\* Places of a text: the first one, and the last one.
LEMMA LeastIs ==
  ASSUME NEW n \in Nat, NEW S \in SUBSET (1..n)
  PROVE  /\ Least(S) \in 0..n
         /\ S # {} => Least(S) \in S /\ \A p \in S : Least(S) <= p
         /\ S = {} <=> Least(S) = 0
<1>1. CASE S = {}
  BY <1>1 DEF Least
<1>2. CASE S # {}
  <2>1. \E p \in S : \A q \in S : p <= q
    BY <1>2, LeastNumber
  <2>2. PICK l : l = Least(S)
    OBVIOUS
  <2>3. l \in S /\ \A p \in S : l <= p
    BY <1>2, <2>1, <2>2 DEF Least
  <2>4. l \in 1..n
    BY <2>3
  <2> QED
    BY <1>2, <2>2, <2>3, <2>4
<1> QED
  BY <1>1, <1>2

LEMMA GreatestIs ==
  ASSUME NEW n \in Nat, NEW S \in SUBSET (1..n)
  PROVE  /\ Greatest(S) \in 0..n
         /\ S # {} => Greatest(S) \in S /\ \A p \in S : p <= Greatest(S)
         /\ S = {} <=> Greatest(S) = 0
<1>1. CASE S = {}
  BY <1>1 DEF Greatest
<1>2. CASE S # {}
  <2> DEFINE T == {m \in Nat : n - m \in S}
  <2>0. \A p \in S : n - p \in T
    <3>1. \A p \in S : p \in 1..n
      OBVIOUS
    <3>2. \A p \in 1..n : n - p \in Nat /\ n - (n - p) = p
      OBVIOUS
    <3> QED
      BY <3>1, <3>2
  <2>1. T \in SUBSET Nat /\ T # {}
    BY <1>2, <2>0
  <2>2. PICK m \in T : \A k \in T : m <= k
    BY <2>1, LeastNumber
  <2>3. n - m \in S /\ m \in Nat
    BY <2>2
  <2>4. ASSUME NEW q \in S PROVE q <= n - m
    <3>1. m <= n - q /\ q \in 1..n
      BY <2>0, <2>2
    <3> QED
      BY <2>3, <3>1
  <2>5. PICK g : g = Greatest(S)
    OBVIOUS
  <2> HIDE DEF T
  <2>6. g \in S /\ \A q \in S : q <= g
    BY <1>2, <2>3, <2>4, <2>5 DEF Greatest
  <2>7. g \in 1..n
    BY <2>6
  <2> QED
    BY <1>2, <2>5, <2>6, <2>7
<1> QED
  BY <1>1, <1>2

\* A part of a label is one.
LEMMA PartOfText ==
  ASSUME NEW s \in Seq(LabelChar), NEW a \in Nat, NEW b \in Nat, 1 <= a, b <= Len(s)
  PROVE  SubSeq(s, a, b) \in Seq(LabelChar)
<1>1. Len(s) \in Nat /\ \A k \in 1..Len(s) : s[k] \in LabelChar
  BY LenProperties, ElementOfSeq
<1>2. \A k \in a..b : s[k] \in LabelChar
  BY <1>1
<1> QED
  BY <1>2, SubSeqProperties

LEMMA TrimmedType ==
  ASSUME NEW s \in Seq(LabelChar)
  PROVE  Trimmed(s) \in Seq(LabelChar)
<1> DEFINE words == {k \in DOMAIN s : s[k] # "_"}
<1>1. Len(s) \in Nat /\ DOMAIN s = 1..Len(s)
  BY LenProperties
<1>2. words \in SUBSET (1..Len(s))
  BY <1>1
<1>3. CASE words = {}
  BY <1>3, EmptySeq DEF Trimmed
<1>4. CASE words # {}
  <2>1. Trimmed(s) = SubSeq(s, Least(words), Greatest(words))
    BY <1>4 DEF Trimmed
  <2> HIDE DEF words
  <2>2. Least(words) \in 1..Len(s) /\ Greatest(words) \in 1..Len(s)
    BY <1>1, <1>2, <1>4, LeastIs, GreatestIs
  <2> QED
    BY <1>1, <2>1, <2>2, PartOfText
<1> QED
  BY <1>3, <1>4

\* What prefixRe captures is a part of the label.
LEMMA CapturedType ==
  ASSUME NEW s \in Seq(LabelChar)
  PROVE  Captured(s) \in Seq(LabelChar)
<1> DEFINE n == Least({k \in DOMAIN s : EndsAt(s, k)})
<1>1. Len(s) \in Nat /\ DOMAIN s = 1..Len(s)
  BY LenProperties
<1>2. n \in 0..Len(s)
  <2>1. {k \in DOMAIN s : EndsAt(s, k)} \in SUBSET (1..Len(s))
    BY <1>1
  <2> QED
    BY <1>1, <2>1, LeastIs
<1>3. Captured(s) = Trimmed(SubSeq(s, 1, n))
  BY DEF Captured
<1> HIDE DEF n
<1>4. SubSeq(s, 1, n) \in Seq(LabelChar)
  BY <1>1, <1>2, PartOfText
<1> QED
  BY <1>3, <1>4, TrimmedType

LEMMA LastDashIs ==
  ASSUME NEW s \in Seq(LabelChar), NEW p \in 0..Len(s)
  PROVE  /\ LastDash(s, p) \in 0..p
         /\ LastDash(s, p) # 0 => s[LastDash(s, p)] = "-"
<1>1. p \in Nat /\ {k \in 1..p : s[k] = "-"} \in SUBSET (1..p)
  OBVIOUS
<1> QED
  BY <1>1, GreatestIs DEF LastDash

LEMMA FirstDotIs ==
  ASSUME NEW s \in Seq(LabelChar)
  PROVE  /\ FirstDot(s) \in 0..Len(s) /\ Len(s) \in Nat
         /\ FirstDot(s) # 0 => s[FirstDot(s)] = "."
<1>1. Len(s) \in Nat /\ {k \in DOMAIN s : s[k] = "."} \in SUBSET (1..Len(s))
  BY LenProperties
<1> QED
  BY <1>1, LeastIs DEF FirstDot

\* The dash that splits a name from a file is before the dot, so the file has a name.
LEMMA SplitIs ==
  ASSUME NEW s \in Seq(LabelChar)
  PROVE  /\ LastDash(s, FirstDot(s)) \in 0..Len(s)
         /\ FirstDot(s) = 0 => LastDash(s, FirstDot(s)) = 0
         /\ LastDash(s, FirstDot(s)) # 0 => LastDash(s, FirstDot(s)) < Len(s)
<1>1. /\ FirstDot(s) \in 0..Len(s) /\ Len(s) \in Nat
      /\ FirstDot(s) # 0 => s[FirstDot(s)] = "."
  BY FirstDotIs
<1>2. /\ LastDash(s, FirstDot(s)) \in 0..FirstDot(s)
      /\ LastDash(s, FirstDot(s)) # 0 => s[LastDash(s, FirstDot(s))] = "-"
  BY <1>1, LastDashIs
<1> QED
  BY <1>1, <1>2

LEMMA JoinIs ==
  ASSUME NEW a \in Seq(LabelChar), NEW b \in Seq(LabelChar), NEW c, c = a \o b
  PROVE  /\ c \in Seq(LabelChar) /\ Len(c) = Len(a) + Len(b)
         /\ \A k \in 1..Len(a) + Len(b) : c[k] = IF k <= Len(a) THEN a[k] ELSE b[k - Len(a)]
BY ConcatProperties

\* A cut at a dash takes the text apart, and nothing else of it away.
LEMMA CutIs ==
  ASSUME NEW s \in Seq(LabelChar), NEW p \in 2..Len(s), p < Len(s), s[p] = "-"
  PROVE  /\ Len(CutAt(s, p).id) = p - 1 /\ CutAt(s, p).id # <<>> /\ CutAt(s, p).file # <<>>
         /\ CutAt(s, p).id \o <<"-">> \o CutAt(s, p).file = s
<1>1. Len(s) \in Nat
  BY LenProperties
<1>2. PICK a, b : a = SubSeq(s, 1, p - 1) /\ b = SubSeq(s, p + 1, Len(s))
  OBVIOUS
<1>3. CutAt(s, p).id = a /\ CutAt(s, p).file = b
  BY <1>2 DEF CutAt, Source
<1>4. /\ a \in Seq(LabelChar) /\ Len(a) = p - 1 /\ \A k \in 1..p - 1 : a[k] = s[k]
  BY <1>1, <1>2
<1>5. /\ b \in Seq(LabelChar) /\ Len(b) = Len(s) - p /\ \A k \in 1..Len(s) - p : b[k] = s[k + p]
  BY <1>1, <1>2
<1>6. a \o <<"-">> \o b = s
  <2>1. PICK d : d = <<"-">>
    OBVIOUS
  <2>2. d \in Seq(LabelChar) /\ Len(d) = 1 /\ d[1] = "-"
    <3>1. "-" \in LabelChar
      BY DEF LabelChar
    <3>2. \A x \in LabelChar : <<x>> \in Seq(LabelChar) /\ Len(<<x>>) = 1 /\ <<x>>[1] = x
      OBVIOUS
    <3> QED
      BY <2>1, <3>1, <3>2
  <2>3. PICK c : c = a \o d
    OBVIOUS
  <2>4. /\ c \in Seq(LabelChar) /\ Len(c) = Len(a) + Len(d)
        /\ \A k \in 1..Len(a) + Len(d) : c[k] = IF k <= Len(a) THEN a[k] ELSE d[k - Len(a)]
    BY <1>4, <2>2, <2>3, JoinIs
  <2>5. Len(c) = p
    BY <1>1, <1>4, <2>2, <2>4
  <2>6. ASSUME NEW k \in 1..p PROVE c[k] = s[k]
    <3>1. k \in 1..p - 1 \/ (k = p /\ k - Len(a) = 1 /\ ~(k <= Len(a)))
      BY <1>1, <1>4
    <3>2. k \in 1..Len(a) + Len(d)
      BY <1>1, <1>4, <2>2
    <3> QED
      BY <1>4, <2>2, <2>4, <3>1, <3>2
  <2>7. PICK e : e = c \o b
    OBVIOUS
  <2>8. /\ e \in Seq(LabelChar) /\ Len(e) = Len(c) + Len(b)
        /\ \A k \in 1..Len(c) + Len(b) : e[k] = IF k <= Len(c) THEN c[k] ELSE b[k - Len(c)]
    BY <1>5, <2>4, <2>7, JoinIs
  <2>9. Len(e) = Len(s)
    BY <1>1, <1>5, <2>5, <2>8
  <2>10. ASSUME NEW k \in 1..Len(s) PROVE e[k] = s[k]
    <3>1. CASE k <= p
      <4>1. k \in 1..p /\ k \in 1..Len(c) + Len(b) /\ k <= Len(c)
        BY <1>1, <1>5, <2>5, <3>1
      <4> QED
        BY <2>6, <2>8, <4>1
    <3>2. CASE p < k
      <4>1. /\ k - p \in 1..Len(s) - p /\ k \in 1..Len(c) + Len(b) /\ ~(k <= Len(c))
            /\ (k - p) + p = k /\ k - Len(c) = k - p
        BY <1>1, <1>5, <2>5, <3>2
      <4> QED
        BY <1>5, <2>8, <4>1
    <3> QED
      BY <1>1, <3>1, <3>2
  <2>11. e = s
    BY <2>8, <2>9, <2>10, SeqEqual
  <2> QED
    BY <2>1, <2>3, <2>7, <2>11
<1>7. a # <<>> /\ b # <<>>
  BY <1>1, <1>4, <1>5
<1> QED
  BY <1>3, <1>4, <1>6, <1>7

\* f has the cuts of s at and before each of its first n places; as with Appended, that
\* there is such a function, and what its values are, goes by a least place that fails.
CutThen(s, p, cuts) == <<CutAt(s, p)>> \o cuts
CutsTo(s, f, n) ==
  f = [p \in 0..n |-> IF p <= 1 THEN <<>> ELSE CutThen(s, p, f[LastDash(s, p - 1)])]

LEMMA CutsValues ==
  ASSUME NEW s, NEW n \in Nat, NEW f, CutsTo(s, f, n)
  PROVE  /\ DOMAIN f = 0..n
         /\ \A p \in 0..n :
              f[p] = IF p <= 1 THEN <<>> ELSE CutThen(s, p, f[LastDash(s, p - 1)])
<1>1. PICK e : e = [p \in 0..n |->
                      IF p <= 1 THEN <<>> ELSE CutThen(s, p, f[LastDash(s, p - 1)])]
  OBVIOUS
<1>2. e = f
  BY <1>1 DEF CutsTo
<1> QED
  BY <1>1, <1>2

LEMMA CutsExist ==
  ASSUME NEW s \in Seq(LabelChar), NEW m \in 0..Len(s)
  PROVE  \E f : CutsTo(s, f, m)
<1> DEFINE T == {n \in Nat : n <= Len(s) /\ ~\E f : CutsTo(s, f, n)}
<1>0. Len(s) \in Nat
  BY LenProperties
<1>1. SUFFICES ASSUME T # {} PROVE FALSE
  BY <1>0
<1>2. PICK n \in T : \A k \in T : n <= k
  BY <1>1, LeastNumber
<1>3. CASE n = 0
  <2>1. PICK f : f = [p \in 0..0 |-> <<>>]
    OBVIOUS
  <2>2. PICK g : g = [p \in 0..0 |-> IF p <= 1 THEN <<>>
                                      ELSE CutThen(s, p, f[LastDash(s, p - 1)])]
    OBVIOUS
  <2>3. f = g
    BY <2>1, <2>2
  <2>4. CutsTo(s, f, 0)
    BY <2>2, <2>3 DEF CutsTo
  <2> QED
    BY <1>2, <1>3, <2>4
<1>4. CASE n > 0
  <2>1. n - 1 \in Nat /\ n - 1 \notin T /\ n \in Nat /\ n <= Len(s)
    BY <1>2, <1>4
  <2>2. PICK f : CutsTo(s, f, n - 1)
    BY <1>0, <2>1
  <2>3. PICK last : last = IF n <= 1 THEN <<>> ELSE CutThen(s, n, f[LastDash(s, n - 1)])
    OBVIOUS
  <2>4. PICK g : g = [p \in 0..n |-> IF p = n THEN last ELSE f[p]]
    OBVIOUS
  <2>5. (\A p \in 0..n - 1 : g[p] = f[p]) /\ g[n] = last
    BY <2>1, <2>4
  <2>6. \A p \in 1..n : LastDash(s, p - 1) \in 0..p - 1
    BY <1>0, <2>1, LastDashIs
  <2>7. ASSUME NEW p \in 0..n
        PROVE  g[p] = IF p <= 1 THEN <<>> ELSE CutThen(s, p, g[LastDash(s, p - 1)])
    <3>1. CASE p <= 1
      <4>1. CASE p = n
        BY <2>3, <2>5, <3>1, <4>1
      <4>2. CASE p # n
        <5>1. p \in 0..n - 1
          BY <2>1, <4>2
        <5>2. f[p] = <<>>
          BY <2>1, <2>2, <3>1, <5>1, CutsValues
        <5> QED
          BY <2>5, <3>1, <5>1, <5>2
      <4> QED
        BY <4>1, <4>2
    <3>2. CASE ~(p <= 1)
      <4>1. LastDash(s, p - 1) \in 0..n - 1
        BY <2>1, <2>6, <3>2
      <4>2. g[LastDash(s, p - 1)] = f[LastDash(s, p - 1)]
        BY <2>5, <4>1
      <4>3. CASE p = n
        BY <2>3, <2>5, <3>2, <4>2, <4>3
      <4>4. CASE p # n
        <5>1. p \in 0..n - 1
          BY <2>1, <4>4
        <5>2. f[p] = CutThen(s, p, f[LastDash(s, p - 1)])
          BY <2>1, <2>2, <3>2, <5>1, CutsValues
        <5> QED
          BY <2>5, <3>2, <4>2, <5>1, <5>2
      <4> QED
        BY <4>3, <4>4
    <3> QED
      BY <3>1, <3>2
  <2>8. CutsTo(s, g, n)
    BY <2>4, <2>7 DEF CutsTo
  <2> QED
    BY <1>2, <2>8
<1> QED
  BY <1>2, <1>3, <1>4

LEMMA CutsIs ==
  ASSUME NEW s \in Seq(LabelChar)
  PROVE  \E f : CutsTo(s, f, Len(s)) /\ Cuts(s) = f[LastDash(s, FirstDot(s))]
<1>1. PICK f : f = CHOOSE g : CutsTo(s, g, Len(s))
  OBVIOUS
<1>2. CutsTo(s, f, Len(s))
  <2>1. Len(s) \in 0..Len(s)
    BY LenProperties
  <2> QED
    BY <1>1, <2>1, CutsExist
<1>3. Cuts(s) = f[LastDash(s, FirstDot(s))]
  BY <1>1 DEF Cuts, CutsTo, CutThen
<1> QED
  BY <1>2, <1>3

\* The cuts of a text at its dashes, and those among them at place p or before.
CutSet(s) == {CutAt(s, d) : d \in 2..Len(s)}
CutsDownFrom(s, c, p) ==
  /\ c \in Seq(CutSet(s))
  /\ \A k \in DOMAIN c : \E d \in 2..p : s[d] = "-" /\ c[k] = CutAt(s, d)
  /\ \A j, k \in DOMAIN c : j # k => c[j].id # c[k].id

\* The name a cut leaves is as long as the place says.
LEMMA CutLength ==
  ASSUME NEW s \in Seq(LabelChar), NEW p \in 2..Len(s)
  PROVE  Len(CutAt(s, p).id) = p - 1
<1>1. Len(s) \in Nat
  BY LenProperties
<1>2. PICK a : a = SubSeq(s, 1, p - 1)
  OBVIOUS
<1>3. CutAt(s, p).id = a
  BY <1>2 DEF CutAt, Source
<1>4. Len(a) = p - 1
  BY <1>1, <1>2
<1> QED
  BY <1>3, <1>4

\* A cut in front of cuts at places before.
LEMMA FirstThen ==
  ASSUME NEW S, NEW x \in S, NEW b \in Seq(S), NEW c, c = <<x>> \o b
  PROVE  /\ c \in Seq(S) /\ c # <<>> /\ c[1] = x /\ 1 \in DOMAIN c
         /\ \A k \in DOMAIN c : k = 1 \/ (k - 1 \in DOMAIN b /\ k \in Nat /\ c[k] = b[k - 1])
<1>1. PICK a : a = <<x>>
  OBVIOUS
<1>2. a \in Seq(S) /\ Len(a) = 1 /\ a[1] = x
  BY <1>1
<1>3. /\ c \in Seq(S) /\ Len(c) = Len(a) + Len(b)
      /\ \A k \in 1..Len(a) + Len(b) : c[k] = IF k <= Len(a) THEN a[k] ELSE b[k - Len(a)]
  BY <1>1, <1>2, ConcatProperties
<1>4. Len(b) \in Nat /\ DOMAIN b = 1..Len(b) /\ DOMAIN c = 1..1 + Len(b)
  BY <1>2, <1>3, LenProperties
<1> QED
  BY <1>2, <1>3, <1>4

LEMMA CutsDown ==
  ASSUME NEW s \in Seq(LabelChar), NEW f, CutsTo(s, f, Len(s)), NEW p \in 2..Len(s),
         s[p] = "-", CutsDownFrom(s, f[LastDash(s, p - 1)], LastDash(s, p - 1))
  PROVE  CutsDownFrom(s, f[p], p) /\ f[p] # <<>> /\ f[p][1] = CutAt(s, p)
<1>0. Len(s) \in Nat /\ p - 1 \in 0..Len(s)
  BY LenProperties
<1>1. PICK q \in 0..p - 1 : q = LastDash(s, p - 1)
  BY <1>0, LastDashIs
<1>2. PICK b : b = f[q]
  OBVIOUS
<1>3. PICK x \in CutSet(s) : x = CutAt(s, p)
  BY DEF CutSet
<1>4. PICK c : c = f[p]
  OBVIOUS
<1>5. c = <<x>> \o b
  <2>1. p \in 0..Len(s) /\ ~(p <= 1)
    BY <1>0
  <2>2. f[p] = CutThen(s, p, f[LastDash(s, p - 1)])
    BY <1>0, <2>1, CutsValues
  <2>3. c = CutThen(s, p, b)
    BY <1>1, <1>2, <1>4, <2>2
  <2> QED
    BY <1>3, <2>3 DEF CutThen
<1>6. /\ b \in Seq(CutSet(s))
      /\ \A k \in DOMAIN b : \E d \in 2..q : s[d] = "-" /\ b[k] = CutAt(s, d)
      /\ \A j, k \in DOMAIN b : j # k => b[j].id # b[k].id
  BY <1>1, <1>2 DEF CutsDownFrom
<1>7. /\ c \in Seq(CutSet(s)) /\ c # <<>> /\ c[1] = x /\ 1 \in DOMAIN c
      /\ \A k \in DOMAIN c : k = 1 \/ (k - 1 \in DOMAIN b /\ k \in Nat /\ c[k] = b[k - 1])
  BY <1>3, <1>5, <1>6, FirstThen
<1>8. ASSUME NEW k \in DOMAIN c, k # 1
      PROVE  /\ \E d \in 2..p : s[d] = "-" /\ c[k] = CutAt(s, d)
             /\ c[k].id # c[1].id
  <2>1. PICK d \in 2..q : s[d] = "-" /\ c[k] = CutAt(s, d)
    BY <1>6, <1>7, <1>8
  <2>2. d \in 2..Len(s) /\ d < p
    BY <1>0, <1>1
  <2>3. Len(c[k].id) = d - 1 /\ Len(c[1].id) = p - 1
    BY <1>3, <1>7, <2>1, <2>2, CutLength
  <2> QED
    BY <1>1, <2>1, <2>2, <2>3
<1>9. \A k \in DOMAIN c : \E d \in 2..p : s[d] = "-" /\ c[k] = CutAt(s, d)
  <2>1. p \in 2..p
    OBVIOUS
  <2> QED
    BY <1>3, <1>7, <1>8, <2>1
<1>10. ASSUME NEW j \in DOMAIN c, NEW k \in DOMAIN c, j # k PROVE c[j].id # c[k].id
  <2>1. CASE j = 1 \/ k = 1
    BY <1>8, <1>10, <2>1
  <2>2. CASE j # 1 /\ k # 1
    <3>1. /\ j - 1 \in DOMAIN b /\ k - 1 \in DOMAIN b /\ j \in Nat /\ k \in Nat
          /\ c[j] = b[j - 1] /\ c[k] = b[k - 1]
      BY <1>7, <2>2
    <3>2. j - 1 # k - 1
      BY <1>10, <3>1
    <3> QED
      BY <1>6, <3>1, <3>2
  <2> QED
    BY <2>1, <2>2
<1> QED
  BY <1>3, <1>4, <1>7, <1>9, <1>10 DEF CutsDownFrom

\* All of them, and the one at the place itself first.
LEMMA CutsInOrder ==
  ASSUME NEW s \in Seq(LabelChar), NEW f, CutsTo(s, f, Len(s)), NEW m \in 0..Len(s),
         m = 0 \/ s[m] = "-"
  PROVE  /\ CutsDownFrom(s, f[m], m)
         /\ IF m <= 1 THEN f[m] = <<>> ELSE f[m] # <<>> /\ f[m][1] = CutAt(s, m)
<1> DEFINE T == {p \in Nat : p <= Len(s) /\ (p = 0 \/ s[p] = "-") /\ ~CutsDownFrom(s, f[p], p)}
<1>0. Len(s) \in Nat
  BY LenProperties
<1>1. ASSUME NEW p \in 0..Len(s), p <= 1 PROVE f[p] = <<>> /\ CutsDownFrom(s, f[p], p)
  <2>1. f[p] = <<>>
    BY <1>0, <1>1, CutsValues
  <2>2. <<>> \in Seq(CutSet(s)) /\ DOMAIN <<>> = {}
    BY EmptySeq
  <2> QED
    BY <2>1, <2>2 DEF CutsDownFrom
<1>2. ASSUME NEW p \in 2..Len(s) PROVE LastDash(s, p - 1) \in 0..p - 1 /\ p - 1 \in Nat
                                     /\ (LastDash(s, p - 1) # 0 => s[LastDash(s, p - 1)] = "-")
  <2>1. p - 1 \in 0..Len(s)
    BY <1>0
  <2> QED
    BY <2>1, LastDashIs
<1>3. T = {}
  <2>1. SUFFICES ASSUME T # {} PROVE FALSE
    OBVIOUS
  <2>2. PICK p \in T : \A k \in T : p <= k
    BY <2>1, LeastNumber
  <2>3. p \in 2..Len(s) /\ s[p] = "-" /\ ~CutsDownFrom(s, f[p], p)
    BY <1>0, <1>1, <2>2
  <2>4. PICK q \in 0..p - 1 : q = LastDash(s, p - 1)
    BY <1>2, <2>3
  <2>5. q = 0 \/ s[q] = "-"
    BY <1>2, <2>3, <2>4
  <2>6. q \notin T /\ q \in Nat /\ q <= Len(s)
    BY <1>0, <2>2, <2>3, <2>4
  <2>7. CutsDownFrom(s, f[q], q)
    BY <2>5, <2>6
  <2> QED
    BY <2>3, <2>4, <2>7, CutsDown
<1>4. \A p \in 0..Len(s) : p = 0 \/ s[p] = "-" => CutsDownFrom(s, f[p], p)
  BY <1>0, <1>3
<1>5. CASE m <= 1
  BY <1>1, <1>5
<1>6. CASE ~(m <= 1)
  <2>1. m \in 2..Len(s) /\ s[m] = "-"
    BY <1>0, <1>6
  <2>2. PICK q \in 0..m - 1 : q = LastDash(s, m - 1)
    BY <1>2, <2>1
  <2>3. q \in 0..Len(s) /\ (q = 0 \/ s[q] = "-")
    BY <1>0, <1>2, <2>1, <2>2
  <2>4. CutsDownFrom(s, f[q], q)
    BY <1>4, <2>3
  <2> QED
    BY <1>6, <2>1, <2>2, <2>4, CutsDown
<1> QED
  BY <1>5, <1>6

\* The cuts of what is captured: the one that the row records first, and none when it
\* records none.
LEMMA CutsFromSplit ==
  ASSUME NEW s \in Seq(LabelChar), NEW q, q = LastDash(s, FirstDot(s))
  PROVE  /\ q <= 1 => Cuts(s) = <<>>
         /\ ~(q <= 1) => /\ Cuts(s) # <<>> /\ Cuts(s)[1] = CutAt(s, q)
                         /\ q \in 2..Len(s) - 1 /\ CutsDownFrom(s, Cuts(s), q)
<1>1. PICK f : CutsTo(s, f, Len(s)) /\ Cuts(s) = f[q]
  BY CutsIs
<1>2. /\ FirstDot(s) \in 0..Len(s) /\ Len(s) \in Nat
  BY FirstDotIs
<1>3. q \in 0..Len(s) /\ (q = 0 \/ s[q] = "-")
  BY <1>2, LastDashIs
<1>4. q # 0 => q < Len(s)
  BY SplitIs
<1>5. /\ CutsDownFrom(s, f[q], q)
      /\ IF q <= 1 THEN f[q] = <<>> ELSE f[q] # <<>> /\ f[q][1] = CutAt(s, q)
  BY <1>1, <1>3, CutsInOrder
<1> QED
  BY <1>1, <1>2, <1>3, <1>4, <1>5

\* The first few of a sequence.
LEMMA FirstFew ==
  ASSUME NEW S, NEW c \in Seq(S), c # <<>>, NEW n \in Nat \ {0},
         NEW d, d = SubSeq(c, 1, IF Len(c) < n THEN Len(c) ELSE n)
  PROVE  /\ d # <<>> /\ Head(d) = c[1] /\ Len(d) <= n
         /\ \A k \in DOMAIN d : k \in DOMAIN c /\ d[k] = c[k]
<1>1. Len(c) \in Nat /\ Len(c) # 0 /\ DOMAIN c = 1..Len(c) /\ \A k \in 1..Len(c) : c[k] \in S
  BY LenProperties, EmptySeq, ElementOfSeq
<1>2. PICK m : m = IF Len(c) < n THEN Len(c) ELSE n
  OBVIOUS
<1>3. m \in 1..Len(c) /\ m <= n
  BY <1>1, <1>2
<1>4. d = SubSeq(c, 1, m)
  BY <1>2
<1>5. d \in Seq(S) /\ Len(d) = m /\ \A k \in 1..m : d[k] = c[k]
  <2>1. \A k \in 1..m : c[k] \in S
    BY <1>1, <1>3
  <2>2. 1 \in Int /\ m \in Int /\ 1 <= m /\ m - 1 + 1 = m
    BY <1>1, <1>3
  <2>3. /\ SubSeq(c, 1, m) \in Seq(S) /\ Len(SubSeq(c, 1, m)) = m
        /\ \A k \in 1..m : SubSeq(c, 1, m)[k] = c[1 + k - 1]
    BY <2>1, <2>2, SubSeqProperties
  <2>4. \A k \in 1..m : 1 + k - 1 = k
    BY <1>1, <1>3
  <2>5. \A k \in 1..m : c[1 + k - 1] = c[k]
    BY <2>4
  <2> QED
    BY <1>4, <2>3, <2>5
<1>6. DOMAIN d = 1..m /\ 1 \in 1..m /\ m # 0
  BY <1>3, <1>5, LenProperties
<1>7. d # <<>> /\ Head(d) = d[1]
  BY <1>5, <1>6, EmptySeq, HeadTailProperties
<1>8. \A k \in DOMAIN d : k \in DOMAIN c /\ d[k] = c[k]
  <2>1. \A k \in 1..m : k \in 1..Len(c)
    BY <1>1, <1>3
  <2> QED
    BY <1>1, <1>5, <1>6, <2>1
<1> QED
  BY <1>3, <1>5, <1>6, <1>7, <1>8

\* What a reseed asks for, given the title of the row.
AsRead(t, sources) ==
  /\ t # <<>> =>
       (IF IaRef(t).file = <<>> THEN sources = <<>>
        ELSE sources # <<>> /\ Head(sources) = IaRef(t))
  /\ Len(sources) <= MaxCandidates
  /\ \A j, k \in DOMAIN sources : j # k => sources[j].id # sources[k].id
  /\ \A k \in DOMAIN sources :
       /\ sources[k].id # <<>> /\ sources[k].file # <<>>
       /\ sources[k].id \o <<"-">> \o sources[k].file = Captured(t)

LEMMA NoneAsRead ==
  ASSUME NEW t, t # <<>> => IaRef(t).file = <<>>
  PROVE  AsRead(t, <<>>)
<1>1. DOMAIN <<>> = {} /\ Len(<<>>) = 0
  BY EmptySeq
<1>2. 0 <= MaxCandidates
  BY LabelAssumption
<1> QED
  BY <1>1, <1>2 DEF AsRead

\* One candidate without a file is none.
LEMMA WholeIsNone ==
  ASSUME NEW t, NEW s, IaCandidates(t) = <<Whole(s)>>
  PROVE  Sources(t) = <<>>
<1>1. Whole(s).file = <<>>
  BY DEF Whole, Source
<1>2. Head(<<Whole(s)>>) = Whole(s)
  OBVIOUS
<1> QED
  BY <1>1, <1>2 DEF Sources

LEMMA SourcesOfText ==
  ASSUME NEW t \in Seq(LabelChar)
  PROVE  AsRead(t, Sources(t))
<1>1. CASE pseudo
  <2>1. IaRef(t).file = <<>>
    BY <1>1 DEF IaRef, Whole, Source
  <2>2. Sources(t) = <<>>
    BY <1>1, WholeIsNone DEF IaCandidates
  <2> QED
    BY <2>1, <2>2, NoneAsRead
<1>2. CASE ~pseudo /\ t = <<>>
  <2>1. Sources(t) = <<>>
    BY <1>2 DEF IaCandidates, Sources
  <2> QED
    BY <1>2, <2>1, NoneAsRead
<1>3. CASE ~pseudo /\ t # <<>>
  <2>1. PICK s \in Seq(LabelChar) : s = Captured(t)
    BY CapturedType
  <2>2. PICK q : q = LastDash(s, FirstDot(s))
    OBVIOUS
  <2>3. CASE q <= 1
    <3>1. Cuts(s) = <<>>
      BY <2>2, <2>3, CutsFromSplit
    <3>2. IaCandidates(t) = <<Whole(s)>>
      BY <1>3, <2>1, <3>1 DEF IaCandidates
    <3>3. IaRef(t) = Whole(s)
      BY <1>3, <2>1, <2>2, <2>3 DEF IaRef
    <3>4. IaRef(t).file = <<>>
      BY <3>3 DEF Whole, Source
    <3> QED
      BY <3>2, <3>4, WholeIsNone, NoneAsRead
  <2>4. CASE ~(q <= 1)
    <3>1. PICK c : c = Cuts(s)
      OBVIOUS
    <3>2. c # <<>> /\ c[1] = CutAt(s, q) /\ q \in 2..Len(s) - 1 /\ CutsDownFrom(s, c, q)
      BY <2>2, <2>4, <3>1, CutsFromSplit
    <3>3. PICK d : d = SubSeq(c, 1, IF Len(c) < MaxCandidates THEN Len(c) ELSE MaxCandidates)
      OBVIOUS
    <3>4. IaCandidates(t) = d
      BY <1>3, <2>1, <3>1, <3>2, <3>3 DEF IaCandidates
    <3>5. c \in Seq(CutSet(s)) /\ MaxCandidates \in Nat \ {0}
      BY <3>2, LabelAssumption DEF CutsDownFrom
    <3>6. /\ d # <<>> /\ Head(d) = c[1] /\ Len(d) <= MaxCandidates
          /\ \A k \in DOMAIN d : k \in DOMAIN c /\ d[k] = c[k]
      BY <3>2, <3>3, <3>5, FirstFew
    <3>7. /\ \A k \in DOMAIN c : \E p \in 2..q : s[p] = "-" /\ c[k] = CutAt(s, p)
          /\ \A j, k \in DOMAIN c : j # k => c[j].id # c[k].id
      BY <3>2 DEF CutsDownFrom
    <3>8. FirstDot(s) # 0
      BY <2>2, <2>4, SplitIs
    <3>9. IaRef(t) = CutAt(s, q)
      BY <1>3, <2>1, <2>2, <2>4, <3>8 DEF IaRef
    <3>10. Len(s) \in Nat /\ s[q] = "-"
      BY <2>2, <2>4, <3>2, FirstDotIs, LastDashIs
    <3>11. ASSUME NEW p \in 2..q, s[p] = "-"
           PROVE  /\ CutAt(s, p).id # <<>> /\ CutAt(s, p).file # <<>>
                  /\ CutAt(s, p).id \o <<"-">> \o CutAt(s, p).file = s
      <4>1. p \in 2..Len(s) /\ p < Len(s)
        BY <3>2, <3>10
      <4> QED
        BY <3>11, <4>1, CutIs
    <3>12. CutAt(s, q).file # <<>>
      <4>1. q \in 2..q
        BY <3>2
      <4> QED
        BY <3>10, <3>11, <4>1
    <3>13. Sources(t) = d
      BY <3>2, <3>4, <3>6, <3>12 DEF Sources
    <3>14. ASSUME NEW k \in DOMAIN d
           PROVE  /\ d[k].id # <<>> /\ d[k].file # <<>>
                  /\ d[k].id \o <<"-">> \o d[k].file = Captured(t)
      <4>1. PICK p \in 2..q : s[p] = "-" /\ d[k] = CutAt(s, p)
        BY <3>6, <3>7
      <4> QED
        BY <2>1, <3>11, <4>1
    <3>15. \A j, k \in DOMAIN d : j # k => d[j].id # d[k].id
      BY <3>6, <3>7
    <3>16. AsRead(t, d)
      BY <3>2, <3>6, <3>9, <3>12, <3>14, <3>15 DEF AsRead
    <3> QED
      BY <3>13, <3>16
  <2> QED
    BY <2>3, <2>4
<1> QED
  BY <1>1, <1>2, <1>3

\* A title is the front of a label, or all of it.
LEMMA TitleIs ==
  ASSUME NEW s \in Seq(LabelChar)
  PROVE  Title(s) \in Seq(LabelChar) /\ (Len(s) <= TitleLength => Title(s) = s)
<1>1. Len(s) \in Nat /\ TitleLength \in Nat
  BY LenProperties, LabelAssumption
<1>2. CASE Len(s) <= TitleLength
  BY <1>2 DEF Title
<1>3. CASE ~(Len(s) <= TitleLength)
  <2>1. SubSeq(s, 1, TitleLength) \in Seq(LabelChar)
    BY <1>1, <1>3, PartOfText
  <2> QED
    BY <1>3, <2>1 DEF Title
<1> QED
  BY <1>2, <1>3

\* Labels are of the characters that the model tells apart.
LabelType == label \in Seq(LabelChar)

LEMMA LabelTypeHolds ==
  LabelSpec => []LabelType
<1>1. LabelInit => LabelType
  BY EmptySeq DEF LabelInit, LabelType
<1>2. LabelType /\ [LabelNext]_labelVars => LabelType'
  <2>1. ASSUME LabelType, NEW ch \in LabelChar, label' = Append(label, ch) PROVE LabelType'
    BY <2>1, AppendProperties DEF LabelType
  <2>2. ASSUME LabelType, UNCHANGED labelVars PROVE LabelType'
    BY <2>2 DEF LabelType, labelVars
  <2> QED
    BY <2>1, <2>2 DEF LabelNext
<1> QED
  BY <1>1, <1>2, PTL DEF LabelSpec

\* For every cap on the candidates, every length of title and every label: a reseed asks
\* first for what the row records, and the rest of what it asks for are other readings of
\* the same text, none twice (deriveIaRef, deriveIaCandidates and startReseed).
THEOREM SourcesAsRead ==
  LabelSpec => []SourcesAgree
<1>1. LabelType => SourcesAgree
  <2>1. SUFFICES ASSUME label \in Seq(LabelChar) PROVE SourcesAgree
    BY DEF LabelType
  <2>2. PICK t \in Seq(LabelChar) : t = Title(label) /\ (Len(label) <= TitleLength => t = label)
    BY <2>1, TitleIs
  <2>3. AsRead(t, Sources(t))
    BY SourcesOfText
  <2> QED
    BY <2>2, <2>3 DEF SourcesAgree, AsRead
<1> QED
  BY <1>1, LabelTypeHolds, PTL
==============================================================================

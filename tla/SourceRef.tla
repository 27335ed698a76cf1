------------------------------- MODULE SourceRef -------------------------------
(***************************************************************************)
(* Where a CID row's content can be fetched again when nobody on the       *)
(* network has it: the Internet Archive item and file that keeper encodes  *)
(* in the inscription.  extractItems and loadState record one reading      *)
(* (deriveIaRef), startReseed tries several (deriveIaCandidates); <id> may *)
(* hold dashes, so both have to guess where <file> begins.                 *)
(*                                                                         *)
(* A label is what follows "Logos Storage: keeper-": words "w", dashes,    *)
(* dots, spaces "_" and the arrow ">".  A cid is what follows "ia:".       *)
(***************************************************************************)
EXTENDS Naturals, Sequences

CONSTANTS
  MaxCandidates,        \* candidates startReseed may try: 4
  TitleLength,          \* characters of it that the title keeps: 120, less the prefix
  MaxLabel              \* bound on the length of a label

ASSUME LabelAssumption ==
  /\ MaxCandidates \in Nat \ {0}
  /\ TitleLength \in Nat
  /\ MaxLabel \in Nat

VARIABLES
  pseudo,               \* is the reference an "ia:" cid (no label)?
  label                 \* the characters so far

labelVars == <<pseudo, label>>

LabelChar == {"w", "-", ".", "_", ">"}

LabelInit == pseudo \in BOOLEAN /\ label = <<>>

LabelNext ==
  /\ Len(label) < MaxLabel
  /\ \E ch \in LabelChar : label' = Append(label, ch)
  /\ UNCHANGED pseudo

LabelSpec == LabelInit /\ [][LabelNext]_labelVars

\* The least and the greatest of some positions, 0 when there are none.
Least(S) == IF S = {} THEN 0 ELSE CHOOSE p \in S : \A q \in S : p <= q
Greatest(S) == IF S = {} THEN 0 ELSE CHOOSE p \in S : \A q \in S : q <= p

Trimmed(s) ==
  LET words == {k \in DOMAIN s : s[k] # "_"}
  IN IF words = {} THEN <<>> ELSE SubSeq(s, Least(words), Greatest(words))

\* prefixRe: at least one character, as few as possible, up to the end or to spaces
\* and an arrow.
EndsAt(s, n) ==
  \/ n = Len(s)
  \/ \E a \in n + 1..Len(s) : s[a] = ">" /\ \A k \in n + 1..a - 1 : s[k] = "_"
Captured(s) == Trimmed(SubSeq(s, 1, Least({n \in DOMAIN s : EndsAt(s, n)})))

FirstDot(s) == Least({k \in DOMAIN s : s[k] = "."})
\* lastIndexOf('-', from)
LastDash(s, from) == Greatest({k \in 1..from : s[k] = "-"})

Source(id, file) == [id |-> id, file |-> file]
Whole(s) == Source(s, <<>>)
CutAt(s, p) == Source(SubSeq(s, 1, p - 1), SubSeq(s, p + 1, Len(s)))

\* Faulty variant: a leading dash splits off an item without a name.
IaRefAnyDash(s) ==
  IF pseudo THEN Whole(s)
  ELSE LET rest == Captured(s)
           split == LastDash(rest, FirstDot(rest))
       IN IF FirstDot(rest) = 0 \/ split = 0 THEN Whole(rest) ELSE CutAt(rest, split)

\* deriveIaRef: the reading that the row records.
IaRef(s) ==
  IF pseudo THEN Whole(s)
  ELSE LET rest == Captured(s)
           split == LastDash(rest, FirstDot(rest))
       IN IF FirstDot(rest) = 0 \/ split <= 1 THEN Whole(rest) ELSE CutAt(rest, split)

\* The cuts at and before p, the nearest to the dot first.
Cuts(rest) ==
  LET from[p \in 0..Len(rest)] ==
        IF p <= 1 THEN <<>> ELSE <<CutAt(rest, p)>> \o from[LastDash(rest, p - 1)]
  IN from[LastDash(rest, FirstDot(rest))]

\* deriveIaCandidates: the readings that a reseed tries, in this order.
IaCandidates(s) ==
  IF pseudo THEN <<Whole(s)>>
  ELSE IF s = <<>> THEN <<>>
  ELSE LET rest == Captured(s)
           cuts == Cuts(rest)
       IN IF cuts = <<>> THEN <<Whole(rest)>>
          ELSE SubSeq(cuts, 1, IF Len(cuts) < MaxCandidates THEN Len(cuts) ELSE MaxCandidates)

\* extractItems keeps the label as the row's title, cut to TitleLength.
Title(s) == IF Len(s) <= TitleLength THEN s ELSE SubSeq(s, 1, TitleLength)

\* startReseed: the sources it downloads from; a first candidate without a file is
\* no source of a single file.
Sources(title) ==
  LET found == IaCandidates(title)
  IN IF found = <<>> \/ Head(found).file = <<>> THEN <<>> ELSE found

-----------------------------------------------------------------------------
\* What the row says it can be fetched from is what a reseed asks for first, as long
\* as the title keeps the label whole; the other candidates are the other readings of
\* the same text, each with an item and a file, none tried twice, no more than the
\* cap that keeps archive.org from being hammered (deriveIaRef and deriveIaCandidates
\* repeat each other's rules; test reseed candidates of tst_lez_client).
SourcesAgree ==
  LET sources == Sources(Title(label))
  IN /\ label # <<>> /\ Len(label) <= TitleLength =>
          (IF IaRef(label).file = <<>> THEN sources = <<>>
           ELSE sources # <<>> /\ Head(sources) = IaRef(label))
     /\ Len(sources) <= MaxCandidates
     /\ \A j, k \in DOMAIN sources : j # k => sources[j].id # sources[k].id
     /\ \A k \in DOMAIN sources :
          /\ sources[k].id # <<>> /\ sources[k].file # <<>>
          /\ sources[k].id \o <<"-">> \o sources[k].file = Captured(Title(label))
==============================================================================

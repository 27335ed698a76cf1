------------------------------- MODULE IaFiles -------------------------------
(***************************************************************************)
(* The scan of an Internet Archive manifest, {id}_files.xml, element by    *)
(* element (ia_files.cpp).  The document is what the network sends, so any *)
(* element may follow any other, and the text may end or break anywhere.   *)
(* Only <file> holds other elements here; the root is left out.            *)
(***************************************************************************)
EXTENDS Naturals, Sequences, FiniteSets

CONSTANTS
  FileName,             \* values of a file's name attribute, "" when it has none
  Sum,                  \* values of a checksum element, "" when it is empty
  MaxElements           \* bound on the elements of a document

VARIABLES
  doc,                  \* the elements read so far
  cur, inFile, isSummation, out,    \* the locals of parseIaFilesXml
  open, broken          \* the reader: elements not yet closed, malformed text

manifestVars == <<doc, cur, inFile, isSummation, out, open, broken>>

Entry == [name |-> "", md5 |-> "", sha1 |-> ""]

\* <file name=...>, </file>, <md5>, <sha1> and <summation> in any order.
Opening == [tag : {"file"}, value : FileName]
Checksum == [tag : {"md5", "sha1"}, value : Sum]
Bare == [tag : {"summation", "/file"}, value : {""}]
Element == Opening \cup Checksum \cup Bare

ManifestInit ==
  /\ doc = <<>>
  /\ cur = Entry
  /\ inFile = FALSE
  /\ isSummation = FALSE
  /\ out = <<>>
  /\ open = 0
  /\ broken = FALSE

More(e) ==
  /\ ~broken /\ Len(doc) < MaxElements
  /\ doc' = Append(doc, e)
  /\ UNCHANGED broken

\* Faulty variant: the mark of the manifest's own entry sticks.
OpenFileKeepsMark(e) ==
  /\ e.tag = "file" /\ More(e)
  /\ cur' = [Entry EXCEPT !.name = e.value]
  /\ inFile' = TRUE
  /\ open' = open + 1
  /\ UNCHANGED <<isSummation, out>>

OpenFile(e) ==
  /\ e.tag = "file" /\ More(e)
  /\ cur' = [Entry EXCEPT !.name = e.value]
  /\ inFile' = TRUE
  /\ isSummation' = FALSE
  /\ open' = open + 1
  /\ UNCHANGED out

ReadChecksum(e) ==
  /\ e.tag \in {"md5", "sha1"} /\ More(e)
  /\ cur' = IF inFile THEN [cur EXCEPT ![e.tag] = e.value] ELSE cur
  /\ UNCHANGED <<inFile, isSummation, out, open>>

MarkOwnEntry(e) ==
  /\ e.tag = "summation" /\ More(e)
  /\ isSummation' = (isSummation \/ inFile)
  /\ UNCHANGED <<cur, inFile, out, open>>

CloseFile(e) ==
  /\ e.tag = "/file" /\ open > 0 /\ More(e)
  /\ open' = open - 1
  /\ inFile' = FALSE
  /\ out' = IF inFile /\ cur.name # "" /\ ~isSummation THEN Append(out, cur) ELSE out
  /\ UNCHANGED <<cur, isSummation>>

\* Malformed text, such as a tag that closes nothing or an element inside a checksum:
\* nothing more is read.
Breaks ==
  /\ ~broken
  /\ broken' = TRUE
  /\ UNCHANGED <<doc, cur, inFile, isSummation, out, open>>

\* What the caller gets if the text ends here; an end inside an element is an error.
Manifest == IF broken \/ open > 0 THEN <<>> ELSE out

ReadElement(e) == OpenFile(e) \/ ReadChecksum(e) \/ MarkOwnEntry(e) \/ CloseFile(e)

ManifestNext == Breaks \/ \E e \in Element : ReadElement(e)

ManifestSpec == ManifestInit /\ [][ManifestNext]_manifestVars

-----------------------------------------------------------------------------
\* What the document says: the file elements that are closed, by where they end ...
Between(s, e) == {k \in DOMAIN doc : s < k /\ k < e}
StartOf(e) ==
  {s \in 1..e-1 : /\ doc[s].tag = "file"
                  /\ \A k \in Between(s, e) : doc[k].tag \notin {"file", "/file"}}
Closed == {e \in DOMAIN doc : doc[e].tag = "/file" /\ StartOf(e) # {}}

\* ... and what stands in the one that ends at e.
Inside(e) == CHOOSE s \in StartOf(e) : TRUE
Within(e, tag) == {k \in Between(Inside(e), e) : doc[k].tag = tag}
LastOf(e, tag) ==
  LET ks == Within(e, tag)
  IN IF ks = {} THEN "" ELSE doc[CHOOSE k \in ks : \A j \in ks : j <= k].value

Listed == {e \in Closed : doc[Inside(e)].value # "" /\ Within(e, "summation") = {}}
Described(e) ==
  [name |-> doc[Inside(e)].value, md5 |-> LastOf(e, "md5"), sha1 |-> LastOf(e, "sha1")]

\* The text ends inside a file element.
Tagged(tag) == {k \in DOMAIN doc : doc[k].tag = tag}
Cut == Cardinality(Tagged("file")) # Cardinality(Tagged("/file"))

\* The files preserved are the files of the manifest, in its order, each with its
\* own checksums: none is dropped or given its neighbour's, the manifest's own entry
\* is never among them, and a manifest that is cut short lists nothing, so that the
\* item fails instead of being preserved in part (parseIaFilesXml, tests of
\* test_ia_files).
ManifestIsRead ==
  IF broken \/ Cut THEN Manifest = <<>>
  ELSE \E ends \in [DOMAIN Manifest -> Listed] :
         /\ \A e \in Listed : \E k \in DOMAIN ends : ends[k] = e
         /\ \A j, k \in DOMAIN ends : j < k => ends[j] < ends[k]
         /\ \A k \in DOMAIN ends : Manifest[k] = Described(ends[k])
==============================================================================

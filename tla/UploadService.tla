---------------------------- MODULE UploadService ----------------------------
(***************************************************************************)
(* What uploading promises its caller, without the slot, the node's queue  *)
(* or the light: one file is requested at a time, every request is         *)
(* answered once, and unless answers can be crossed "stored" is the truth  *)
(* about the file that was requested.                                      *)
(*                                                                         *)
(* Where answers can be crossed, that of another upload may be taken for   *)
(* this one's: a stranger's on a shared node, or that of an upload which   *)
(* was given up.  What is left of the promise is that there is an answer.  *)
(***************************************************************************)
CONSTANTS Blob, NoBlob

VARIABLES
  request,              \* the file whose answer is awaited
  credited,             \* the files answered "stored"
  held,                 \* the files that are stored
  crossed               \* may the answer be that of another upload?

vars == <<request, credited, held, crossed>>

Init ==
  /\ request = NoBlob
  /\ credited = {}
  /\ held = {}
  /\ crossed \in BOOLEAN

Request(b) ==
  /\ request = NoBlob
  /\ request' = b
  /\ UNCHANGED <<credited, held, crossed>>

\* Unless answers can be crossed, what is answered is what was done.
Answer(ok) ==
  /\ request # NoBlob
  /\ request' = NoBlob
  /\ credited' = IF ok THEN credited \cup {request} ELSE credited
  /\ IF crossed
     THEN \E b \in Blob : held' \in {held, held \cup {b}}
     ELSE held' = IF ok THEN held \cup {request} ELSE held
  /\ UNCHANGED crossed

\* A file whose request got another's answer, or was given up, is stored late.
StoredLate(b) ==
  /\ crossed
  /\ held' = held \cup {b}
  /\ UNCHANGED <<request, credited, crossed>>

Next ==
  \/ \E b \in Blob : Request(b) \/ StoredLate(b)
  \/ \E ok \in BOOLEAN : Answer(ok)

Safe == Init /\ [][Next]_vars

Spec == Safe /\ WF_vars(\E ok \in BOOLEAN : Answer(ok))
==============================================================================
